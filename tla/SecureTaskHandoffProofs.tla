---------------------- MODULE SecureTaskHandoffProofs ----------------------
(***************************************************************************)
(* Theorems about SecureTaskHandoff, for any number of workers and tasks.  *)
(*                                                                         *)
(* A lease is the pair of a task and a token.  The inductive invariant     *)
(* follows it: a worker holds only leases that were issued, no two workers *)
(* hold the same one, and as long as a worker may still write there is no  *)
(* record of its lease in the journal.  The second thread is evidence: the *)
(* replay records and the workers that answer "executed" speak only of     *)
(* requests that ran.  Every action moves at most one worker, so each      *)
(* conjunct is proved from StepOf(w), what a step of w may change.         *)
(***************************************************************************)
EXTENDS SecureTaskHandoff, SecureTaskIngressProofs

\* Still on the way to the journal.
Working == {"claimed", "granted", "verified", "writing"}

\* Some task with request q left a record.
Ran(q) == \E u \in Tasks : RequestOf[u] = q /\ Records(u) # {}

\* No record of lease k of task t.
Unrecorded(t, k) == \A i \in Records(t) : journal[i].token # k

WorkerSound(w) ==
  /\ worker[w].task \in Tasks
  /\ worker[w].token \in IssuedTokens(worker[w].task)
  /\ worker[w].pc \in Working => Unrecorded(worker[w].task, worker[w].token)
  /\ At(w, "executed") => Ran(Request(w))

WorkersSound == \A w \in Workers : ~At(w, "idle") => WorkerSound(w)

\* No two workers hold the same lease.
LeasesApart ==
  \A v, w \in Workers :
    /\ v # w /\ ~At(v, "idle") /\ ~At(w, "idle")
    /\ worker[v].task = worker[w].task
    => worker[v].token # worker[w].token

ReplaysRan == \A w \in Workers : \A r \in replay[w] : Ran(r)

HInv ==
  /\ HTypeOK
  /\ RowsSound
  /\ WorkersSound
  /\ LeasesApart
  /\ ReplaysRan
  /\ OneRunPerLease
  /\ AckedWasExecuted

-----------------------------------------------------------------------------
(* What a step may change *)

\* At most one line is added, by a worker that will not write again for its
\* lease.
JournalMoves(w) ==
  \/ journal' = journal
  \/ /\ At(w, "writing")
     /\ worker'[w].pc \notin Working
     /\ \E l \in Line :
          /\ journal' = Append(journal, l)
          /\ \/ l.form = "torn"
             \/ l.task = worker[w].task /\ l.token = worker[w].token

\* A worker goes idle, claims a lease that nobody held before, or goes on.
TakesLease(w) ==
  \E t \in Tasks :
    /\ worker'[w].pc = "claimed"
    /\ worker'[w].task = t
    /\ worker'[w].token = tasks[t].attempt_count + 1
    /\ tasks'[t].attempt_count = tasks[t].attempt_count + 1
    /\ journal' = journal

GoesOn(w) ==
  /\ ~At(w, "idle")
  /\ worker'[w].task = worker[w].task
  /\ worker'[w].token = worker[w].token
  /\ worker'[w].pc \in Working => worker[w].pc \in Working
  /\ worker'[w].pc = "executed" => Ran(Request(w))'

WorkerMoves(w) == worker'[w].pc = "idle" \/ TakesLease(w) \/ GoesOn(w)

OthersKept(w) ==
  \A v \in Workers \ {w} : worker'[v] = worker[v] /\ replay'[v] = replay[v]

ReplayMoves(w) == \A r \in replay'[w] : r \in replay[w] \/ Ran(r)'

AcksRan ==
  \A t \in Tasks : tasks'[t].state = "ACKED" =>
    tasks[t].state = "ACKED" \/ Ran(RequestOf[t])

HTypes == /\ worker' \in [Workers -> Worker]
          /\ replay' \in [Workers -> SUBSET Requests]

StepOf(w) ==
  /\ HTypes
  /\ OthersKept(w)
  /\ JournalMoves(w)
  /\ WorkerMoves(w)
  /\ ReplayMoves(w)

QueueStep == [Next]_vars /\ AcksRan

-----------------------------------------------------------------------------
(* The queue underneath *)

\* A transaction of the queue takes no lease number back.
LEMMA RowStepGrows ==
  ASSUME TypeOK, NEW t \in Tasks, NEW s \in Stamps, RowStep(t, s), RowSound(tasks[t])
  PROVE  /\ tasks'[t].attempt_count \in Nat
         /\ tasks[t].attempt_count <= tasks'[t].attempt_count
<1>0. tasks[t] \in Row /\ s \in Nat /\ tasks[t].attempt_count \in Nat
  BY StampType DEF TypeOK, Row
<1>1. CASE RowSubmitted(t, s)
  <2>1. PICK e \in (s + 1)..(s + MaxTtl) : tasks'[t] = AcceptedRow(s, e)
    BY <1>1 DEF RowSubmitted
  <2>2. e \in Nat
    BY <1>0, BoundsAssumption
  <2>3. tasks[t].attempt_count = 0
    BY <1>1 DEF RowSubmitted, RowSound
  <2> QED BY <1>0, <2>1, <2>2, <2>3, AcceptedRowType
<1>2. CASE RowSwept(t, s)
  <2>1. SweptRow(tasks[t], s).attempt_count = tasks[t].attempt_count
    BY <1>0, SweptRowType
  <2>2. tasks'[t] = SweptRow(tasks[t], s)
    BY <1>2 DEF RowSwept
  <2> QED BY <1>0, <2>1, <2>2
<1>3. CASE RowLeased(t, s)
  <2> DEFINE q == SweptRow(tasks[t], s)
  <2>1. q \in Row /\ q.attempt_count = tasks[t].attempt_count
    BY <1>0, SweptRowType
  <2>2. PICK d \in LeaseDurations : tasks'[t] = LeasedRow(q, s, d)
    BY <1>3 DEF RowLeased
  <2> HIDE DEF q
  <2>3. LeasedRow(q, s, d).attempt_count = q.attempt_count + 1
    BY <1>0, <2>1, LeasedRowType
  <2> QED BY <1>0, <2>1, <2>2, <2>3
<1>4. CASE RowAcked(t, s)
  <2>1. "ACKED" \in States
    BY DEF States, Settled
  <2> QED BY <1>0, <1>4, <2>1, ReleasedType DEF RowAcked
<1>5. CASE RowNacked(t, s)
  <2>1. PICK p \in BOOLEAN :
          tasks'[t] = Released(tasks[t], NackedState(tasks[t], s, p))
    BY <1>5 DEF RowNacked
  <2>2. NackedState(tasks[t], s, p) \in States
    BY DEF NackedState, States, Settled
  <2> QED BY <1>0, <2>1, <2>2, ReleasedType
<1> QED BY <1>1, <1>2, <1>3, <1>4, <1>5 DEF RowStep, RowMoved

LEMMA AttemptsGrow ==
  ASSUME TypeOK, RowsSound, [Next]_vars, NEW t \in Tasks
  PROVE  /\ tasks[t].attempt_count \in Nat
         /\ tasks'[t].attempt_count \in Nat
         /\ tasks[t].attempt_count <= tasks'[t].attempt_count
<1>1. tasks[t].attempt_count \in Nat
  BY DEF TypeOK, Row
<1>2. CASE RowKept(t)
  BY <1>1, <1>2 DEF RowKept
<1>3. CASE \E s \in Stamps : RowStep(t, s)
  BY <1>1, <1>3, RowStepGrows DEF RowsSound
<1> QED BY <1>2, <1>3, StepByRow

LEMMA RowsSoundInductive == TypeOK /\ RowsSound /\ [Next]_vars => RowsSound'
BY StepByRow, RowStepSound DEF RowsSound, RowKept

\* A claim acknowledges nothing, and draws the next number for its lease.
LEMMA ClaimNothingFacts ==
  ASSUME TypeOK, NEW s \in Stamps, ClaimNothing(s)
  PROVE  /\ [Next]_vars
         /\ \A t \in Tasks : tasks'[t].state = "ACKED" => tasks[t].state = "ACKED"
<1>1. ASSUME NEW t \in Tasks, tasks'[t].state = "ACKED"
      PROVE  tasks[t].state = "ACKED"
  <2>1. tasks[t] \in Row /\ s \in Nat
    BY StampType DEF TypeOK
  <2>2. tasks'[t] = SweptRow(tasks[t], s)
    BY DEF ClaimNothing, Swept
  <2> QED BY <1>1, <2>1, <2>2, SweptRowFacts
<1>2. Next
  BY DEF Next, Poll
<1> QED BY <1>1, <1>2

LEMMA ClaimNextFacts ==
  ASSUME TypeOK, NEW u \in Tasks, NEW s \in Stamps, NEW d \in LeaseDurations,
         ClaimNext(u, s, d)
  PROVE  /\ [Next]_vars
         /\ tasks'[u].lease_token = tasks[u].attempt_count + 1
         /\ tasks'[u].attempt_count = tasks[u].attempt_count + 1
         /\ \A t \in Tasks : tasks'[t].state = "ACKED" => tasks[t].state = "ACKED"
<1>0. s \in Nat /\ tasks[u] \in Row
  BY StampType DEF TypeOK
<1> DEFINE q == SweptRow(tasks[u], s)
<1>1. tasks'[u] = LeasedRow(q, s, d)
  BY DEF ClaimNext, Swept
<1>2. q \in Row /\ q.attempt_count = tasks[u].attempt_count
  BY <1>0, SweptRowType
<1> HIDE DEF q
<1>3. /\ LeasedRow(q, s, d).state = "LEASED"
      /\ LeasedRow(q, s, d).lease_token = q.attempt_count + 1
      /\ LeasedRow(q, s, d).attempt_count = q.attempt_count + 1
  BY <1>0, <1>2, LeasedRowType
<1>4. ASSUME NEW t \in Tasks, tasks'[t].state = "ACKED"
      PROVE  tasks[t].state = "ACKED"
  <2>1. t # u
    BY <1>1, <1>3, <1>4
  <2>2. tasks'[t] = SweptRow(tasks[t], s) /\ tasks[t] \in Row
    BY <2>1 DEF ClaimNext, Swept, TypeOK
  <2> QED BY <1>0, <1>4, <2>2, SweptRowFacts
<1>5. Next
  BY DEF Next, Poll
<1> QED BY <1>1, <1>2, <1>3, <1>4, <1>5

\* Whatever run_once asks of the queue under a lease it was given is one of the
\* queue's own operations.
LEMMA SettleFacts ==
  ASSUME TypeOK, NEW t \in Tasks, NEW k \in IssuedTokens(t), NEW s \in Stamps,
         NEW pc, SettleQueue(pc, t, k, s)
  PROVE  /\ [Next]_vars
         /\ \A u \in Tasks : tasks'[u].state = "ACKED" =>
              tasks[u].state = "ACKED" \/ (pc = "executed" /\ u = t)
<1>1. CASE pc = "executed" /\ Ack(t, k, s)
  <2>1. Next
    BY <1>1 DEF Next
  <2>2. tasks' = [tasks EXCEPT ![t] = Released(@, "ACKED")]
    BY <1>1 DEF Ack
  <2>3. \A u \in Tasks : u # t => tasks'[u] = tasks[u]
    BY <2>2 DEF TypeOK
  <2> QED BY <1>1, <2>1, <2>3
<1>2. ASSUME NEW p \in BOOLEAN, Nack(t, k, s, p)
      PROVE  /\ [Next]_vars
             /\ \A u \in Tasks : tasks'[u].state = "ACKED" => tasks[u].state = "ACKED"
  <2>1. Next
    BY <1>2 DEF Next
  <2> DEFINE st == NackedState(tasks[t], s, p)
  <2>2. st # "ACKED" /\ st \in States
    BY DEF NackedState, States, Settled
  <2>3. tasks' = [tasks EXCEPT ![t] = Released(@, st)]
    BY <1>2 DEF Nack
  <2>4. tasks[t] \in Row
    BY DEF TypeOK
  <2> HIDE DEF st
  <2>5. Released(tasks[t], st).state = st
    BY <2>2, <2>4, ReleasedType
  <2>6. /\ tasks'[t].state = st
        /\ \A u \in Tasks : u # t => tasks'[u] = tasks[u]
    BY <2>3, <2>5 DEF TypeOK
  <2> QED BY <2>1, <2>2, <2>6
<1>3. CASE UNCHANGED vars
  BY <1>3 DEF vars
<1>4. CASE (pc = "failed" /\ Nack(t, k, s, FALSE)) \/ (pc = "refused" /\ Nack(t, k, s, TRUE))
  BY <1>2, <1>4
<1> QED BY <1>1, <1>3, <1>4 DEF SettleQueue

-----------------------------------------------------------------------------
(* Each action is a StepOf its worker *)

\* The journal only grows, so what ran stays on record.
JournalGrows == \A i \in DOMAIN journal : i \in DOMAIN journal' /\ journal'[i] = journal[i]

LEMMA AppendGrows ==
  ASSUME NEW l \in Line, journal \in Seq(Line), journal' = Append(journal, l)
  PROVE  /\ JournalGrows
         /\ journal' \in Seq(Line)
         /\ DOMAIN journal' = DOMAIN journal \cup {Len(journal) + 1}
         /\ journal'[Len(journal) + 1] = l
BY DEF JournalGrows

LEMMA JournalMovesFacts ==
  ASSUME HTypeOK, NEW w \in Workers, JournalMoves(w)
  PROVE  JournalGrows /\ journal' \in Seq(Line)
<1>1. journal \in Seq(Line)
  BY DEF HTypeOK
<1>2. CASE journal' = journal
  BY <1>1, <1>2 DEF JournalGrows
<1>3. CASE \E l \in Line : journal' = Append(journal, l)
  BY <1>1, <1>3, AppendGrows
<1> QED BY <1>2, <1>3 DEF JournalMoves

LEMMA RanStays ==
  ASSUME JournalGrows, NEW q, Ran(q)
  PROVE  Ran(q)'
<1>1. PICK u \in Tasks : RequestOf[u] = q /\ Records(u) # {}
  BY DEF Ran
<1>2. PICK i \in Records(u) : TRUE
  BY <1>1
<1>3. i \in Records(u)'
  BY <1>2 DEF Records, JournalGrows
<1> QED BY <1>1, <1>3 DEF Ran

LEMMA LineOfFacts ==
  ASSUME HTypeOK, NEW w \in Workers, WorkerSound(w)
  PROVE  LET l == LineOf(w)
         IN /\ l \in Line /\ l.form = "whole" /\ [l EXCEPT !.form = "unended"] \in Line
            /\ l.task = worker[w].task /\ l.token = worker[w].token
            /\ [l EXCEPT !.form = "unended"].task = worker[w].task
            /\ [l EXCEPT !.form = "unended"].token = worker[w].token
<1>1. worker[w] \in Worker
  BY DEF HTypeOK
<1>2. /\ worker[w].sequence \in Nat /\ worker[w].task \in Nat
      /\ worker[w].token \in Nat
  BY <1>1 DEF Worker
<1> QED BY <1>2 DEF LineOf, Line

LEMMA RemainsMove ==
  ASSUME HTypeOK, NEW w \in Workers, At(w, "writing"), WorkerSound(w),
         journal' \in Remains(w), worker'[w].pc \notin Working
  PROVE  JournalMoves(w)
<1>1. Torn \in Line /\ Torn.form = "torn"
  BY DEF Torn, Line
<1> QED BY <1>1, LineOfFacts DEF Remains, JournalMoves

\* Settling and the step that only moves a worker on.
LEMMA GotoFacts ==
  ASSUME HTypeOK, NEW w \in Workers, ~At(w, "idle"), NEW pc \in Pcs, Goto(w, pc)
  PROVE  /\ worker' \in [Workers -> Worker]
         /\ worker'[w].pc = pc
         /\ worker'[w].task = worker[w].task
         /\ worker'[w].token = worker[w].token
         /\ \A v \in Workers \ {w} : worker'[v] = worker[v]
<1>1. worker[w] \in Worker /\ worker \in [Workers -> Worker]
  BY DEF HTypeOK
<1>2. [worker[w] EXCEPT !.pc = pc] \in Worker
  BY <1>1 DEF Worker
<1>3. worker' = [worker EXCEPT ![w] = [worker[w] EXCEPT !.pc = pc]]
  BY DEF Goto
<1> QED BY <1>1, <1>2, <1>3 DEF Worker

LEMMA RestIsStep ==
  ASSUME HTypeOK, NEW w \in Workers,
         worker' = [worker EXCEPT ![w] = Idle],
         replay' = replay \/ replay' = [replay EXCEPT ![w] = {}],
         JournalMoves(w)
  PROVE  StepOf(w)
<1>1. Idle \in Worker /\ Idle.pc = "idle"
  BY DEF Idle, Worker, Pcs
<1>2. worker \in [Workers -> Worker] /\ replay \in [Workers -> SUBSET Requests]
  BY DEF HTypeOK
<1>3. HTypes /\ OthersKept(w) /\ ReplayMoves(w)
  BY <1>1, <1>2 DEF HTypes, OthersKept, ReplayMoves
<1>4. worker'[w].pc = "idle"
  BY <1>1, <1>2
<1> QED BY <1>3, <1>4 DEF StepOf, WorkerMoves

LEMMA GotoIsStep ==
  ASSUME HTypeOK, NEW w \in Workers, ~At(w, "idle"), NEW pc \in Pcs, Goto(w, pc),
         pc \in Working => worker[w].pc \in Working,
         pc = "executed" => Ran(Request(w)),
         UNCHANGED <<replay, journal>>
  PROVE  StepOf(w)
<1>1. JournalMoves(w) /\ JournalGrows
  BY DEF JournalMoves, JournalGrows
<1>2. replay \in [Workers -> SUBSET Requests]
  BY DEF HTypeOK
<1>3. HTypes /\ OthersKept(w) /\ ReplayMoves(w)
  BY <1>2, GotoFacts DEF HTypes, OthersKept, ReplayMoves
<1>4. pc = "executed" => Ran(Request(w))'
  <2>1. Request(w)' = Request(w)
    BY GotoFacts DEF Request
  <2> QED BY <1>1, <2>1, RanStays
<1>5. GoesOn(w)
  BY <1>4, GotoFacts DEF GoesOn
<1> QED BY <1>1, <1>3, <1>5 DEF StepOf, WorkerMoves

\* Every action of a worker is a step of its own, and only Poller and Settle
\* touch the queue.
LEMMA ClaimIsStep ==
  ASSUME HInv, NEW w \in Workers, Poller(w)
  PROVE  StepOf(w) /\ QueueStep
<1>0. /\ HTypeOK /\ TypeOK /\ worker \in [Workers -> Worker]
      /\ replay \in [Workers -> SUBSET Requests]
  BY DEF HInv, HTypeOK
<1>1. PICK s \in Stamps : Claim(w, s)
  BY DEF Poller
<1>2. At(w, "idle") /\ UNCHANGED <<replay, journal>>
  BY <1>1 DEF Claim
<1>3. JournalMoves(w) /\ ReplayMoves(w)
  BY <1>2 DEF JournalMoves, ReplayMoves
<1>4. CASE ClaimNothing(s) /\ UNCHANGED worker
  <2>1. HTypes /\ OthersKept(w) /\ WorkerMoves(w)
    BY <1>0, <1>2, <1>4 DEF HTypes, OthersKept, WorkerMoves, At
  <2>2. QueueStep
    BY <1>0, <1>4, ClaimNothingFacts DEF QueueStep, AcksRan
  <2> QED BY <1>3, <2>1, <2>2 DEF StepOf
<1>5. ASSUME NEW t \in Tasks, NEW d \in LeaseDurations, ClaimFor(w, t, s, d)
      PROVE  StepOf(w) /\ QueueStep
  <2>1. ClaimNext(t, s, d)
    BY <1>5 DEF ClaimFor
  <2>2. /\ tasks'[t].lease_token = tasks[t].attempt_count + 1
        /\ tasks'[t].attempt_count = tasks[t].attempt_count + 1
        /\ QueueStep
    BY <1>0, <2>1, ClaimNextFacts DEF QueueStep, AcksRan
  <2> DEFINE k == tasks'[t].lease_token
             n == [Idle EXCEPT !.pc = "claimed", !.task = t, !.token = k]
  <2>3. worker' = [worker EXCEPT ![w] = n]
    BY <1>5 DEF ClaimFor
  <2>4. /\ t \in Nat /\ k \in Nat
        /\ k = tasks[t].attempt_count + 1
    BY <1>0, <2>2, TasksAssumption DEF TypeOK, Row
  <2> HIDE DEF k
  <2>5. n \in Worker /\ n.pc = "claimed" /\ n.task = t /\ n.token = k
    BY <2>4 DEF Worker, Pcs, Idle
  <2> HIDE DEF n
  <2>6. HTypes /\ OthersKept(w)
    BY <1>0, <1>2, <2>3, <2>5 DEF HTypes, OthersKept
  <2>7. worker'[w] = n
    BY <1>0, <2>3
  <2>8. TakesLease(w)
    BY <1>2, <2>2, <2>4, <2>5, <2>7 DEF TakesLease
  <2> QED BY <1>3, <2>2, <2>6, <2>8 DEF StepOf, WorkerMoves
<1> QED BY <1>1, <1>4, <1>5 DEF Claim

LEMMA LocalIsStep ==
  ASSUME HInv, NEW w \in Workers,
         LoadGrant(w) \/ Deny(w) \/ Replay(w) \/ Verify(w)
  PROVE  StepOf(w)
<1>0. HTypeOK /\ worker[w].pc \in {"claimed", "granted"}
  BY DEF HInv, LoadGrant, Deny, Replay, Verify, At
<1>1. ~At(w, "idle") /\ worker[w].pc \in Working
  BY <1>0 DEF At, Working
<1>2. UNCHANGED <<replay, journal>>
  BY DEF LoadGrant, Deny, Replay, Verify
<1>3. ASSUME NEW pc \in {"granted", "verified", "refused", "failed"}, Goto(w, pc)
      PROVE  StepOf(w)
  <2>1. pc \in Pcs /\ pc # "executed"
    BY DEF Pcs
  <2> QED BY <1>0, <1>1, <1>2, <1>3, <2>1, GotoIsStep
<1>4. CASE Replay(w) /\ Request(w) \in replay[w]
  <2>1. Ran(Request(w))
    BY <1>4 DEF HInv, ReplaysRan
  <2>2. Goto(w, "executed")
    BY <1>4 DEF Replay
  <2>3. "executed" \in Pcs /\ "executed" \notin Working
    BY DEF Pcs, Working
  <2> QED BY <1>0, <1>1, <1>2, <2>1, <2>2, <2>3, GotoIsStep
<1>5. CASE Replay(w) /\ Request(w) \notin replay[w]
  BY <1>3, <1>5 DEF Replay
<1>6. CASE LoadGrant(w) \/ Deny(w)
  BY <1>3, <1>6 DEF LoadGrant, Deny
<1>7. CASE Verify(w)
  BY <1>3, <1>7 DEF Verify
<1> QED BY <1>4, <1>5, <1>6, <1>7

LEMMA AppendCheckIsStep ==
  ASSUME HInv, NEW w \in Workers, AppendCheck(w)
  PROVE  StepOf(w)
<1>0. /\ worker \in [Workers -> Worker] /\ replay \in [Workers -> SUBSET Requests]
      /\ journal \in Seq(Line)
  BY DEF HInv, HTypeOK
<1>1. At(w, "verified") /\ UNCHANGED <<vars, replay, journal>>
  BY DEF AppendCheck
<1> DEFINE n == IF Intact(journal)
                THEN [worker[w] EXCEPT !.pc = "writing", !.sequence = Len(journal) + 1]
                ELSE [worker[w] EXCEPT !.pc = "failed"]
<1>2. worker' = [worker EXCEPT ![w] = n]
  BY DEF AppendCheck
<1>3. worker[w] \in Worker /\ Len(journal) + 1 \in Nat
  BY <1>0
<1>4. /\ n \in Worker /\ n.task = worker[w].task /\ n.token = worker[w].token
      /\ n.pc \in {"writing", "failed"}
  BY <1>3 DEF Worker, Pcs
<1> HIDE DEF n
<1>5. HTypes /\ OthersKept(w)
  BY <1>0, <1>1, <1>2, <1>4 DEF HTypes, OthersKept
<1>6. GoesOn(w)
  <2>1. worker'[w] = n
    BY <1>0, <1>2
  <2> QED BY <1>1, <1>4, <2>1 DEF GoesOn, At, Working
<1> QED BY <1>1, <1>5, <1>6 DEF StepOf, WorkerMoves, JournalMoves, ReplayMoves

LEMMA WriteIsStep ==
  ASSUME HInv, NEW w \in Workers, AppendWrite(w)
  PROVE  StepOf(w)
<1>0. /\ HTypeOK /\ worker \in [Workers -> Worker]
      /\ replay \in [Workers -> SUBSET Requests]
  BY DEF HInv, HTypeOK
<1>1. At(w, "writing") /\ ~At(w, "idle")
  BY DEF AppendWrite, At
<1>2. WorkerSound(w)
  BY <1>1 DEF HInv, WorkersSound
<1>3. /\ worker' \in [Workers -> Worker] /\ worker'[w].pc = "executed"
      /\ worker'[w].task = worker[w].task /\ worker'[w].token = worker[w].token
      /\ \A v \in Workers \ {w} : worker'[v] = worker[v]
  <2>1. Goto(w, "executed") /\ "executed" \in Pcs
    BY DEF AppendWrite, Pcs
  <2> QED BY <1>0, <1>1, <2>1, GotoFacts
<1> DEFINE l == LineOf(w)
<1>4. l \in Line /\ l.form = "whole" /\ l.task = worker[w].task /\ l.token = worker[w].token
  BY <1>0, <1>2, LineOfFacts
<1> HIDE DEF l
<1>5. journal' = Append(journal, l)
  BY DEF AppendWrite, l
<1>6. JournalMoves(w)
  BY <1>1, <1>3, <1>4, <1>5 DEF JournalMoves, Working
<1>7. Request(w)' = Request(w) /\ Request(w) \in Requests
  BY <1>2, <1>3, RequestsAssumption DEF Request, WorkerSound
<1>8. Ran(Request(w))'
  <2>1. journal \in Seq(Line)
    BY <1>0 DEF HTypeOK
  <2>2. PICK u \in Tasks : u = worker[w].task
    BY <1>2 DEF WorkerSound
  <2>3. PICK i : i = Len(journal) + 1
    OBVIOUS
  <2>4. i \in Records(u)'
    BY <1>4, <1>5, <2>1, <2>2, <2>3, AppendGrows DEF Records
  <2>5. RequestOf[u] = Request(w)'
    BY <1>7, <2>2 DEF Request
  <2> QED BY <2>4, <2>5 DEF Ran
<1>9. replay' = [replay EXCEPT ![w] = @ \cup {Request(w)}]
  BY DEF AppendWrite
<1>10. HTypes /\ OthersKept(w)
  BY <1>0, <1>3, <1>7, <1>9 DEF HTypes, OthersKept
<1>11. ReplayMoves(w)
  BY <1>0, <1>7, <1>8, <1>9 DEF ReplayMoves
<1>12. GoesOn(w)
  BY <1>1, <1>3, <1>8 DEF GoesOn, Working
<1> QED BY <1>6, <1>10, <1>11, <1>12 DEF StepOf, WorkerMoves

LEMMA FailIsStep ==
  ASSUME HInv, NEW w \in Workers, AppendFail(w)
  PROVE  StepOf(w)
<1>0. /\ HTypeOK /\ worker \in [Workers -> Worker]
      /\ replay \in [Workers -> SUBSET Requests]
  BY DEF HInv, HTypeOK
<1>1. At(w, "writing") /\ ~At(w, "idle")
  BY DEF AppendFail, At
<1>2. WorkerSound(w)
  BY <1>1 DEF HInv, WorkersSound
<1>3. /\ worker' \in [Workers -> Worker] /\ worker'[w].pc = "failed"
      /\ worker'[w].task = worker[w].task /\ worker'[w].token = worker[w].token
      /\ \A v \in Workers \ {w} : worker'[v] = worker[v]
  <2>1. Goto(w, "failed") /\ "failed" \in Pcs
    BY DEF AppendFail, Pcs
  <2> QED BY <1>0, <1>1, <2>1, GotoFacts
<1>4. JournalMoves(w)
  <2>1. journal' \in Remains(w) /\ worker'[w].pc \notin Working
    BY <1>3 DEF AppendFail, Working
  <2> QED BY <1>0, <1>1, <1>2, <2>1, RemainsMove
<1>5. HTypes /\ OthersKept(w) /\ ReplayMoves(w)
  BY <1>0, <1>3 DEF AppendFail, HTypes, OthersKept, ReplayMoves
<1>6. GoesOn(w)
  BY <1>1, <1>3 DEF GoesOn, Working
<1> QED BY <1>4, <1>5, <1>6 DEF StepOf, WorkerMoves

LEMMA SettleIsStep ==
  ASSUME HInv, NEW w \in Workers, NEW s \in Stamps, Settle(w, s)
  PROVE  StepOf(w) /\ QueueStep
<1>0. HTypeOK /\ TypeOK /\ ~At(w, "idle")
  BY DEF HInv, HTypeOK, Settle, At
<1>1. WorkerSound(w)
  BY <1>0 DEF HInv, WorkersSound
<1>2. JournalMoves(w)
  BY DEF Settle, JournalMoves
<1>3. StepOf(w)
  BY <1>0, <1>2, RestIsStep DEF Settle
<1> DEFINE t == worker[w].task
           k == worker[w].token
           pc == worker[w].pc
<1>4. t \in Tasks /\ k \in IssuedTokens(t) /\ SettleQueue(pc, t, k, s)
  BY <1>1 DEF Settle, WorkerSound
<1>5. pc = "executed" => Ran(RequestOf[t])
  BY <1>1 DEF WorkerSound, At, Request
<1> HIDE DEF t, k, pc
<1>6. /\ [Next]_vars
      /\ \A u \in Tasks : tasks'[u].state = "ACKED" =>
           tasks[u].state = "ACKED" \/ (pc = "executed" /\ u = t)
  BY <1>0, <1>4, SettleFacts
<1>7. AcksRan
  BY <1>5, <1>6 DEF AcksRan
<1> QED BY <1>3, <1>6, <1>7 DEF QueueStep

LEMMA StopIsStep ==
  ASSUME HInv, NEW w \in Workers, Abandon(w) \/ Crash(w)
  PROVE  StepOf(w)
<1>0. HTypeOK
  BY DEF HInv
<1>1. Idle.pc \notin Working /\ worker'[w].pc = "idle"
  <2>1. worker' = [worker EXCEPT ![w] = Idle] /\ worker \in [Workers -> Worker]
    BY <1>0 DEF Abandon, Crash, HTypeOK
  <2> QED BY <2>1 DEF Idle, Working
<1>2. JournalMoves(w)
  <2>1. CASE UNCHANGED journal
    BY <2>1 DEF JournalMoves
  <2>2. CASE At(w, "writing") /\ journal' \in Remains(w)
    <3>1. WorkerSound(w)
      BY <2>2 DEF HInv, WorkersSound, At
    <3>2. worker'[w].pc \notin Working
      BY <1>1 DEF Working
    <3> QED BY <1>0, <2>2, <3>1, <3>2, RemainsMove
  <2> QED BY <2>1, <2>2 DEF Abandon, Crash
<1> QED BY <1>0, <1>2, RestIsStep DEF Abandon, Crash

\* The queue's own steps, taken without a worker.
LEMMA TickFacts ==
  ASSUME TypeOK, Tick
  PROVE  QueueStep
BY DEF Tick, QueueStep, AcksRan, Next

LEMMA SubmitFacts ==
  ASSUME TypeOK, NEW t \in Tasks, NEW s \in Stamps,
         NEW e \in (s + 1)..(s + MaxTtl), Submit(t, s, e)
  PROVE  QueueStep
<1>1. Next
  BY DEF Next
<1>2. s \in Nat /\ e \in Nat
  BY StampType, BoundsAssumption
<1>3. tasks'[t].state = "PENDING"
  BY <1>2, AcceptedRowType DEF Submit, TypeOK
<1>4. \A u \in Tasks : u # t => tasks'[u] = tasks[u]
  BY DEF Submit, TypeOK
<1> QED BY <1>1, <1>3, <1>4 DEF QueueStep, AcksRan

\* A step of the whole system is a step of the queue, taken by at most one
\* worker.
LEMMA StepsOfSystem ==
  ASSUME HInv, [HNext]_hvars
  PROVE  QueueStep /\ (Elsewhere \/ \E w \in Workers : StepOf(w))
<1>0. TypeOK
  BY DEF HInv, HTypeOK
<1>1. UNCHANGED vars => QueueStep
  BY DEF vars, QueueStep, AcksRan
<1>2. CASE UNCHANGED hvars
  BY <1>1, <1>2 DEF hvars, Elsewhere
<1>3. CASE HTick
  BY <1>0, <1>3, TickFacts DEF HTick
<1>4. CASE HSubmit
  BY <1>0, <1>4, SubmitFacts DEF HSubmit
<1>5. ASSUME NEW w \in Workers, Poller(w)
      PROVE  StepOf(w) /\ QueueStep
  BY <1>5, ClaimIsStep
<1>6. ASSUME NEW w \in Workers, Execute(w) \/ Crash(w)
      PROVE  StepOf(w) /\ QueueStep
  <2>1. CASE LoadGrant(w) \/ Deny(w) \/ Replay(w) \/ Verify(w)
    <3>1. UNCHANGED vars
      BY <2>1 DEF LoadGrant, Deny, Replay, Verify
    <3> QED BY <1>1, <2>1, <3>1, LocalIsStep
  <2>2. CASE AppendCheck(w) \/ AppendWrite(w) \/ AppendFail(w)
    <3>1. UNCHANGED vars
      BY <2>2 DEF AppendCheck, AppendWrite, AppendFail
    <3> QED BY <1>1, <2>2, <3>1, AppendCheckIsStep, WriteIsStep, FailIsStep
  <2>3. CASE Abandon(w) \/ Crash(w)
    <3>1. UNCHANGED vars
      BY <2>3 DEF Abandon, Crash
    <3> QED BY <1>1, <2>3, <3>1, StopIsStep
  <2>4. CASE \E s \in Stamps : Settle(w, s)
    BY <2>4, SettleIsStep
  <2> QED BY <1>6, <2>1, <2>2, <2>3, <2>4 DEF Execute
<1> QED BY <1>2, <1>3, <1>4, <1>5, <1>6 DEF HNext, HTick, HSubmit

-----------------------------------------------------------------------------
(* What a step keeps *)

LEMMA StepGrowsJournal ==
  ASSUME HTypeOK, Elsewhere \/ \E w \in Workers : StepOf(w)
  PROVE  JournalGrows /\ journal' \in Seq(Line)
<1>1. CASE Elsewhere
  BY <1>1 DEF Elsewhere, JournalGrows, HTypeOK
<1> QED BY <1>1, JournalMovesFacts DEF StepOf

\* A record of t is an old one, or the one w has just written.
LEMMA RecordsMove ==
  ASSUME HTypeOK, NEW w \in Workers, JournalMoves(w),
         NEW t \in Tasks, NEW i \in Records(t)'
  PROVE  \/ i \in Records(t) /\ journal'[i] = journal[i]
         \/ /\ At(w, "writing") /\ worker'[w].pc \notin Working
            /\ i = Len(journal) + 1
            /\ worker[w].task = t
            /\ journal'[i].token = worker[w].token
<1>1. CASE journal' = journal
  BY <1>1 DEF Records
<1>2. ASSUME NEW l \in Line, journal' = Append(journal, l), At(w, "writing"),
             worker'[w].pc \notin Working,
             l.form = "torn" \/ (l.task = worker[w].task /\ l.token = worker[w].token)
      PROVE  \/ i \in Records(t) /\ journal'[i] = journal[i]
             \/ i = Len(journal) + 1 /\ worker[w].task = t
                /\ journal'[i].token = worker[w].token
  <2>1. journal \in Seq(Line)
    BY DEF HTypeOK
  <2>2. /\ i \in DOMAIN journal' /\ journal'[i].form # "torn"
        /\ journal'[i].task = t
    BY DEF Records
  <2>3. CASE i \in DOMAIN journal
    <3>1. journal'[i] = journal[i]
      BY <1>2, <2>1, <2>3, AppendGrows DEF JournalGrows
    <3> QED BY <2>2, <2>3, <3>1 DEF Records
  <2>4. CASE i \notin DOMAIN journal
    <3>1. i = Len(journal) + 1 /\ journal'[i] = l
      BY <1>2, <2>1, <2>2, <2>4, AppendGrows
    <3> QED BY <1>2, <2>2, <3>1
  <2> QED BY <2>3, <2>4
<1> QED BY <1>1, <1>2 DEF JournalMoves

\* A lease stays issued: the numbers of a task's leases only grow.
LEMMA IssuedGrow ==
  ASSUME HInv, QueueStep, NEW t \in Tasks, NEW k \in IssuedTokens(t)
  PROVE  k \in IssuedTokens(t)'
BY AttemptsGrow DEF HInv, HTypeOK, QueueStep, IssuedTokens

LEMMA OthersStaySound ==
  ASSUME HInv, QueueStep, NEW w \in Workers, StepOf(w),
         NEW v \in Workers \ {w}, ~At(v, "idle")
  PROVE  WorkerSound(v)'
<1>0. HTypeOK /\ JournalMoves(w) /\ worker'[v] = worker[v]
  BY DEF HInv, StepOf, OthersKept
<1>1. WorkerSound(v)
  BY DEF HInv, WorkersSound
<1>2. PICK u \in Tasks : u = worker[v].task
  BY <1>1 DEF WorkerSound
<1>3. PICK n \in IssuedTokens(u) : n = worker[v].token /\ u = worker[v].task
  BY <1>1, <1>2 DEF WorkerSound
<1>4. n \in IssuedTokens(u)'
  BY <1>3, IssuedGrow
<1>5. ASSUME worker[v].pc \in Working
      PROVE  Unrecorded(u, n)'
  <2> SUFFICES ASSUME NEW i \in Records(u)' PROVE journal'[i].token # n
    BY DEF Unrecorded
  <2>1. CASE i \in Records(u) /\ journal'[i] = journal[i]
    BY <1>1, <1>3, <1>5, <2>1 DEF WorkerSound, Unrecorded
  <2>2. CASE /\ At(w, "writing") /\ worker[w].task = u
             /\ journal'[i].token = worker[w].token
    BY <1>3, <2>2 DEF HInv, LeasesApart, At
  <2> QED BY <1>0, <2>1, <2>2, RecordsMove
<1>6. ASSUME At(v, "executed")
      PROVE  Ran(RequestOf[u])'
  <2>1. Ran(RequestOf[u])
    BY <1>1, <1>3, <1>6 DEF WorkerSound, Request
  <2>2. JournalGrows
    BY <1>0, JournalMovesFacts
  <2> QED BY <2>1, <2>2, RanStays
<1>7. worker'[v].task = u /\ worker'[v].token = n
  BY <1>0, <1>3
<1> QED BY <1>0, <1>4, <1>5, <1>6, <1>7 DEF WorkerSound, At, Request, Working

LEMMA MoverStaysSound ==
  ASSUME HInv, QueueStep, NEW w \in Workers, StepOf(w), worker'[w].pc # "idle"
  PROVE  WorkerSound(w)'
<1>0. HTypeOK /\ JournalMoves(w)
  BY DEF HInv, StepOf
<1>1. CASE TakesLease(w)
  <2>1. PICK t \in Tasks :
          /\ worker'[w].pc = "claimed" /\ worker'[w].task = t
          /\ worker'[w].token = tasks[t].attempt_count + 1
          /\ tasks'[t].attempt_count = tasks[t].attempt_count + 1
          /\ journal' = journal
    BY <1>1 DEF TakesLease
  <2>2. tasks[t].attempt_count \in Nat
    BY DEF HInv, HTypeOK, TypeOK, Row
  <2>3. worker'[w].token \in IssuedTokens(t)'
    BY <2>1, <2>2 DEF IssuedTokens
  <2>4. ASSUME NEW i \in Records(t)
        PROVE  journal[i].token # tasks[t].attempt_count + 1
    <3>1. journal[i].token \in 1..tasks[t].attempt_count
      BY DEF HInv, OneRunPerLease, IssuedTokens
    <3> QED BY <2>2, <3>1
  <2>5. \A i \in Records(t)' : journal'[i].token # worker'[w].token
    BY <2>1, <2>4 DEF Records
  <2> QED BY <2>1, <2>3, <2>5 DEF WorkerSound, Unrecorded, At
<1>2. CASE GoesOn(w)
  <2>1. WorkerSound(w)
    BY <1>2 DEF GoesOn, HInv, WorkersSound
  <2>0. PICK t \in Tasks : t = worker[w].task
    BY <2>1 DEF WorkerSound
  <2>2. PICK k \in IssuedTokens(t) : t = worker[w].task /\ k = worker[w].token
    BY <2>0, <2>1 DEF WorkerSound
  <2>3. /\ worker'[w].task = t /\ worker'[w].token = k
        /\ k \in IssuedTokens(t)'
    BY <1>2, <2>2, IssuedGrow DEF GoesOn
  <2>4. ASSUME worker'[w].pc \in Working
        PROVE  Unrecorded(t, k)'
    <3>1. journal' = journal /\ worker[w].pc \in Working
      BY <1>0, <1>2, <2>4 DEF JournalMoves, GoesOn
    <3> QED BY <2>1, <2>2, <3>1 DEF WorkerSound, Unrecorded, Records
  <2>5. worker'[w].pc = "executed" => Ran(Request(w))'
    BY <1>2 DEF GoesOn
  <2> QED BY <2>3, <2>4, <2>5 DEF WorkerSound, At
<1> QED BY <1>1, <1>2 DEF StepOf, WorkerMoves

LEMMA LeaseOfOther ==
  ASSUME HInv, NEW w \in Workers, StepOf(w), NEW v \in Workers \ {w},
         ~At(v, "idle"), worker'[w].pc # "idle",
         worker'[w].task = worker[v].task
  PROVE  worker'[w].token # worker[v].token
<1>1. /\ worker[v].task \in Tasks
      /\ worker[v].token \in 1..tasks[worker[v].task].attempt_count
  BY DEF HInv, WorkersSound, WorkerSound, IssuedTokens
<1>2. CASE TakesLease(w)
  <2>1. worker'[w].token = tasks[worker[v].task].attempt_count + 1
    BY <1>2 DEF TakesLease
  <2>2. tasks[worker[v].task].attempt_count \in Nat
    BY <1>1 DEF HInv, HTypeOK, TypeOK, Row
  <2> QED BY <1>1, <2>1, <2>2
<1>3. CASE GoesOn(w)
  BY <1>3 DEF GoesOn, HInv, LeasesApart
<1> QED BY <1>2, <1>3 DEF StepOf, WorkerMoves

LEMMA WorkersStaySound ==
  ASSUME HInv, QueueStep, NEW w \in Workers, StepOf(w)
  PROVE  WorkersSound' /\ LeasesApart'
<1>1. \A v \in Workers \ {w} : worker'[v] = worker[v]
  BY DEF StepOf, OthersKept
<1>2. WorkersSound'
  <2> SUFFICES ASSUME NEW v \in Workers, worker'[v].pc # "idle"
               PROVE  WorkerSound(v)'
    BY DEF WorkersSound, At
  <2>1. CASE v = w
    BY <2>1, MoverStaysSound
  <2>2. CASE v # w
    BY <1>1, <2>2, OthersStaySound DEF At
  <2> QED BY <2>1, <2>2
<1>3. LeasesApart'
  <2> SUFFICES ASSUME NEW u \in Workers, NEW v \in Workers, u # v,
                      worker'[u].pc # "idle", worker'[v].pc # "idle",
                      worker'[u].task = worker'[v].task
               PROVE  worker'[u].token # worker'[v].token
    BY DEF LeasesApart, At
  <2>1. CASE u = w
    BY <1>1, <2>1, LeaseOfOther DEF At
  <2>2. CASE v = w
    BY <1>1, <2>2, LeaseOfOther DEF At
  <2>3. CASE u # w /\ v # w
    BY <1>1, <2>3 DEF HInv, LeasesApart, At
  <2> QED BY <2>1, <2>2, <2>3
<1> QED BY <1>2, <1>3

LEMMA RunsStayApart ==
  ASSUME HInv, QueueStep, NEW w \in Workers, StepOf(w)
  PROVE  OneRunPerLease'
<1>0. HTypeOK /\ JournalMoves(w)
  BY DEF HInv, StepOf
<1> SUFFICES ASSUME NEW t \in Tasks
             PROVE  /\ \A i, j \in Records(t)' : journal'[i].token = journal'[j].token => i = j
                    /\ \A i \in Records(t)' : journal'[i].token \in IssuedTokens(t)'
  BY DEF OneRunPerLease
<1> DEFINE Old(i) == i \in Records(t) /\ journal'[i] = journal[i]
           New(i) == /\ At(w, "writing")
                     /\ i = Len(journal) + 1
                     /\ worker[w].task = t
                     /\ journal'[i].token = worker[w].token
<1>1. \A i \in Records(t)' : Old(i) \/ New(i)
  BY <1>0, RecordsMove
<1>2. ASSUME At(w, "writing"), worker[w].task = t
      PROVE  /\ worker[w].token \in IssuedTokens(t)
             /\ \A i \in Records(t) : journal[i].token # worker[w].token
  BY <1>2 DEF HInv, WorkersSound, WorkerSound, Unrecorded, Working, At
<1>3. ASSUME NEW i \in Records(t)', NEW j \in Records(t)',
             journal'[i].token = journal'[j].token
      PROVE  i = j
  <2>1. CASE Old(i) /\ Old(j)
    BY <1>3, <2>1 DEF HInv, OneRunPerLease
  <2>2. CASE Old(i) /\ New(j)
    BY <1>2, <1>3, <2>2
  <2>3. CASE New(i) /\ Old(j)
    BY <1>2, <1>3, <2>3
  <2>4. CASE New(i) /\ New(j)
    BY <2>4
  <2> QED BY <1>1, <2>1, <2>2, <2>3, <2>4
<1>4. ASSUME NEW i \in Records(t)'
      PROVE  journal'[i].token \in IssuedTokens(t)'
  <2>1. PICK k : k = journal'[i].token
    OBVIOUS
  <2>2. CASE Old(i)
    BY <2>1, <2>2, IssuedGrow DEF HInv, OneRunPerLease
  <2>3. CASE New(i)
    BY <1>2, <2>1, <2>3, IssuedGrow
  <2> QED BY <1>1, <2>2, <2>3
<1> QED BY <1>3, <1>4

LEMMA EvidenceStays ==
  ASSUME HInv, QueueStep, Elsewhere \/ \E w \in Workers : StepOf(w)
  PROVE  ReplaysRan' /\ AckedWasExecuted'
<1>0. JournalGrows
  BY StepGrowsJournal DEF HInv
<1>1. ASSUME NEW t \in Tasks, tasks'[t].state = "ACKED"
      PROVE  Ran(RequestOf[t])'
  <2>1. Ran(RequestOf[t])
    BY <1>1 DEF QueueStep, AcksRan, HInv, AckedWasExecuted, Ran
  <2> QED BY <1>0, <2>1, RanStays
<1>2. ASSUME NEW w \in Workers, NEW r \in replay'[w]
      PROVE  Ran(r)'
  <2>1. r \in replay[w] => Ran(r)'
    BY <1>0, RanStays DEF HInv, ReplaysRan
  <2>2. CASE Elsewhere
    BY <1>2, <2>1, <2>2 DEF Elsewhere
  <2>3. ASSUME NEW v \in Workers, StepOf(v)
        PROVE  Ran(r)'
    <3>1. CASE v = w
      BY <1>2, <2>1, <2>3, <3>1 DEF StepOf, ReplayMoves
    <3>2. CASE v # w
      BY <1>2, <2>1, <2>3, <3>2 DEF StepOf, OthersKept
    <3> QED BY <3>1, <3>2
  <2> QED BY <2>2, <2>3
<1> QED BY <1>1, <1>2 DEF ReplaysRan, AckedWasExecuted, Ran

\* Without a worker's step only the queue moves, and leases are only added.
LEMMA ElsewhereKeeps ==
  ASSUME HInv, QueueStep, Elsewhere
  PROVE  WorkersSound' /\ LeasesApart' /\ OneRunPerLease'
<1>1. ASSUME NEW w \in Workers, ~At(w, "idle")
      PROVE  WorkerSound(w)'
  <2>1. WorkerSound(w)
    BY <1>1 DEF HInv, WorkersSound
  <2>2. PICK t \in Tasks : t = worker[w].task
    BY <2>1 DEF WorkerSound
  <2>3. PICK k \in IssuedTokens(t) : t = worker[w].task /\ k = worker[w].token
    BY <2>1, <2>2 DEF WorkerSound
  <2>4. k \in IssuedTokens(t)'
    BY IssuedGrow
  <2> QED BY <2>1, <2>3, <2>4
          DEF Elsewhere, WorkerSound, Unrecorded, Records, Ran, Request, At
<1>2. WorkersSound' /\ LeasesApart'
  BY <1>1 DEF Elsewhere, HInv, WorkersSound, LeasesApart, At
<1>3. ASSUME NEW t \in Tasks
      PROVE  /\ \A i, j \in Records(t) : journal[i].token = journal[j].token => i = j
             /\ \A i \in Records(t) : journal[i].token \in IssuedTokens(t)'
  BY IssuedGrow DEF HInv, OneRunPerLease
<1> QED BY <1>2, <1>3 DEF Elsewhere, OneRunPerLease, Records

LEMMA HTypesStay ==
  ASSUME HInv, QueueStep, Elsewhere \/ \E w \in Workers : StepOf(w), WorkersSound'
  PROVE  HTypeOK'
<1>1. TypeOK'
  BY TypeInductive DEF HInv, HTypeOK, QueueStep
<1>2. journal' \in Seq(Line)
  BY StepGrowsJournal DEF HInv
<1>3. HTypes
  BY DEF HInv, HTypeOK, Elsewhere, StepOf, HTypes
<1>4. \A w \in Workers : ~At(w, "idle")' => worker'[w].task \in Tasks
  BY DEF WorkersSound, WorkerSound
<1> QED BY <1>1, <1>2, <1>3, <1>4 DEF HTypes, HTypeOK

LEMMA HInvInductive == HInv /\ [HNext]_hvars => HInv'
<1> SUFFICES ASSUME HInv, [HNext]_hvars
             PROVE  HInv'
  OBVIOUS
<1>1. QueueStep /\ (Elsewhere \/ \E w \in Workers : StepOf(w))
  BY StepsOfSystem
<1>2. RowsSound'
  BY <1>1, RowsSoundInductive DEF HInv, HTypeOK, QueueStep
<1>3. WorkersSound' /\ LeasesApart' /\ OneRunPerLease'
  BY <1>1, ElsewhereKeeps, WorkersStaySound, RunsStayApart
<1>4. ReplaysRan' /\ AckedWasExecuted'
  BY <1>1, EvidenceStays
<1>5. HTypeOK'
  BY <1>1, <1>3, HTypesStay
<1> QED BY <1>2, <1>3, <1>4, <1>5 DEF HInv

LEMMA HInvInitially == HInit => HInv
<1> SUFFICES ASSUME HInit
             PROVE  HInv
  OBVIOUS
<1>1. TypeOK
  BY DEF HInit, Init, TypeOK, NoRow, Row, States
<1>2. RowsSound
  BY BoundsAssumption DEF HInit, Init, NoRow, RowsSound, RowSound
<1>3. /\ worker = [w \in Workers |-> Idle] /\ Idle.pc = "idle" /\ Idle \in Worker
      /\ replay = [w \in Workers |-> {}]
  BY DEF HInit, Idle, Worker, Pcs
<1>4. journal = <<>>
  BY DEF HInit
<1>5. journal \in Seq(Line) /\ \A t \in Tasks : Records(t) = {}
  BY <1>4 DEF Records
<1>6. HTypeOK
  BY <1>1, <1>3, <1>5 DEF HTypeOK, At
<1>7. WorkersSound /\ LeasesApart /\ ReplaysRan
  BY <1>3 DEF WorkersSound, LeasesApart, ReplaysRan, At
<1>8. OneRunPerLease
  BY <1>5 DEF OneRunPerLease
<1>9. AckedWasExecuted
  BY DEF HInit, Init, NoRow, AckedWasExecuted
<1> QED BY <1>2, <1>6, <1>7, <1>8, <1>9 DEF HInv

LEMMA HInvAlways == HSpec => []HInv
BY HInvInitially, HInvInductive, PTL DEF HSpec

-----------------------------------------------------------------------------
(* Live leases *)

Live(t) == tasks[t].state = "LEASED" /\ tasks[t].lease_expires_at > now

\* A stamp never runs ahead of the clock, so no claim recovers a live lease.
LEMMA ClaimKeepsLive ==
  ASSUME TypeOK, NEW t \in Tasks, Live(t), NEW s \in Stamps,
         ClaimNothing(s) \/ \E u \in Tasks, d \in LeaseDurations : ClaimNext(u, s, d)
  PROVE  tasks'[t] = tasks[t]
<1>0. tasks[t] \in Row /\ s \in Nat /\ s <= now /\ now \in Nat
  BY StampType DEF TypeOK
<1>1. SweptRow(tasks[t], s) = tasks[t]
  BY <1>0 DEF SweptRow, ExpiredPending, LapsedLease, Live, Row
<1>2. CASE ClaimNothing(s)
  BY <1>1, <1>2 DEF ClaimNothing, Swept
<1>3. ASSUME NEW u \in Tasks, NEW d \in LeaseDurations, ClaimNext(u, s, d)
      PROVE  tasks'[t] = tasks[t]
  <2>1. SweptRow(tasks[u], s).state = "PENDING"
    BY <1>3 DEF ClaimNext, FirstInLine, Claimable, Swept
  <2>2. t # u
    BY <1>1, <2>1 DEF Live
  <2> QED BY <1>1, <1>3, <2>2 DEF ClaimNext, Swept
<1> QED BY <1>2, <1>3

\* What a worker settles is the lease of its own task and token.
LEMMA SettleEndsOwnLease ==
  ASSUME HInv, NEW w \in Workers, NEW s \in Stamps, Settle(w, s),
         NEW t \in Tasks, tasks'[t].lease_token # tasks[t].lease_token
  PROVE  /\ worker[w].pc \in {"executed", "failed", "refused"}
         /\ worker[w].task = t /\ worker[w].token = tasks[t].lease_token
         /\ tasks'[t].state = "ACKED" <=> At(w, "executed")
         /\ worker'[w] = Idle
<1>0. TypeOK /\ worker \in [Workers -> Worker] /\ ~At(w, "idle")
  BY DEF HInv, HTypeOK, Settle, At
<1>1. /\ worker[w].pc \in {"executed", "failed", "refused"}
      /\ worker'[w] = Idle
  BY <1>0 DEF Settle
<1> DEFINE u == worker[w].task
           k == worker[w].token
           pc == worker[w].pc
<1>2. u \in Tasks /\ SettleQueue(pc, u, k, s)
  BY <1>0 DEF HInv, WorkersSound, WorkerSound, Settle
<1> HIDE DEF u, k, pc
<1>3. ASSUME NEW st \in States, HoldsLease(u, k, s),
             tasks' = [tasks EXCEPT ![u] = Released(@, st)]
      PROVE  t = u /\ k = tasks[t].lease_token /\ tasks'[t].state = st
  <2>1. t = u
    BY <1>0, <1>3 DEF TypeOK
  <2>2. tasks[u] \in Row
    BY <1>0, <1>2 DEF TypeOK
  <2> QED BY <1>0, <1>2, <1>3, <2>1, <2>2, ReleasedType DEF HoldsLease, TypeOK
<1>4. CASE pc = "executed" /\ Ack(u, k, s)
  <2>1. "ACKED" \in States
    BY DEF States, Settled
  <2>2. t = u /\ k = tasks[t].lease_token /\ tasks'[t].state = "ACKED"
    BY <1>3, <1>4, <2>1 DEF Ack
  <2> QED BY <1>1, <1>4, <2>2 DEF u, k, pc, At
<1>5. ASSUME NEW p \in BOOLEAN, Nack(u, k, s, p), pc # "executed"
      PROVE  t = u /\ k = tasks[t].lease_token /\ tasks'[t].state # "ACKED"
  <2> DEFINE st == NackedState(tasks[u], s, p)
  <2>1. st \in States /\ st # "ACKED"
    BY DEF NackedState, States, Settled
  <2>2. HoldsLease(u, k, s) /\ tasks' = [tasks EXCEPT ![u] = Released(@, st)]
    BY <1>5 DEF Nack
  <2> HIDE DEF st
  <2> QED BY <1>3, <2>1, <2>2
<1>6. CASE (pc = "failed" /\ Nack(u, k, s, FALSE)) \/ (pc = "refused" /\ Nack(u, k, s, TRUE))
  <2>1. t = u /\ k = tasks[t].lease_token /\ tasks'[t].state # "ACKED"
    BY <1>5, <1>6
  <2> QED BY <1>1, <1>6, <2>1 DEF u, k, pc, At
<1>7. CASE UNCHANGED vars
  BY <1>7 DEF vars
<1> QED BY <1>2, <1>4, <1>6, <1>7 DEF SettleQueue

LEMMA LiveLeasesMove ==
  ASSUME HInv, [HNext]_hvars, NEW t \in Tasks, Live(t),
         tasks'[t].lease_token # tasks[t].lease_token
  PROVE  \E w \in Workers, s \in Stamps : Settle(w, s)
<1>0. TypeOK
  BY DEF HInv, HTypeOK
<1>1. tasks' # tasks
  OBVIOUS
<1>2. ~HSubmit
  <2>1. ASSUME NEW u \in Tasks, NEW s \in Stamps,
               NEW e \in (s + 1)..(s + MaxTtl), Submit(u, s, e)
        PROVE  tasks'[t] = tasks[t]
    BY <1>0, <2>1 DEF Submit, TypeOK, Live
  <2> QED BY <2>1 DEF HSubmit
<1>3. ASSUME NEW w \in Workers PROVE ~Poller(w)
  BY <1>0, ClaimKeepsLive DEF Poller, Claim, ClaimFor
<1>4. ASSUME NEW w \in Workers, Execute(w) \/ Crash(w)
      PROVE  \E s \in Stamps : Settle(w, s)
  BY <1>1, <1>4 DEF Execute, Crash, LoadGrant, Deny, Replay, Verify, AppendCheck,
       AppendWrite, AppendFail, Abandon, vars
<1>5. ~HTick /\ ~UNCHANGED hvars
  BY <1>1 DEF HTick, Tick, hvars, vars
<1> QED BY <1>2, <1>3, <1>4, <1>5 DEF HNext

-----------------------------------------------------------------------------
(* Theorems *)

\* The workers' positions, memories and the journal keep their declared types,
\* and a worker that is not idle works on a task of the queue.
THEOREM HandoffTypesHold == HSpec => []HTypeOK
<1>1. HInv => HTypeOK
  BY DEF HInv
<1> QED BY <1>1, HInvAlways, PTL

\* run_once uses the queue as the queue allows, whatever its workers do: every
\* theorem about SecureTaskIngress holds of the whole system too.
THEOREM WorkersUseTheQueue == HSpec => Spec
<1>1. HInit => Init
  BY DEF HInit
<1>2. HInv /\ [HNext]_hvars => [Next]_vars
  BY StepsOfSystem DEF QueueStep
<1> QED BY <1>1, <1>2, HInvAlways, PTL DEF HSpec, Spec

\* Nothing is acknowledged whose request never ran, although workers answer
\* from their replay records, lose their leases and crash.
THEOREM AcksHaveRun == HSpec => []AckedWasExecuted
<1>1. HInv => AckedWasExecuted
  BY DEF HInv
<1> QED BY <1>1, HInvAlways, PTL

\* A task runs at most once under each of its leases, stale workers and crashed
\* ones included: max_attempts bounds its executions.
THEOREM LeasesRunOnce == HSpec => []OneRunPerLease
<1>1. HInv => OneRunPerLease
  BY DEF HInv
<1> QED BY <1>1, HInvAlways, PTL

\* A live lease ends only by the step in which the worker it was granted to
\* reports its own outcome: late workers, sweeps and crashes leave it alone.
THEOREM LiveLeasesAreKept == HSpec => LiveLeaseKept
<1>1. HInv /\ [HNext]_hvars => LiveLeaseEndsByHolder
  <2> SUFFICES ASSUME HInv, [HNext]_hvars, NEW t \in Tasks, Live(t),
                      tasks'[t].lease_token # tasks[t].lease_token
               PROVE  \E w \in Workers :
                        /\ worker[w].pc \in {"executed", "failed", "refused"}
                        /\ worker[w].task = t /\ worker[w].token = tasks[t].lease_token
                        /\ tasks'[t].state = "ACKED" <=> At(w, "executed")
                        /\ worker'[w] = Idle
    BY DEF LiveLeaseEndsByHolder, Live
  <2> QED BY LiveLeasesMove, SettleEndsOwnLease
<1> QED BY <1>1, HInvAlways, PTL DEF HSpec, LiveLeaseKept

\* The delivery promise of the queue survives its workers.
THEOREM HandoffDelivers == HSpec => DeliversAsPromised
BY WorkersUseTheQueue, QueueDelivers

=============================================================================
