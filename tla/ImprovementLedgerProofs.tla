---------------------- MODULE ImprovementLedgerProofs ----------------------
(***************************************************************************)
(* Theorems about ImprovementLedger, for any processes, events and budget. *)
(*                                                                         *)
(* The file is "good" while its lines are sound and legal, and it never    *)
(* becomes good again.  In a good file the line that moved a task out of   *)
(* QUEUED was written by one process, the owner of the run, and only the   *)
(* owner writes attempts; likewise the line that created a task has one    *)
(* writer.  What a process has read back is then what it wrote.  Most      *)
(* steps move one process without giving it a role it did not have         *)
(* (Eases); the four that do are proved one by one.                        *)
(***************************************************************************)
EXTENDS ImprovementLedger, TLAPS

Good == ledger.sound /\ ledger.legal

-----------------------------------------------------------------------------
(* The roles of a process m *)

\* Where a run goes on after an append.
Running == {"attempt", "execute", "excepted", "remediate", "validate", "failed",
            "score", "certify", "hold", "candidate", "prepare"}

Writes(m, kind) == m.pc \in Appending /\ m.rec.kind = kind
Wrote(m, kind) == m.pc \in {"seal", "confirm"} /\ m.rec.kind = kind

Moves(m, state) == Writes(m, "TASK_STATE") /\ m.rec.state = state
Moved(m, state) == Wrote(m, "TASK_STATE") /\ m.rec.state = state

\* It is in a run and has moved the task out of QUEUED.
Owner(m) ==
  \/ m.pc \in Running
  \/ m.pc \in Appending /\ m.then \in Running /\ ~(Moves(m, "ACTIVE") /\ ~Moved(m, "ACTIVE"))
  \/ Moves(m, "PREPARE_PR")

\* Its attempt is on record and not yet with the executor.
Pending(m) == Wrote(m, "ATTEMPT_STARTED")

\* It judges the attempt it ran.
Judging(m) ==
  \/ m.pc \in {"execute", "validate", "score", "certify"}
  \/ m.pc \in Appending /\ m.then \in {"validate", "score", "certify"}

\* It has had the attempt certified.
Cleared(m) ==
  \/ m.pc \in {"candidate", "prepare"}
  \/ m.pc \in Appending /\ m.then \in {"candidate", "prepare"}
  \/ Moves(m, "PREPARE_PR")

\* It has created the task, before and after reading it back.
Founder(m) == Wrote(m, "TASK_CREATED") /\ m.then = "accept"
Accepter(m) == m.pc \in {"accept", "answer"} \/ (m.pc \in Appending /\ m.then = "answer")

\* Which lines go with which continuation.
WellFormed(m) ==
  m.pc \in Appending =>
    /\ m.rec.kind = "ATTEMPT_STARTED" <=> m.then = "execute"
    /\ m.then = "accept" => m.rec.kind = "TASK_CREATED"
    /\ m.then = "answer" => m.rec.kind = "NOTE"
    /\ Moves(m, "ACTIVE") => m.then = "attempt"
    /\ Moves(m, "PREPARE_PR") => m.then = "idle"
    /\ m.rec.kind = "TASK_CREATED" => m.then \in {"accept", "idle"}

-----------------------------------------------------------------------------
(* The inductive invariant *)

OwnersSound(e) ==
  Good => \A w \in Workers : Owner(worker[w]) /\ worker[w].task = e =>
    /\ board[e].state \notin {"none", "QUEUED"}
    /\ board[e].state = "PREPARE_PR" => Moved(worker[w], "PREPARE_PR")
    /\ board[e].attempts = IF Pending(worker[w]) THEN ghost[e].ran + 1 ELSE ghost[e].ran
    /\ Judging(worker[w]) => worker[w].tries = board[e].attempts
    /\ Cleared(worker[w]) => ghost[e].certified = board[e].attempts

OneOwner ==
  Good => \A v, w \in Workers :
    Owner(worker[v]) /\ Owner(worker[w]) /\ worker[v].task = worker[w].task => v = w

Untouched(e) ==
  Good /\ board[e].state \in {"none", "QUEUED"} => board[e].attempts = 0 /\ ghost[e].ran = 0

FoundersSound(e) ==
  Good => \A w \in Workers : Founder(worker[w]) /\ worker[w].task = e =>
    /\ board[e].state # "none"
    /\ ghost[e].accepted = 0
    /\ \A v \in Workers : v # w /\ worker[v].task = e =>
         ~Founder(worker[v]) /\ ~Accepter(worker[v])

AcceptersSound(e) ==
  \A w \in Workers : Accepter(worker[w]) /\ worker[w].task = e =>
    /\ board[e].state # "none"
    /\ ghost[e].accepted = 0
    /\ \A v \in Workers : v # w /\ worker[v].task = e => ~Accepter(worker[v])

Unanswered(e) == board[e].state = "none" => ghost[e].accepted = 0

IInv ==
  /\ TypeOK
  /\ \A w \in Workers : WellFormed(worker[w])
  /\ \A e \in Events : /\ OwnersSound(e) /\ Untouched(e)
                       /\ FoundersSound(e) /\ AcceptersSound(e) /\ Unanswered(e)
  /\ OneOwner
  /\ AttemptsRunOnce
  /\ PreparedWasCertified
  /\ AcceptedOnce

-----------------------------------------------------------------------------
(* What the transition table says *)

LEMMA TransitionsFacts ==
  ASSUME NEW s \in BoardStates
  PROVE  /\ Transitions[s] \subseteq BoardStates \ {"none", "QUEUED"}
         /\ "ACTIVE" \in Transitions[s] => s = "QUEUED"
         /\ "PREPARE_PR" \in Transitions[s] => s = "CERTIFIED"
         /\ s \in Terminal => Transitions[s] = {}
  BY DEF Transitions, BoardStates, Terminal

-----------------------------------------------------------------------------
(* Type correctness *)

LEMMA InitTypes == Init => TypeOK
  BY VerdictAssumption, BudgetAssumption, MaxStopsAssumption
  DEF Init, TypeOK, Task, NoTask, BoardStates, Worker, Record, Note, Line, Absent

Pcs == {"closed", "touch", "new", "idle"} \cup Appending \cup Deciding
Thens == {"idle"} \cup Deciding

LEMMA GotoTypes ==
  ASSUME worker \in [Workers -> Worker], NEW w \in Workers, NEW pc \in Pcs, Goto(w, pc)
  PROVE  worker' \in [Workers -> Worker]
  <1> DEFINE m == [worker[w] EXCEPT !.pc = pc]
  <1>1. m \in Worker
    BY DEF Worker, Pcs
  <1> QED
    BY <1>1 DEF Goto

LEMMA RaiseTypes ==
  ASSUME worker \in [Workers -> Worker], NEW w \in Workers, Raise(w)
  PROVE  worker' \in [Workers -> Worker]
  BY GotoTypes DEF Raise, Pcs

LEMMA WriteTypes ==
  ASSUME worker \in [Workers -> Worker], NEW w \in Workers, NEW e \in Events,
         NEW rec \in Record, NEW then \in Thens,
         OnBoard(w, e, rec, then) \/ Bare(w, e, rec, then)
  PROVE  worker' \in [Workers -> Worker]
  <1> DEFINE m(pc) == [worker[w] EXCEPT !.pc = pc, !.task = e, !.rec = rec, !.then = then]
  <1>1. m("check") \in Worker /\ m("append") \in Worker
    BY DEF Worker, Thens, Appending
  <1>2. CASE OnBoard(w, e, rec, then)
    <2>1. worker' = [worker EXCEPT ![w] = m("check")]
      BY <1>2 DEF OnBoard
    <2> QED
      BY <1>1, <2>1
  <1>3. CASE Bare(w, e, rec, then)
    <2>1. worker' = [worker EXCEPT ![w] = m("append")]
      BY <1>3 DEF Bare
    <2> QED
      BY <1>1, <2>1
  <1> QED
    BY <1>2, <1>3

LEMMA LineTypes ==
  /\ \A state \in BoardStates : Line("TASK_STATE", state, 0) \in Record
  /\ Note \in Record
  /\ \A kind \in {"TASK_CREATED", "ATTEMPT_STARTED", "EVENT_REJECTED"} :
       Line(kind, "none", 0) \in Record
  BY BudgetAssumption DEF Line, Note, Record, BoardStates

LEMMA MoveTypes ==
  ASSUME worker \in [Workers -> Worker], NEW w \in Workers, NEW then \in Thens,
         \/ \E state \in BoardStates : Move(w, state, then)
         \/ Remark(w, then)
  PROVE  worker' \in [Workers -> Worker]
  <1>1. worker[w].task \in Events
    BY DEF Worker
  <1> QED
    BY <1>1, LineTypes, WriteTypes DEF Move, Remark

LEMMA RetryTypes ==
  ASSUME worker \in [Workers -> Worker], NEW w \in Workers, RetryOrReject(w)
  PROVE  worker' \in [Workers -> Worker]
  BY MoveTypes DEF RetryOrReject, BoardStates, Terminal, Thens, Deciding

LEMMA AppendTypes ==
  ASSUME TypeOK, NEW w \in Workers,
         Check(w) \/ AppendRead(w) \/ AppendLine(w) \/ Seal(w) \/ Confirm(w)
  PROVE  TypeOK'
  <1> DEFINE m == worker[w]
  <1>0. /\ worker \in [Workers -> Worker] /\ m \in Worker
        /\ m.task \in Events /\ m.rec \in Record /\ m.then \in Thens /\ m.then \in Pcs
        /\ m.seq \in Nat /\ board[m.task] \in Task
    BY DEF TypeOK, Worker, Thens, Pcs
  <1>1. CASE Check(w)
    <2>1. CASE Raise(w)
      BY <1>0, <1>1, <2>1, RaiseTypes DEF TypeOK, Check
    <2>2. CASE ~Raise(w)
      <3> DEFINE k == board[m.task]
                 rec == IF m.rec.kind = "ATTEMPT_STARTED"
                          THEN [m.rec EXCEPT !.attempt = k.attempts + 1] ELSE m.rec
                 v == [m EXCEPT !.pc = "append", !.rec = rec]
      <3>1. worker' = [worker EXCEPT ![w] = v] /\ Allowed(k, m.rec)
        BY <1>1, <2>2 DEF Check
      <3>2. m.rec.kind = "ATTEMPT_STARTED" => k.attempts + 1 \in 0..(Budget + 1)
        BY <1>0, <3>1, BudgetAssumption DEF Allowed, Task, Record
      <3>3. rec \in Record
        BY <1>0, <3>2 DEF Record
      <3>4. v \in Worker
        BY <1>0, <3>3 DEF Worker, Appending
      <3> QED
        BY <1>0, <1>1, <3>1, <3>4 DEF TypeOK, Check
    <2> QED
      BY <2>1, <2>2
  <1>2. CASE AppendRead(w)
    <2>1. CASE Raise(w)
      BY <1>0, <1>2, <2>1, RaiseTypes DEF TypeOK, AppendRead
    <2>2. CASE ~Raise(w)
      <3> DEFINE v == [m EXCEPT !.pc = "line", !.seq = ledger.length + 1]
      <3>1. worker' = [worker EXCEPT ![w] = v] /\ Readable
        BY <1>2, <2>2 DEF AppendRead
      <3>2. ledger.length + 1 \in Nat
        BY <3>1 DEF Readable, TypeOK, Absent
      <3>3. v \in Worker
        BY <1>0, <3>2 DEF Worker, Appending
      <3> QED
        BY <1>0, <1>2, <3>1, <3>3 DEF TypeOK, AppendRead
    <2> QED
      BY <2>1, <2>2
  <1>3. CASE AppendLine(w)
    <2> DEFINE e == m.task
               rec == m.rec
    <2>1. Folds(board[e], rec) => Folded(board[e], rec) \in Task
      <3>1. ASSUME rec.kind = "TASK_STATE", rec.state \in Transitions[board[e].state]
            PROVE  [board[e] EXCEPT !.state = rec.state] \in Task
        BY <1>0, <3>1 DEF Task, Record
      <3>2. [board[e] EXCEPT !.state = "QUEUED"] \in Task
        BY <1>0 DEF Task, BoardStates
      <3>3. [board[e] EXCEPT !.attempts = rec.attempt] \in Task
        BY <1>0 DEF Task, Record
      <3> QED
        BY <1>0, <3>1, <3>2, <3>3 DEF Folds, Folded
    <2>2. board' \in [Events -> Task]
      BY <1>0, <1>3, <2>1 DEF TypeOK, AppendLine
    <2>3. ledger' \in [length : Nat \cup {Absent}, head : Nat \cup {Absent},
                      sound : BOOLEAN, legal : BOOLEAN]
      <3>1. (ledger.sound /\ m.seq = ledger.length + 1) \in BOOLEAN
        OBVIOUS
      <3>2. (ledger.legal /\ Folds(board[e], rec)) \in BOOLEAN
        OBVIOUS
      <3>3. ledger.length + 1 \in Nat
        BY DEF TypeOK, Absent
      <3>4. ledger' = [ledger EXCEPT !.length = ledger.length + 1,
                         !.sound = (ledger.sound /\ m.seq = ledger.length + 1),
                         !.legal = (ledger.legal /\ Folds(board[e], rec))]
        BY <1>3 DEF AppendLine
      <3> QED
        BY <3>1, <3>2, <3>3, <3>4 DEF TypeOK
    <2>4. worker' \in [Workers -> Worker]
      BY <1>0, <1>3, GotoTypes DEF AppendLine, Pcs, Appending
    <2>5. rejected' \subseteq Events
      BY <1>0, <1>3 DEF TypeOK, AppendLine
    <2> QED
      BY <1>3, <2>2, <2>3, <2>4, <2>5 DEF TypeOK, AppendLine
  <1>4. CASE Seal(w)
    <2>1. worker' \in [Workers -> Worker]
      BY <1>0, <1>4, GotoTypes DEF Seal, Pcs, Appending
    <2> QED
      BY <1>0, <1>4, <2>1 DEF TypeOK, Seal
  <1>5. CASE Confirm(w)
    <2>1. worker' \in [Workers -> Worker]
      <3>1. CASE Raise(w)
        BY <1>0, <3>1, RaiseTypes
      <3>2. CASE ~Raise(w)
        <4> DEFINE n == IF m.rec.kind = "ATTEMPT_STARTED" /\ Rebuilds
                          THEN board[m.task].attempts ELSE m.tries
                   v == [m EXCEPT !.pc = m.then, !.tries = n]
        <4>1. worker' = [worker EXCEPT ![w] = v]
          BY <1>5, <3>2 DEF Confirm
        <4>2. n \in 0..(Budget + 1)
          BY <1>0 DEF Task, Worker
        <4>3. v \in Worker
          BY <1>0, <4>2 DEF Worker, Pcs
        <4> QED
          BY <1>0, <4>1, <4>3
      <3> QED
        BY <3>1, <3>2
    <2>2. ghost' \in [Events -> [ran : Nat, certified : 0..(Budget + 1), accepted : Nat]]
      BY <1>0, <1>5 DEF TypeOK, Confirm
    <2> QED
      BY <1>5, <2>1, <2>2 DEF TypeOK, Confirm
  <1> QED
    BY <1>1, <1>2, <1>3, <1>4, <1>5

LEMMA OpenTypes ==
  ASSUME TypeOK, NEW w \in Workers,
         Open(w) \/ Touch(w) \/ SealNew(w) \/ Stop(w)
  PROVE  TypeOK'
  <1>1. worker' \in [Workers -> Worker]
    BY GotoTypes DEF TypeOK, Open, Touch, SealNew, Stop, Pcs
  <1>2. ledger' \in [length : Nat \cup {Absent}, head : Nat \cup {Absent},
                    sound : BOOLEAN, legal : BOOLEAN]
    <2>1. CASE Open(w)
      BY <2>1 DEF TypeOK, Open
    <2>2. CASE Touch(w)
      BY <2>2 DEF TypeOK, Touch
    <2>3. CASE SealNew(w)
      BY <2>3 DEF TypeOK, SealNew
    <2>4. CASE Stop(w)
      <3>1. ledger.length + 1 \in Nat
        BY DEF TypeOK, Absent
      <3>2. \/ ledger' = ledger
            \/ ledger' = [ledger EXCEPT !.length = ledger.length + 1, !.sound = FALSE]
        BY <2>4 DEF Stop
      <3> QED
        BY <3>1, <3>2 DEF TypeOK
    <2> QED
      BY <2>1, <2>2, <2>3, <2>4
  <1> QED
    BY <1>1, <1>2, MaxStopsAssumption DEF TypeOK, Open, Touch, SealNew, Stop

LEMMA CallTypes ==
  ASSUME TypeOK, NEW w \in Workers, NEW e \in Events,
         \/ Ingest(w, e) \/ Create(w, e) \/ Run(w, e)
         \/ \E state \in Terminal \ {"PREPARE_PR"} : Settle(w, e, state)
  PROVE  TypeOK'
  <1>1. /\ "accept" \in Thens /\ "idle" \in Thens /\ "attempt" \in Thens
        /\ {"ACTIVE", "HOLD", "ESCALATE"} \cup Terminal \subseteq BoardStates
    BY DEF Thens, Deciding, BoardStates, Terminal
  <1>2. Verdict[e] \in {"ACCEPT", "HOLD", "ESCALATE"}
    BY VerdictAssumption
  <1>3. worker \in [Workers -> Worker]
    BY DEF TypeOK
  <1>4. worker' \in [Workers -> Worker]
    <2>1. CASE Ingest(w, e) \/ Create(w, e)
      BY <1>1, <1>3, <2>1, LineTypes, WriteTypes DEF Ingest, Create
    <2>2. CASE Run(w, e)
      <3>1. Line("TASK_STATE", IF Verdict[e] = "ACCEPT" THEN "ACTIVE" ELSE Verdict[e], 0)
              \in Record
        BY <1>1, <1>2, LineTypes
      <3> QED
        BY <1>1, <1>3, <2>2, <3>1, WriteTypes DEF Run
    <2>3. CASE \E state \in Terminal \ {"PREPARE_PR"} : Settle(w, e, state)
      BY <1>1, <1>3, <2>3, LineTypes, WriteTypes DEF Settle
    <2> QED
      BY <2>1, <2>2, <2>3
  <1> QED
    BY <1>4 DEF TypeOK, Ingest, Create, Run, Settle, Decides

LEMMA DecisionTypes ==
  ASSUME TypeOK, NEW w \in Workers,
         \/ Accept(w) \/ Answer(w) \/ Attempt(w) \/ Execute(w) \/ Excepted(w) \/ Remediate(w)
         \/ Validate(w) \/ Failed(w) \/ Score(w) \/ Certify(w) \/ Hold(w) \/ Candidate(w)
         \/ Prepare(w)
  PROVE  TypeOK'
  <1>1. /\ Thens = {"idle"} \cup Deciding /\ Deciding \subseteq Pcs
        /\ {"VERIFYING", "REMEDIATING", "SCORED", "CERTIFIED"} \cup Terminal \subseteq BoardStates
    BY DEF Thens, Pcs, BoardStates
  <1>2. /\ worker \in [Workers -> Worker] /\ worker[w].task \in Events
        /\ worker[w].tries \in 0..(Budget + 1)
    BY DEF TypeOK, Worker
  <1>3. worker' \in [Workers -> Worker]
    <2> USE <1>1, <1>2, MoveTypes, RaiseTypes, GotoTypes, RetryTypes, LineTypes, WriteTypes
        DEF Deciding, Terminal
    <2>1. CASE Accept(w) \/ Answer(w)
      BY <2>1 DEF Accept, Answer, Pcs
    <2>2. CASE Attempt(w) \/ Execute(w)
      BY <2>2 DEF Attempt, Execute
    <2>3. CASE Excepted(w) \/ Remediate(w)
      BY <2>3 DEF Excepted, Remediate
    <2>4. CASE Validate(w) \/ Failed(w) \/ Score(w)
      BY <2>4 DEF Validate, Failed, Score
    <2>5. CASE Certify(w)
      BY <2>5 DEF Certify
    <2>6. CASE Hold(w) \/ Candidate(w) \/ Prepare(w)
      BY <2>6 DEF Hold, Candidate, Prepare
    <2> QED
      BY <2>1, <2>2, <2>3, <2>4, <2>5, <2>6
  <1>4. ghost' \in [Events -> [ran : Nat, certified : 0..(Budget + 1), accepted : Nat]]
    BY <1>2 DEF TypeOK, Accept, Answer, Attempt, Execute, Excepted, Remediate, Validate, Failed,
                Score, Certify, Hold, Candidate, Prepare
  <1> QED
    BY <1>3, <1>4 DEF TypeOK, Decides, Accept, Answer, Attempt, Execute, Excepted, Remediate,
                      Validate, Failed, Score, Certify, Hold, Candidate, Prepare

LEMMA StepTypes == TypeOK /\ [Next]_vars => TypeOK'
  <1> SUFFICES ASSUME TypeOK, [Next]_vars
               PROVE  TypeOK'
    OBVIOUS
  <1>1. CASE UNCHANGED vars
    BY <1>1 DEF vars, TypeOK
  <1>2. ASSUME NEW w \in Workers, Open(w) \/ Proceed(w) \/ Stop(w)
        PROVE  TypeOK'
    BY <1>2, AppendTypes, OpenTypes, DecisionTypes DEF Proceed
  <1> QED
    BY <1>1, <1>2, CallTypes DEF Next

\* The files, the board, the processes and the attempts within the budget keep
\* their types (caie_p1.py, PersistentRunLedger, TaskBoard and run).
THEOREM LedgerTypesHold == Spec => []TypeOK
  BY InitTypes, StepTypes, PTL DEF Spec

-----------------------------------------------------------------------------
(* Steps that give no process a new role *)

\* A process that was m and is now n has no role it did not have.
Eases(m, n) ==
  /\ Owner(n) => Owner(m) /\ n.task = m.task /\ (Pending(n) <=> Pending(m))
  /\ Owner(n) /\ Moved(m, "PREPARE_PR") => Moved(n, "PREPARE_PR")
  /\ Judging(n) => Judging(m) /\ n.tries = m.tries
  /\ Cleared(n) => Cleared(m)
  /\ Founder(n) => Founder(m) /\ n.task = m.task
  /\ Accepter(n) => Accepter(m) /\ n.task = m.task

Eased(w) ==
  /\ Good' => Good
  /\ board' = board /\ ghost' = ghost
  /\ \A v \in Workers : v # w => worker'[v] = worker[v]
  /\ WellFormed(worker'[w])
  /\ Eases(worker[w], worker'[w])

LEMMA EasedKeeps ==
  ASSUME IInv, TypeOK', NEW w \in Workers, Eased(w)
  PROVE  IInv'
  <1>1. \A v \in Workers : WellFormed(worker[v])'
    BY DEF IInv, Eased
  <1>2. \A v \in Workers : Eases(worker[v], worker'[v])
    <2>1. \A v \in Workers : Eases(worker[v], worker[v])
      BY DEF Eases
    <2> QED
      BY <2>1 DEF Eased
  <1>3. ASSUME NEW e \in Events
        PROVE  OwnersSound(e)' /\ Untouched(e)' /\ FoundersSound(e)' /\ AcceptersSound(e)' /\ Unanswered(e)'
    <2> USE DEF Eased, IInv
    <2>1. OwnersSound(e)'
      BY <1>2 DEF OwnersSound, Eases
    <2>2. Untouched(e)' /\ Unanswered(e)'
      BY DEF Untouched, Unanswered
    <2>3. FoundersSound(e)'
      BY <1>2 DEF FoundersSound, Eases
    <2>4. AcceptersSound(e)'
      BY <1>2 DEF AcceptersSound, Eases
    <2> QED
      BY <2>1, <2>2, <2>3, <2>4
  <1>4. OneOwner'
    BY <1>2 DEF IInv, Eased, OneOwner, Eases
  <1>5. AttemptsRunOnce' /\ PreparedWasCertified' /\ AcceptedOnce'
    BY DEF IInv, Eased, AttemptsRunOnce, PreparedWasCertified, AcceptedOnce
  <1> QED
    BY <1>1, <1>3, <1>4, <1>5 DEF IInv

OthersStay(w) == \A v \in Workers : v # w => worker'[v] = worker[v]

LEMMA GoneTo ==
  ASSUME worker \in [Workers -> Worker], NEW w \in Workers, NEW pc, Goto(w, pc)
  PROVE  /\ OthersStay(w) /\ worker'[w].pc = pc
         /\ worker'[w].task = worker[w].task /\ worker'[w].rec = worker[w].rec
         /\ worker'[w].then = worker[w].then /\ worker'[w].tries = worker[w].tries
  BY DEF Goto, OthersStay, Worker

LEMMA Written ==
  ASSUME worker \in [Workers -> Worker], NEW w \in Workers, NEW e, NEW rec, NEW then,
         OnBoard(w, e, rec, then) \/ Bare(w, e, rec, then)
  PROVE  /\ OthersStay(w) /\ worker'[w].pc \in {"check", "append"}
         /\ worker'[w].task = e /\ worker'[w].rec = rec
         /\ worker'[w].then = then /\ worker'[w].tries = worker[w].tries
  <1>1. CASE OnBoard(w, e, rec, then)
    BY <1>1 DEF OnBoard, OthersStay, Worker
  <1>2. CASE Bare(w, e, rec, then)
    BY <1>2 DEF Bare, OthersStay, Worker
  <1> QED
    BY <1>1, <1>2

\* The ways in which an action leaves its worker w.
LEMMA GotoEases ==
  ASSUME worker \in [Workers -> Worker], NEW w \in Workers, NEW pc, Goto(w, pc),
         \/ pc \in {"closed", "touch", "new", "idle"}
         \/ /\ worker[w].pc \in Running /\ pc \in Running \ {"candidate", "prepare"}
            /\ pc \in {"execute", "validate", "score", "certify"} => Judging(worker[w])
  PROVE  OthersStay(w) /\ WellFormed(worker'[w]) /\ Eases(worker[w], worker'[w])
  BY GoneTo DEF Eases, WellFormed, Owner, Pending, Judging, Cleared, Founder, Accepter, Moves,
     Moved, Writes, Wrote, Running, Appending

LEMMA NewCallEases ==
  ASSUME worker \in [Workers -> Worker], NEW w \in Workers, NEW e, NEW rec, NEW then,
         OnBoard(w, e, rec, then) \/ Bare(w, e, rec, then),
         rec.kind \in {"TASK_CREATED", "EVENT_REJECTED", "TASK_STATE"},
         then \in {"idle", "accept", "attempt"},
         then = "accept" => rec.kind = "TASK_CREATED",
         then = "attempt" <=> rec.kind = "TASK_STATE" /\ rec.state = "ACTIVE",
         rec.state # "PREPARE_PR"
  PROVE  OthersStay(w) /\ WellFormed(worker'[w]) /\ Eases(worker[w], worker'[w])
  BY Written DEF Eases, WellFormed, Owner, Pending, Judging, Cleared, Founder, Accepter, Moves,
     Moved, Writes, Wrote, Running, Appending

\* A run goes from one append to the next.
LEMMA RunEases ==
  ASSUME worker \in [Workers -> Worker], NEW w \in Workers, NEW rec, NEW then,
         \/ OnBoard(w, worker[w].task, rec, then)
         \/ Bare(w, worker[w].task, rec, then),
         worker[w].pc \in Running,
         rec.kind \in {"TASK_STATE", "ATTEMPT_STARTED", "NOTE"},
         then \in Running \cup {"idle"},
         rec.kind = "ATTEMPT_STARTED" <=> then = "execute",
         rec.kind = "TASK_STATE" => rec.state # "ACTIVE",
         then \in {"validate", "score", "certify"} => Judging(worker[w]),
         then \in {"candidate", "prepare"} => Cleared(worker[w]),
         rec.kind = "TASK_STATE" /\ rec.state = "PREPARE_PR" =>
           then = "idle" /\ Cleared(worker[w])
  PROVE  OthersStay(w) /\ WellFormed(worker'[w]) /\ Eases(worker[w], worker'[w])
  BY Written DEF Eases, WellFormed, Owner, Pending, Judging, Cleared, Founder, Accepter, Moves,
     Moved, Writes, Wrote, Running, Appending

LEMMA CallEases ==
  ASSUME IInv, NEW w \in Workers, NEW e \in Events,
         \/ Ingest(w, e) \/ Create(w, e) \/ Run(w, e)
         \/ \E state \in Terminal \ {"PREPARE_PR"} : Settle(w, e, state)
  PROVE  Eased(w)
  <1>1. worker \in [Workers -> Worker]
    BY DEF IInv, TypeOK
  <1>2. Verdict[e] \in {"ACCEPT", "HOLD", "ESCALATE"}
    BY VerdictAssumption
  <1>3. OthersStay(w) /\ WellFormed(worker'[w]) /\ Eases(worker[w], worker'[w])
    <2>1. CASE Ingest(w, e) \/ Create(w, e)
      BY <1>1, <2>1, NewCallEases DEF Ingest, Create, Line
    <2>2. CASE Run(w, e)
      BY <1>1, <1>2, <2>2, NewCallEases DEF Run, Line
    <2>3. CASE \E state \in Terminal \ {"PREPARE_PR"} : Settle(w, e, state)
      BY <1>1, <2>3, NewCallEases DEF Settle, Line, Terminal
    <2> QED
      BY <2>1, <2>2, <2>3
  <1>4. ledger' = ledger /\ board' = board /\ ghost' = ghost
    BY DEF Ingest, Create, Run, Settle, Decides
  <1> QED
    BY <1>3, <1>4 DEF Eased, OthersStay, Good

\* The certifier's approval is the one decision that is not eased.
Approve(w) ==
  /\ Decides(w, "certify")
  /\ Rebuilds /\ Move(w, "CERTIFIED", "candidate")
  /\ ghost' = [ghost EXCEPT ![worker[w].task].certified = worker[w].tries]

LEMMA DecisionEases ==
  ASSUME IInv, NEW w \in Workers,
         \/ Attempt(w) \/ Execute(w) \/ Excepted(w) \/ Remediate(w)
         \/ Validate(w) \/ Failed(w) \/ Score(w) \/ (Certify(w) /\ ~Approve(w))
         \/ Hold(w) \/ Candidate(w) \/ Prepare(w)
  PROVE  Eased(w)
  <1>1. worker \in [Workers -> Worker]
    BY DEF IInv, TypeOK
  <1>2. OthersStay(w) /\ WellFormed(worker'[w]) /\ Eases(worker[w], worker'[w])
    <2> USE <1>1, RunEases, GotoEases
        DEF Decides, Move, Remark, Raise, RetryOrReject, Line, Note, Running, Judging, Cleared
    <2>1. CASE Attempt(w) \/ Remediate(w) \/ Failed(w) \/ Hold(w) \/ Candidate(w) \/ Prepare(w)
      BY <2>1 DEF Attempt, Remediate, Failed, Hold, Candidate, Prepare
    <2>2. CASE Execute(w)
      BY <2>2 DEF Execute
    <2>3. CASE Excepted(w)
      BY <2>3 DEF Excepted
    <2>4. CASE Validate(w) \/ Score(w)
      BY <2>4 DEF Validate, Score
    <2>5. CASE Certify(w) /\ ~Approve(w)
      BY <2>5 DEF Certify, Approve
    <2> QED
      BY <2>1, <2>2, <2>3, <2>4, <2>5
  <1>3. ledger' = ledger /\ board' = board /\ ghost' = ghost
    BY DEF Decides, Attempt, Execute, Excepted, Remediate, Validate, Failed, Score, Certify,
           Approve, Hold, Candidate, Prepare
  <1> QED
    BY <1>2, <1>3 DEF Eased, OthersStay, Good

LEMMA OpenEases ==
  ASSUME IInv, NEW w \in Workers,
         Open(w) \/ Touch(w) \/ SealNew(w) \/ Stop(w)
  PROVE  Eased(w)
  <1>1. worker \in [Workers -> Worker]
    BY DEF IInv, TypeOK
  <1>2. OthersStay(w) /\ WellFormed(worker'[w]) /\ Eases(worker[w], worker'[w])
    BY <1>1, GotoEases DEF Open, Touch, SealNew, Stop
  <1>3. board' = board /\ ghost' = ghost
    BY DEF Open, Touch, SealNew, Stop
  <1>4. Good' => Good
    BY DEF IInv, TypeOK, Good, Open, Touch, SealNew, Stop
  <1> QED
    BY <1>2, <1>3, <1>4 DEF Eased, OthersStay

LEMMA AppendEases ==
  ASSUME IInv, NEW w \in Workers,
         Check(w) \/ AppendRead(w) \/ Seal(w) \/ Accept(w)
  PROVE  Eased(w)
  <1>1. worker \in [Workers -> Worker] /\ WellFormed(worker[w])
    BY DEF IInv, TypeOK
  <1>2. OthersStay(w) /\ WellFormed(worker'[w]) /\ Eases(worker[w], worker'[w])
    <2> DEFINE m == worker[w]
               n == worker'[w]
    <2>1. CASE Raise(w)
      BY <1>1, <2>1, GotoEases DEF Raise
    <2>2. CASE Check(w) /\ ~Raise(w)
      <3>1. /\ OthersStay(w) /\ m.pc = "check" /\ n.pc = "append" /\ n.task = m.task
            /\ n.then = m.then /\ n.tries = m.tries
            /\ n.rec = IF m.rec.kind = "ATTEMPT_STARTED"
                         THEN [m.rec EXCEPT !.attempt = board[m.task].attempts + 1] ELSE m.rec
        BY <1>1, <2>2 DEF Check, OthersStay, Worker
      <3>2. n.rec.kind = m.rec.kind /\ n.rec.state = m.rec.state
        BY <1>1, <3>1 DEF Worker, Record
      <3> QED
        BY <1>1, <3>1, <3>2
        DEF Eases, WellFormed, Owner, Pending, Judging, Cleared, Founder, Accepter, Moves,
            Moved, Writes, Wrote, Running, Appending
    <2>3. CASE AppendRead(w) /\ ~Raise(w)
      <3>1. /\ OthersStay(w) /\ m.pc = "append" /\ n.pc = "line" /\ n.task = m.task
            /\ n.then = m.then /\ n.tries = m.tries /\ n.rec = m.rec
        BY <1>1, <2>3 DEF AppendRead, OthersStay, Worker
      <3> QED
        BY <1>1, <3>1
        DEF Eases, WellFormed, Owner, Pending, Judging, Cleared, Founder, Accepter, Moves,
            Moved, Writes, Wrote, Running, Appending
    <2>4. CASE Seal(w)
      <3>1. /\ m.pc = "seal"
            /\ n.pc = IF m.rec.kind \in {"NOTE", "EVENT_REJECTED"} THEN m.then ELSE "confirm"
            /\ OthersStay(w) /\ n.task = m.task /\ n.rec = m.rec
            /\ n.then = m.then /\ n.tries = m.tries
        BY <1>1, <2>4, GoneTo DEF Seal
      <3>2. m.then \in {"idle"} \cup Deciding
        BY <1>1 DEF Worker
      <3> QED
        BY <1>1, <3>1, <3>2
        DEF Eases, WellFormed, Owner, Pending, Judging, Cleared, Founder, Accepter, Moves,
            Moved, Writes, Wrote, Running, Appending, Deciding
    <2>5. CASE Accept(w)
      <3>1. /\ m.pc = "accept" /\ n.pc \in {"check", "append"} /\ n.rec = Note
            /\ OthersStay(w) /\ n.task = m.task /\ n.then = "answer"
        BY <1>1, <2>5, Written DEF Accept, Remark
      <3> QED
        BY <3>1
        DEF Eases, WellFormed, Owner, Pending, Judging, Cleared, Founder, Accepter, Moves,
            Moved, Writes, Wrote, Running, Appending, Note, Line
    <2> QED
      BY <2>1, <2>2, <2>3, <2>4, <2>5
  <1>3. board' = board /\ ghost' = ghost
    BY DEF Check, AppendRead, Seal, Accept
  <1>4. Good' => Good
    BY DEF IInv, TypeOK, Good, Check, AppendRead, Seal, Accept
  <1> QED
    BY <1>2, <1>3, <1>4 DEF Eased, OthersStay

-----------------------------------------------------------------------------
(* Steps that give a role *)

LEMMA AnswerKeeps ==
  ASSUME IInv, TypeOK', NEW w \in Workers, Answer(w)
  PROVE  IInv'
  <1> DEFINE a == worker[w].task
  <1>1. /\ OthersStay(w) /\ worker[w].pc = "answer" /\ worker'[w].pc = "idle"
        /\ ledger' = ledger /\ board' = board /\ a \in Events
        /\ ghost' = [ghost EXCEPT ![a].accepted = @ + 1]
    BY GoneTo DEF IInv, TypeOK, Answer, Worker
  <1>2. /\ \A e \in Events : ghost'[e].ran = ghost[e].ran /\ ghost'[e].certified = ghost[e].certified
        /\ \A e \in Events : e # a => ghost'[e].accepted = ghost[e].accepted
        /\ ghost'[a].accepted = ghost[a].accepted + 1
    BY <1>1 DEF IInv, TypeOK
  <1>3. Accepter(worker[w]) /\ ghost[a].accepted = 0
    BY <1>1 DEF IInv, AcceptersSound, Accepter
  <1>4. /\ WellFormed(worker'[w]) /\ ~Owner(worker'[w]) /\ ~Founder(worker'[w])
        /\ ~Accepter(worker'[w])
    BY <1>1 DEF WellFormed, Owner, Founder, Accepter, Moves, Moved, Writes, Wrote, Running, Appending
  <1>5. ASSUME NEW e \in Events
        PROVE  OwnersSound(e)' /\ Untouched(e)' /\ FoundersSound(e)' /\ AcceptersSound(e)' /\ Unanswered(e)'
    <2> USE DEF IInv, OthersStay, Good
    <2>1. OwnersSound(e)' /\ Untouched(e)'
      BY <1>1, <1>2, <1>4 DEF OwnersSound, Untouched
    <2>2. FoundersSound(e)'
      BY <1>1, <1>2, <1>3, <1>4 DEF FoundersSound
    <2>3. AcceptersSound(e)'
      BY <1>1, <1>2, <1>3, <1>4 DEF AcceptersSound
    <2>4. Unanswered(e)'
      BY <1>1, <1>2, <1>3 DEF Unanswered, AcceptersSound
    <2> QED
      BY <2>1, <2>2, <2>3, <2>4
  <1>6. OneOwner' /\ \A v \in Workers : WellFormed(worker[v])'
    BY <1>1, <1>4 DEF IInv, OneOwner, OthersStay, Good
  <1>7. AttemptsRunOnce' /\ PreparedWasCertified' /\ AcceptedOnce'
    BY <1>1, <1>2, <1>3 DEF IInv, AttemptsRunOnce, PreparedWasCertified, AcceptedOnce
  <1> QED
    BY <1>5, <1>6, <1>7 DEF IInv

LEMMA ApproveKeeps ==
  ASSUME IInv, TypeOK', NEW w \in Workers, Approve(w)
  PROVE  IInv'
  <1> DEFINE a == worker[w].task
  <1>1. /\ OthersStay(w) /\ worker[w].pc = "certify" /\ worker'[w].pc \in {"check", "append"}
        /\ worker'[w].rec = Line("TASK_STATE", "CERTIFIED", 0) /\ worker'[w].then = "candidate"
        /\ worker'[w].task = a /\ a \in Events
        /\ ledger' = ledger /\ board' = board /\ Good
        /\ ghost' = [ghost EXCEPT ![a].certified = worker[w].tries]
    BY Written DEF IInv, TypeOK, Approve, Decides, Move, Worker, Rebuilds, Readable, Good
  <1>2. /\ \A e \in Events : ghost'[e].ran = ghost[e].ran /\ ghost'[e].accepted = ghost[e].accepted
        /\ \A e \in Events : e # a => ghost'[e].certified = ghost[e].certified
        /\ ghost'[a].certified = worker[w].tries
    BY <1>1 DEF IInv, TypeOK
  <1>3. /\ Owner(worker[w]) /\ Judging(worker[w]) /\ ~Pending(worker[w])
        /\ ~Moved(worker[w], "PREPARE_PR")
    BY <1>1 DEF Owner, Judging, Running, Pending, Moved, Wrote
  <1>4. /\ WellFormed(worker'[w]) /\ Owner(worker'[w]) /\ ~Pending(worker'[w])
        /\ ~Judging(worker'[w]) /\ ~Founder(worker'[w]) /\ ~Accepter(worker'[w])
    BY <1>1 DEF WellFormed, Owner, Pending, Judging, Founder, Accepter, Moves, Moved, Writes,
                Wrote, Running, Appending, Line
  <1>5. /\ board[a].state \notin {"none", "QUEUED", "PREPARE_PR"}
        /\ board[a].attempts = ghost[a].ran /\ worker[w].tries = board[a].attempts
    BY <1>1, <1>3 DEF IInv, OwnersSound
  <1>6. \A v \in Workers : v # w /\ worker[v].task = a => ~Owner(worker[v])
    BY <1>1, <1>3 DEF IInv, OneOwner
  <1>7. ASSUME NEW e \in Events
        PROVE  OwnersSound(e)' /\ Untouched(e)' /\ FoundersSound(e)' /\ AcceptersSound(e)' /\ Unanswered(e)'
    <2> USE DEF IInv, OthersStay, Good
    <2>1. OwnersSound(e)'
      BY <1>1, <1>2, <1>4, <1>5, <1>6 DEF OwnersSound
    <2>2. Untouched(e)' /\ Unanswered(e)'
      BY <1>1, <1>2 DEF Untouched, Unanswered
    <2>3. FoundersSound(e)'
      BY <1>1, <1>2, <1>4 DEF FoundersSound
    <2>4. AcceptersSound(e)'
      BY <1>1, <1>2, <1>4 DEF AcceptersSound
    <2> QED
      BY <2>1, <2>2, <2>3, <2>4
  <1>8. OneOwner' /\ \A v \in Workers : WellFormed(worker[v])'
    BY <1>1, <1>4, <1>6 DEF IInv, OneOwner, OthersStay, Good
  <1>9. AttemptsRunOnce' /\ PreparedWasCertified' /\ AcceptedOnce'
    BY <1>1, <1>2, <1>5 DEF IInv, AttemptsRunOnce, PreparedWasCertified, AcceptedOnce
  <1> QED
    BY <1>7, <1>8, <1>9 DEF IInv

LEMMA ConfirmKeeps ==
  ASSUME IInv, TypeOK', NEW w \in Workers, Confirm(w)
  PROVE  IInv'
  <1> DEFINE m == worker[w]
             n == worker'[w]
             a == m.task
  <1>1. /\ m.pc = "confirm" /\ WellFormed(m) /\ a \in Events /\ worker \in [Workers -> Worker]
        /\ m.then \in {"idle"} \cup Deciding /\ board' = board /\ ledger' = ledger
    BY DEF IInv, TypeOK, Confirm, Worker
  <1>2. CASE ~Rebuilds
    <2>1. Raise(w) /\ ghost' = ghost
      BY <1>2 DEF Confirm
    <2>2. Eased(w)
      BY <1>1, <2>1, GotoEases DEF Raise, Eased, OthersStay, Good
    <2> QED
      BY <2>2, EasedKeeps
  <1>3. CASE Rebuilds
    <2>1. /\ OthersStay(w) /\ n.pc = m.then /\ n.task = a /\ n.rec = m.rec /\ n.then = m.then
          /\ n.tries = IF m.rec.kind = "ATTEMPT_STARTED" THEN board[a].attempts ELSE m.tries
      BY <1>1, <1>3 DEF Confirm, OthersStay, Worker
    <2>2. Good /\ Good'
      BY <1>1, <1>3 DEF Rebuilds, Readable, Good
    <2>3. /\ WellFormed(n) /\ ~Pending(n) /\ ~Founder(n)
          /\ Owner(n) => Owner(m) /\ ~Moved(m, "PREPARE_PR")
          /\ Cleared(n) => Cleared(m)
          /\ Judging(n) => Judging(m) \/ m.rec.kind = "ATTEMPT_STARTED"
          /\ Accepter(n) => Accepter(m) \/ Founder(m)
          /\ Pending(m) <=> m.rec.kind = "ATTEMPT_STARTED"
      BY <1>1, <2>1
      DEF WellFormed, Owner, Pending, Judging, Cleared, Founder, Accepter, Moves, Moved, Writes,
          Wrote, Running, Appending, Deciding
    <2>4. CASE m.rec.kind = "ATTEMPT_STARTED"
      <3>1. /\ \A e \in Events : /\ ghost'[e].certified = ghost[e].certified
                                 /\ ghost'[e].accepted = ghost[e].accepted
            /\ \A e \in Events : e # a => ghost'[e].ran = ghost[e].ran
            /\ ghost'[a].ran = ghost[a].ran + 1
        BY <1>1, <1>3, <2>4 DEF IInv, TypeOK, Confirm
      <3>2. Owner(m) /\ ~Accepter(m) /\ ~Founder(m)
        BY <1>1, <2>4
        DEF WellFormed, Owner, Accepter, Founder, Moves, Moved, Writes, Wrote, Running, Appending
      <3>3. /\ board[a].state \notin {"none", "QUEUED", "PREPARE_PR"}
            /\ board[a].attempts = ghost[a].ran + 1
        <4>1. ~Moved(m, "PREPARE_PR") /\ Pending(m)
          BY <2>3, <2>4 DEF Moved, Wrote
        <4> QED
          BY <1>1, <2>2, <3>2, <4>1 DEF IInv, OwnersSound
      <3>4. \A v \in Workers : v # w /\ worker[v].task = a => ~Owner(worker[v])
        BY <2>2, <3>2 DEF IInv, OneOwner
      <3>5. ASSUME NEW e \in Events
            PROVE  /\ OwnersSound(e)' /\ Untouched(e)' /\ FoundersSound(e)'
                   /\ AcceptersSound(e)' /\ Unanswered(e)'
        <4> USE DEF IInv, OthersStay
        <4>1. OwnersSound(e)'
          BY <1>1, <2>1, <2>2, <2>3, <2>4, <3>1, <3>3, <3>4 DEF OwnersSound
        <4>2. Untouched(e)' /\ Unanswered(e)'
          BY <1>1, <2>2, <3>1, <3>3 DEF Untouched, Unanswered
        <4>3. FoundersSound(e)'
          BY <1>1, <2>1, <2>2, <2>3, <3>1, <3>2 DEF FoundersSound
        <4>4. AcceptersSound(e)'
          BY <1>1, <2>1, <2>3, <3>1, <3>2 DEF AcceptersSound
        <4> QED
          BY <4>1, <4>2, <4>3, <4>4
      <3>6. OneOwner' /\ \A v \in Workers : WellFormed(worker[v])'
        BY <2>1, <2>2, <2>3 DEF IInv, OneOwner, OthersStay
      <3>7. AttemptsRunOnce' /\ PreparedWasCertified' /\ AcceptedOnce'
        BY <1>1, <3>1, <3>3 DEF IInv, TypeOK, AttemptsRunOnce, PreparedWasCertified, AcceptedOnce
      <3> QED
        BY <3>5, <3>6, <3>7 DEF IInv
    <2>5. CASE m.rec.kind # "ATTEMPT_STARTED"
      <3>1. ghost' = ghost
        BY <2>5 DEF Confirm
      <3>2. ASSUME NEW e \in Events
            PROVE  /\ OwnersSound(e)' /\ Untouched(e)' /\ FoundersSound(e)'
                   /\ AcceptersSound(e)' /\ Unanswered(e)'
        <4> USE DEF IInv, OthersStay
        <4>1. OwnersSound(e)'
          BY <1>1, <2>1, <2>2, <2>3, <2>5, <3>1 DEF OwnersSound
        <4>2. Untouched(e)' /\ Unanswered(e)'
          BY <1>1, <2>2, <3>1 DEF Untouched, Unanswered
        <4>3. FoundersSound(e)'
          BY <1>1, <2>1, <2>2, <2>3, <3>1 DEF FoundersSound
        <4>4. AcceptersSound(e)'
          BY <1>1, <2>1, <2>2, <2>3, <3>1 DEF AcceptersSound, FoundersSound
        <4> QED
          BY <4>1, <4>2, <4>3, <4>4
      <3>3. OneOwner' /\ \A v \in Workers : WellFormed(worker[v])'
        BY <2>1, <2>2, <2>3 DEF IInv, OneOwner, OthersStay
      <3>4. AttemptsRunOnce' /\ PreparedWasCertified' /\ AcceptedOnce'
        BY <1>1, <3>1 DEF IInv, AttemptsRunOnce, PreparedWasCertified, AcceptedOnce
      <3> QED
        BY <3>2, <3>3, <3>4 DEF IInv
    <2> QED
      BY <2>4, <2>5
  <1> QED
    BY <1>2, <1>3

\* The line was written in its place and the fold accepts it.
Placed(w) == AppendLine(w) /\ Good'

LEMMA LineFacts ==
  ASSUME IInv, NEW w \in Workers, AppendLine(w)
  PROVE  /\ OthersStay(w) /\ worker[w].pc = "line" /\ worker'[w].pc = "seal"
         /\ worker'[w].task = worker[w].task /\ worker'[w].rec = worker[w].rec
         /\ worker'[w].then = worker[w].then /\ worker'[w].tries = worker[w].tries
         /\ worker[w].task \in Events /\ WellFormed(worker[w])
         /\ ghost' = ghost
         /\ ~Good' => board' = board
         /\ Good' => /\ Good /\ Folds(board[worker[w].task], worker[w].rec)
                     /\ board' = [board EXCEPT ![worker[w].task] = Folded(@, worker[w].rec)]
  <1>1. worker \in [Workers -> Worker] /\ WellFormed(worker[w])
    BY DEF IInv, TypeOK
  <1>2. /\ OthersStay(w) /\ worker'[w].pc = "seal"
        /\ worker'[w].task = worker[w].task /\ worker'[w].rec = worker[w].rec
        /\ worker'[w].then = worker[w].then /\ worker'[w].tries = worker[w].tries
    BY <1>1, GoneTo DEF AppendLine
  <1>3. /\ ledger'.sound = (ledger.sound /\ worker[w].seq = ledger.length + 1)
        /\ ledger'.legal = (ledger.legal /\ Folds(board[worker[w].task], worker[w].rec))
    BY DEF IInv, TypeOK, AppendLine
  <1>4. /\ ~Good' => board' = board
        /\ Good' => /\ Good /\ Folds(board[worker[w].task], worker[w].rec)
                    /\ board' = [board EXCEPT ![worker[w].task] = Folded(@, worker[w].rec)]
    BY <1>3 DEF AppendLine, Good
  <1> QED
    BY <1>1, <1>2, <1>4 DEF AppendLine, Worker

\* How the roles of a process change when its line is there.
LEMMA LineRoles ==
  ASSUME IInv, NEW w \in Workers, AppendLine(w)
  PROVE  /\ WellFormed(worker'[w])
         /\ Owner(worker'[w]) => Owner(worker[w]) \/ Moves(worker[w], "ACTIVE")
         /\ ~Moved(worker[w], "PREPARE_PR") /\ ~Pending(worker[w]) /\ ~Founder(worker[w])
         /\ Pending(worker'[w]) <=> worker[w].rec.kind = "ATTEMPT_STARTED"
         /\ Moves(worker[w], "PREPARE_PR") => /\ Moved(worker'[w], "PREPARE_PR")
                                              /\ Owner(worker[w]) /\ Cleared(worker[w])
         /\ Judging(worker'[w]) => Judging(worker[w]) /\ worker[w].rec.kind # "ATTEMPT_STARTED"
         /\ Cleared(worker'[w]) => Cleared(worker[w]) /\ worker[w].rec.kind # "ATTEMPT_STARTED"
         /\ Founder(worker'[w]) => worker[w].rec.kind = "TASK_CREATED"
         /\ Accepter(worker'[w]) <=> Accepter(worker[w])
         /\ worker[w].rec.kind = "ATTEMPT_STARTED" => Owner(worker[w])
         /\ Moves(worker[w], "ACTIVE") => ~Judging(worker'[w]) /\ ~Cleared(worker'[w])
         /\ worker[w].rec.kind = "TASK_CREATED" =>
              ~Owner(worker'[w]) /\ ~Owner(worker[w]) /\ ~Accepter(worker[w])
  BY LineFacts
  DEF WellFormed, Owner, Pending, Judging, Cleared, Founder, Accepter, Moves, Moved, Writes,
      Wrote, Running, Appending

\* A line that is out of place or illegal changes no task, and ends the file.
LEMMA MisplacedKeeps ==
  ASSUME IInv, TypeOK', NEW w \in Workers, AppendLine(w), ~Good'
  PROVE  IInv'
  <1>1. board' = board /\ ghost' = ghost /\ OthersStay(w) /\ worker'[w].task = worker[w].task
    BY LineFacts
  <1>2. WellFormed(worker'[w]) /\ (Accepter(worker'[w]) <=> Accepter(worker[w]))
    BY LineRoles
  <1>3. ASSUME NEW e \in Events
        PROVE  OwnersSound(e)' /\ Untouched(e)' /\ FoundersSound(e)' /\ AcceptersSound(e)' /\ Unanswered(e)'
    <2>1. OwnersSound(e)' /\ Untouched(e)' /\ FoundersSound(e)'
      BY DEF OwnersSound, Untouched, FoundersSound
    <2>2. AcceptersSound(e)'
      BY <1>1, <1>2 DEF IInv, AcceptersSound, OthersStay
    <2>3. Unanswered(e)'
      BY <1>1 DEF IInv, Unanswered
    <2> QED
      BY <2>1, <2>2, <2>3
  <1>4. OneOwner' /\ \A v \in Workers : WellFormed(worker[v])'
    BY <1>1, <1>2 DEF IInv, OneOwner, OthersStay
  <1>5. AttemptsRunOnce' /\ PreparedWasCertified' /\ AcceptedOnce'
    BY <1>1 DEF IInv, AttemptsRunOnce, PreparedWasCertified, AcceptedOnce
  <1> QED
    BY <1>3, <1>4, <1>5 DEF IInv

\* What an accepted line does to its task, by the kind of the line.
LEMMA PlacedTask ==
  ASSUME IInv, NEW w \in Workers, Placed(w)
  PROVE  LET a == worker[w].task
             rec == worker[w].rec
         IN  /\ \A e \in Events : e # a => board'[e] = board[e]
             /\ rec.kind = "TASK_CREATED" =>
                  /\ board[a].state = "none" /\ board'[a].state = "QUEUED"
                  /\ board'[a].attempts = board[a].attempts
             /\ rec.kind = "TASK_STATE" =>
                  /\ rec.state \in Transitions[board[a].state]
                  /\ board'[a].state = rec.state /\ board'[a].attempts = board[a].attempts
             /\ rec.kind = "ATTEMPT_STARTED" =>
                  /\ board'[a].state = board[a].state
                  /\ board'[a].attempts = board[a].attempts + 1
             /\ rec.kind \in {"EVENT_REJECTED", "NOTE"} => board'[a] = board[a]
  <1> DEFINE a == worker[w].task
             rec == worker[w].rec
  <1>1. /\ a \in Events /\ Folds(board[a], rec)
        /\ board' = [board EXCEPT ![a] = Folded(board[a], rec)]
    BY LineFacts DEF Placed
  <1>2. board \in [Events -> Task] /\ board[a] \in Task
    BY <1>1 DEF IInv, TypeOK
  <1>3. board'[a] = Folded(board[a], rec) /\ \A e \in Events : e # a => board'[e] = board[e]
    BY <1>1, <1>2
  <1> QED
    BY <1>1, <1>2, <1>3 DEF Folds, Folded, Task

LEMMA PlacedKeeps ==
  ASSUME IInv, TypeOK', NEW w \in Workers, Placed(w)
  PROVE  IInv'
  <1> DEFINE m == worker[w]
             n == worker'[w]
             a == m.task
             rec == m.rec
  <1>1. /\ OthersStay(w) /\ n.task = a /\ n.rec = rec /\ n.tries = m.tries /\ m.pc = "line"
        /\ a \in Events /\ ghost' = ghost /\ Good /\ Good'
    BY LineFacts DEF Placed
  <1>2. rec \in Record /\ board[a] \in Task
    BY <1>1 DEF IInv, TypeOK, Worker
  <1>3. Moves(m, rec.state) <=> rec.kind = "TASK_STATE"
    BY <1>1 DEF Moves, Writes, Appending
  <1>4. ASSUME NEW e \in Events
        PROVE  /\ board[e].state # "none" => board'[e].state # "none"
               /\ board[e].state \notin {"none", "QUEUED"} =>
                    board'[e].state \notin {"none", "QUEUED"}
    BY <1>1, <1>2, PlacedTask, TransitionsFacts DEF Task, Record
  <1>5. Moves(m, "ACTIVE") => board[a].state = "QUEUED" /\ board'[a].state = "ACTIVE"
    BY <1>1, <1>2, PlacedTask, TransitionsFacts DEF Moves, Writes, Task
  <1>6. Owner(n) /\ ~Owner(m) => board[a].state = "QUEUED" /\ board'[a].state = "ACTIVE" /\ Moves(m, "ACTIVE")
    BY <1>5, LineRoles DEF Placed
  <1>7. \A v \in Workers : v # w /\ worker[v].task = a /\ Owner(worker[v]) =>
          /\ ~Owner(n) /\ ~Owner(m)
          /\ board[a].state \notin {"none", "QUEUED"}
    BY <1>1, <1>6 DEF IInv, OwnersSound, OneOwner
  <1>8. ASSUME NEW e \in Events
        PROVE  OwnersSound(e)'
    <2> SUFFICES ASSUME NEW v \in Workers, Owner(worker'[v]), worker'[v].task = e
                 PROVE  /\ board'[e].state \notin {"none", "QUEUED"}
                        /\ board'[e].state = "PREPARE_PR" => Moved(worker'[v], "PREPARE_PR")
                        /\ board'[e].attempts = IF Pending(worker'[v]) THEN ghost'[e].ran + 1
                                                ELSE ghost'[e].ran
                        /\ Judging(worker'[v]) => worker'[v].tries = board'[e].attempts
                        /\ Cleared(worker'[v]) => ghost'[e].certified = board'[e].attempts
      BY DEF OwnersSound
    <2>1. CASE e # a
      BY <1>1, <2>1, PlacedTask DEF IInv, OwnersSound, OthersStay
    <2>2. CASE e = a /\ v # w
      <3>1. /\ worker'[v] = worker[v] /\ Owner(worker[v]) /\ worker[v].task = a
            /\ ~Owner(m)
        BY <1>1, <1>7, <2>2 DEF OthersStay
      <3>2. rec.kind \notin {"ATTEMPT_STARTED", "TASK_CREATED"}
        BY <1>1, <1>7, <3>1, LineRoles, PlacedTask DEF Placed
      <3>3. board'[a].attempts = board[a].attempts
        BY <1>2, <3>2, PlacedTask DEF Record
      <3>4. board'[a].state = "PREPARE_PR" => board[a].state = "PREPARE_PR"
        <4>1. ~Moves(m, "PREPARE_PR")
          BY <3>1, LineRoles DEF Placed
        <4> QED
          BY <1>1, <1>2, <3>2, <4>1, PlacedTask DEF Record, Moves, Writes, Appending
      <3> QED
        BY <1>1, <1>4, <2>2, <3>1, <3>3, <3>4 DEF IInv, OwnersSound
    <2>3. CASE e = a /\ v = w /\ Owner(m)
      <3>1. /\ board[a].state \notin {"none", "QUEUED", "PREPARE_PR"}
            /\ board[a].attempts = ghost[a].ran
            /\ Judging(m) => m.tries = board[a].attempts
            /\ Cleared(m) => ghost[a].certified = board[a].attempts
        BY <1>1, <2>3, LineRoles DEF IInv, OwnersSound, Placed
      <3>2. board'[a].state = "PREPARE_PR" => Moved(n, "PREPARE_PR")
        <4>1. board'[a].state = "PREPARE_PR" => Moves(m, "PREPARE_PR")
          BY <1>1, <1>2, <3>1, PlacedTask DEF Record, Moves, Writes, Appending
        <4> QED
          BY <4>1, LineRoles DEF Placed
      <3>3. rec.kind # "ATTEMPT_STARTED" => board'[a].attempts = board[a].attempts
        BY <1>2, PlacedTask DEF Record
      <3> QED
        BY <1>1, <1>4, <2>3, <3>1, <3>2, <3>3, LineRoles, PlacedTask DEF Placed
    <2>4. CASE e = a /\ v = w /\ ~Owner(m)
      <3>1. Moves(m, "ACTIVE") /\ board[a].state = "QUEUED" /\ board'[a].state = "ACTIVE"
        BY <1>6, <2>4
      <3>2. rec.kind = "TASK_STATE" /\ ~Pending(n) /\ ~Judging(n) /\ ~Cleared(n)
        BY <3>1, LineRoles DEF Placed, Moves, Writes
      <3>3. board'[a].attempts = 0 /\ ghost[a].ran = 0
        BY <1>1, <3>1, <3>2, PlacedTask DEF IInv, Untouched
      <3> QED
        BY <1>1, <2>4, <3>1, <3>2, <3>3
    <2> QED
      BY <2>1, <2>2, <2>3, <2>4
  <1>9. OneOwner'
    BY <1>1, <1>7 DEF IInv, OneOwner, OthersStay
  <1>10. ASSUME NEW e \in Events
         PROVE  Untouched(e)'
    <2>1. rec.kind = "ATTEMPT_STARTED" => board[a].state \notin {"none", "QUEUED"}
      BY <1>1, LineRoles DEF IInv, OwnersSound, Placed
    <2> QED
      BY <1>1, <1>2, <1>4, <2>1, PlacedTask DEF IInv, Untouched, Record
  <1>11. ASSUME NEW e \in Events
         PROVE  FoundersSound(e)' /\ AcceptersSound(e)' /\ Unanswered(e)'
    <2>1. Founder(n) => /\ board[a].state = "none" /\ board'[a].state # "none"
                        /\ ~Accepter(n) /\ ghost[a].accepted = 0
      BY <1>1, LineRoles, PlacedTask DEF IInv, Unanswered, Placed
    <2>2. \A v \in Workers : worker[v].task = a /\ board[a].state = "none" =>
            ~Founder(worker[v]) /\ ~Accepter(worker[v])
      BY <1>1 DEF IInv, FoundersSound, AcceptersSound
    <2>3. Accepter(n) <=> Accepter(m)
      BY LineRoles DEF Placed
    <2>4. FoundersSound(e)'
      <3>1. CASE e # a
        BY <1>1, <3>1, PlacedTask DEF IInv, FoundersSound, OthersStay
      <3>2. CASE e = a
        BY <1>1, <1>4, <2>1, <2>2, <2>3, <3>2 DEF IInv, FoundersSound, OthersStay
      <3> QED
        BY <3>1, <3>2
    <2>5. AcceptersSound(e)'
      BY <1>1, <1>4, <2>3 DEF IInv, AcceptersSound, OthersStay
    <2>6. Unanswered(e)'
      BY <1>1, <1>4 DEF IInv, Unanswered
    <2> QED
      BY <2>4, <2>5, <2>6
  <1>12. AttemptsRunOnce'
    <2>1. \A e \in Events : board[e].attempts \in Nat /\ board'[e].attempts >= board[e].attempts
      <3>1. \A e \in Events : board[e].attempts \in Nat
        BY BudgetAssumption DEF IInv, TypeOK, Task
      <3> QED
        BY <1>1, <1>2, <3>1, PlacedTask DEF Record
    <2>2. \A e \in Events : ghost[e].ran \in Nat /\ board'[e].attempts \in Nat
      BY <2>1, BudgetAssumption DEF IInv, TypeOK, Task
    <2> QED
      BY <1>1, <2>1, <2>2 DEF IInv, AttemptsRunOnce
  <1>13. PreparedWasCertified' /\ AcceptedOnce'
    <2>1. ASSUME NEW e \in Events, board'[e].state = "PREPARE_PR"
          PROVE  ghost[e].certified = board'[e].attempts /\ ghost[e].ran = board'[e].attempts
      <3>1. CASE e # a
        BY <1>1, <2>1, <3>1, PlacedTask DEF IInv, PreparedWasCertified
      <3>2. CASE e = a /\ Moves(m, "PREPARE_PR")
        <4>1. Owner(m) /\ Cleared(m) /\ ~Pending(m) /\ rec.kind = "TASK_STATE"
          BY <3>2, LineRoles DEF Placed, Moves, Writes
        <4> QED
          BY <1>1, <3>2, <4>1, PlacedTask DEF IInv, OwnersSound
      <3>3. CASE e = a /\ ~Moves(m, "PREPARE_PR")
        <4>1. board[a].state = "PREPARE_PR"
          BY <1>1, <1>2, <2>1, <3>3, PlacedTask DEF Record, Moves, Writes, Appending
        <4>2. ~Owner(m)
          BY <1>1, <4>1, LineRoles DEF IInv, OwnersSound, Placed
        <4>3. board'[a].attempts = board[a].attempts
          BY <1>1, <1>2, <4>2, LineRoles, PlacedTask DEF Record, Placed
        <4> QED
          BY <3>3, <4>1, <4>3 DEF IInv, PreparedWasCertified
      <3> QED
        BY <3>1, <3>2, <3>3
    <2> QED
      BY <1>1, <2>1 DEF IInv, PreparedWasCertified, AcceptedOnce
  <1>14. \A v \in Workers : WellFormed(worker[v])'
    BY <1>1, LineRoles DEF IInv, OthersStay, Placed
  <1> QED
    BY <1>8, <1>9, <1>10, <1>11, <1>12, <1>13, <1>14 DEF IInv

-----------------------------------------------------------------------------
(* The invariant holds *)

LEMMA InitHolds == Init => IInv
  <1> SUFFICES ASSUME Init
               PROVE  IInv
    OBVIOUS
  <1>1. /\ \A e \in Events : board[e] = NoTask /\ ghost[e] = [ran |-> 0, certified |-> 0, accepted |-> 0]
        /\ \A w \in Workers : worker[w].pc = "closed"
    BY DEF Init
  <1>2. \A w \in Workers : /\ WellFormed(worker[w]) /\ ~Owner(worker[w])
                           /\ ~Founder(worker[w]) /\ ~Accepter(worker[w])
    BY <1>1 DEF WellFormed, Owner, Founder, Accepter, Moves, Moved, Writes, Wrote, Running, Appending
  <1> QED
    BY <1>1, <1>2, InitTypes
    DEF IInv, OwnersSound, Untouched, FoundersSound, AcceptersSound, Unanswered, OneOwner,
        AttemptsRunOnce, PreparedWasCertified, AcceptedOnce, NoTask

LEMMA StepHolds == IInv /\ [Next]_vars => IInv'
  <1> SUFFICES ASSUME IInv, [Next]_vars
               PROVE  IInv'
    OBVIOUS
  <1>0. TypeOK'
    BY StepTypes DEF IInv
  <1>1. CASE UNCHANGED vars
    BY <1>1 DEF vars, IInv, TypeOK, OwnersSound, Untouched, FoundersSound, AcceptersSound,
                Unanswered, OneOwner, AttemptsRunOnce, PreparedWasCertified, AcceptedOnce, Good
  <1>2. ASSUME NEW w \in Workers, Open(w) \/ Proceed(w) \/ Stop(w)
        PROVE  IInv'
    <2>1. CASE Open(w) \/ Touch(w) \/ SealNew(w) \/ Stop(w)
      BY <1>0, <2>1, OpenEases, EasedKeeps
    <2>2. CASE Check(w) \/ AppendRead(w) \/ Seal(w) \/ Accept(w)
      BY <1>0, <2>2, AppendEases, EasedKeeps
    <2>3. CASE AppendLine(w)
      BY <1>0, <2>3, MisplacedKeeps, PlacedKeeps DEF Placed
    <2>4. CASE Confirm(w) \/ Answer(w)
      BY <1>0, <2>4, ConfirmKeeps, AnswerKeeps
    <2>5. CASE \/ Attempt(w) \/ Execute(w) \/ Excepted(w) \/ Remediate(w)
               \/ Validate(w) \/ Failed(w) \/ Score(w) \/ Certify(w)
               \/ Hold(w) \/ Candidate(w) \/ Prepare(w)
      BY <1>0, <2>5, DecisionEases, EasedKeeps, ApproveKeeps
    <2> QED
      BY <1>2, <2>1, <2>2, <2>3, <2>4, <2>5 DEF Proceed
  <1>3. ASSUME NEW w \in Workers, NEW e \in Events,
               \/ Ingest(w, e) \/ Create(w, e) \/ Run(w, e)
               \/ \E state \in Terminal \ {"PREPARE_PR"} : Settle(w, e, state)
        PROVE  IInv'
    BY <1>0, <1>3, CallEases, EasedKeeps
  <1> QED
    BY <1>1, <1>2, <1>3 DEF Next

\* The executor is called at most once for every attempt on record, however many
\* processes share the file and wherever they die (TaskBoard.start_attempt's
\* last read).
THEOREM AttemptsRunAtMostOnce == Spec => []AttemptsRunOnce
  <1>1. IInv => AttemptsRunOnce
    BY DEF IInv
  <1> QED
    BY InitHolds, StepHolds, <1>1, PTL DEF Spec

\* PREPARE_PR is reached only on a certified last attempt
\* (AutonomousRemediationRuntime.run).
THEOREM PreparedIsCertified == Spec => []PreparedWasCertified
  <1>1. IInv => PreparedWasCertified
    BY DEF IInv
  <1> QED
    BY InitHolds, StepHolds, <1>1, PTL DEF Spec

\* No event is accepted twice (EventRouter.ingest, TaskBoard.create).
THEOREM EventsAcceptedOnce == Spec => []AcceptedOnce
  <1>1. IInv => AcceptedOnce
    BY DEF IInv
  <1> QED
    BY InitHolds, StepHolds, <1>1, PTL DEF Spec

\* A stopped task stays stopped (TaskBoard.rebuild's table of transitions).
THEOREM StoppedIsFinal == Spec => StoppedStaysStopped
  <1> DEFINE Final == \A e \in Events : board[e].state \in Terminal => UNCHANGED board[e].state
  <1>1. IInv /\ [Next]_vars => [Final]_vars
    <2> SUFFICES ASSUME IInv, Next
                 PROVE  Final
      BY DEF vars
    <2>1. ASSUME NEW w \in Workers, AppendLine(w)
          PROVE  Final
      <3>1. CASE ~Good'
        BY <2>1, <3>1, LineFacts
      <3>2. CASE Good'
        <4>1. worker[w].rec \in Record /\ worker[w].task \in Events
          BY DEF IInv, TypeOK, Worker
        <4>2. \A e \in Events : board[e].state \in BoardStates
          BY DEF IInv, TypeOK, Task
        <4>3. "none" \notin Terminal
          BY DEF Terminal
        <4> QED
          BY <2>1, <3>2, <4>1, <4>2, <4>3, PlacedTask, TransitionsFacts DEF Placed, Record
      <3> QED
        BY <3>1, <3>2
    <2>2. CASE board' = board
      BY <2>2
    <2> QED
      BY <2>1, <2>2
      DEF Next, Proceed, Open, Touch, SealNew, Check, AppendRead, Seal, Confirm, Accept, Answer,
          Attempt, Execute, Excepted, Remediate, Validate, Failed, Score, Certify, Hold,
          Candidate, Prepare, Decides, Stop, Ingest, Create, Run, Settle
  <1> QED
    BY InitHolds, StepHolds, <1>1, PTL DEF Spec, StoppedStaysStopped

-----------------------------------------------------------------------------
(* The refinement of GovernedRun *)

\* A process that judges an attempt, or had it certified, has run one.
RanFirst ==
  \A w \in Workers :
    Judging(worker[w]) \/ Cleared(worker[w]) => ghost[worker[w].task].ran > 0

RunAt(e) ==
  [stage |-> Stage(board[e]), started |-> board[e].attempts, ran |-> ghost[e].ran,
   cleared |-> ghost[e].certified, accepted |-> ghost[e].accepted]

Runs == [e \in Events |-> RunAt(e)]

LEMMA InitGoverns == Init => Governed!GInit /\ RanFirst
  <1> SUFFICES ASSUME Init
               PROVE  Governed!GInit /\ RanFirst
    OBVIOUS
  <1>0. PICK e \in Events :
          worker = [w \in Workers |-> [pc |-> "closed", task |-> e, rec |-> Note,
                                       then |-> "idle", seq |-> 0, tries |-> 0]]
    BY DEF Init
  <1>1. \A w \in Workers : ~Judging(worker[w]) /\ ~Cleared(worker[w])
    BY <1>0 DEF Judging, Cleared, Moves, Writes, Appending
  <1>2. Stage(NoTask) = "absent"
    BY DEF Stage, NoTask
  <1> QED
    BY <1>1, <1>2 DEF Init, RanFirst, NoTask, Governed!GInit, Governed!Fresh

\* The judge and the certified are owners, and an owner keeps its task.
LEMMA EasedRan ==
  ASSUME IInv, RanFirst, NEW w \in Workers, Eased(w)
  PROVE  RanFirst'
  <1>1. Judging(worker'[w]) \/ Cleared(worker'[w]) =>
          /\ Judging(worker[w]) \/ Cleared(worker[w])
          /\ worker'[w].task = worker[w].task
    <2>1. WellFormed(worker'[w]) /\ Eases(worker[w], worker'[w])
      BY DEF Eased
    <2>2. Judging(worker'[w]) \/ Cleared(worker'[w]) => Owner(worker'[w])
      BY <2>1 DEF WellFormed, Judging, Cleared, Owner, Running, Moves, Moved, Writes, Wrote
    <2> QED
      BY <2>1, <2>2 DEF Eases
  <1> QED
    BY <1>1 DEF Eased, RanFirst

\* A step that neither folds a line nor calls out is not seen from outside.
LEMMA Unseen ==
  ASSUME UNCHANGED <<board, ghost>>
  PROVE  [Governed!GNext]_Runs
  BY DEF Runs, RunAt

\* One task moves at a time.
LEMMA RunMoves ==
  ASSUME NEW a \in Events, NEW r, RunAt(a)' = r,
         \A e \in Events : e # a => board'[e] = board[e] /\ ghost'[e] = ghost[e]
  PROVE  Runs' = [Runs EXCEPT ![a] = r] /\ Runs[a] = RunAt(a)
  BY DEF Runs, RunAt

LEMMA StepIsSeen ==
  ASSUME NEW a \in Events, Governed!RunStep(a)
  PROVE  [Governed!GNext]_Runs
  BY DEF Governed!GNext, Runs, RunAt

LEMMA AnswerGoverns ==
  ASSUME IInv, RanFirst, NEW w \in Workers, Answer(w)
  PROVE  [Governed!GNext]_Runs /\ RanFirst'
  <1>0. PICK a \in Events : a = worker[w].task
    BY DEF IInv, TypeOK, Worker
  <1> DEFINE r == [RunAt(a) EXCEPT !.accepted = 1]
  <1>1. /\ OthersStay(w) /\ worker[w].pc = "answer" /\ worker'[w].pc = "idle"
        /\ board' = board /\ a \in Events
        /\ ghost' = [ghost EXCEPT ![a].accepted = @ + 1]
    BY <1>0, GoneTo DEF IInv, TypeOK, Answer, Worker
  <1>2. ghost[a].accepted = 0 /\ board[a].state # "none"
    BY <1>0, <1>1 DEF IInv, AcceptersSound, Accepter
  <1>3. /\ \A e \in Events : ghost'[e].ran = ghost[e].ran
        /\ \A e \in Events : e # a => board'[e] = board[e] /\ ghost'[e] = ghost[e]
        /\ ghost'[a].certified = ghost[a].certified /\ ghost'[a].accepted = 1
    BY <1>0, <1>1, <1>2 DEF IInv, TypeOK
  <1>4. RunAt(a)' = r
    BY <1>0, <1>1, <1>3 DEF RunAt
  <1>5. Runs' = [Runs EXCEPT ![a] = r] /\ Runs[a] = RunAt(a)
    <2> HIDE DEF r
    <2> QED
      BY <1>0, <1>1, <1>3, <1>4, RunMoves
  <1>6. Governed!Answer(a)
    BY <1>2, <1>5 DEF Governed!Answer, Runs, RunAt, Stage
  <1>7. ~Judging(worker'[w]) /\ ~Cleared(worker'[w])
    BY <1>0, <1>1 DEF Judging, Cleared, Moves, Writes, Appending
  <1>8. RanFirst'
    BY <1>0, <1>1, <1>3, <1>7 DEF RanFirst, OthersStay, IInv, TypeOK, Worker
  <1> QED
    BY <1>0, <1>1, <1>6, <1>8, StepIsSeen DEF Governed!RunStep

LEMMA ApproveGoverns ==
  ASSUME IInv, RanFirst, NEW w \in Workers, Approve(w)
  PROVE  [Governed!GNext]_Runs /\ RanFirst'
  <1>0. PICK a \in Events : a = worker[w].task
    BY DEF IInv, TypeOK, Worker
  <1> DEFINE r == [RunAt(a) EXCEPT !.cleared = board[a].attempts]
  <1>1. /\ OthersStay(w) /\ worker[w].pc = "certify" /\ worker'[w].task = a
        /\ a \in Events /\ board' = board /\ Good
        /\ ghost' = [ghost EXCEPT ![a].certified = worker[w].tries]
    BY <1>0, Written DEF IInv, TypeOK, Approve, Decides, Move, Worker, Rebuilds, Readable, Good
  <1>2. /\ Owner(worker[w]) /\ Judging(worker[w]) /\ ~Pending(worker[w])
        /\ ~Moved(worker[w], "PREPARE_PR")
    BY <1>0, <1>1 DEF Owner, Judging, Running, Pending, Moved, Wrote
  <1>3. /\ board[a].state \notin {"none", "QUEUED", "PREPARE_PR"}
        /\ ghost[a].ran = board[a].attempts /\ worker[w].tries = board[a].attempts
        /\ ghost[a].ran > 0
    BY <1>0, <1>1, <1>2 DEF IInv, OwnersSound, RanFirst
  <1>4. /\ \A e \in Events : ghost'[e].ran = ghost[e].ran
        /\ \A e \in Events : e # a => board'[e] = board[e] /\ ghost'[e] = ghost[e]
        /\ ghost'[a].accepted = ghost[a].accepted
        /\ ghost'[a].certified = board[a].attempts
    BY <1>0, <1>1, <1>3 DEF IInv, TypeOK
  <1>5. RunAt(a)' = r
    BY <1>0, <1>1, <1>4 DEF RunAt
  <1>6. Runs' = [Runs EXCEPT ![a] = r] /\ Runs[a] = RunAt(a)
    <2> HIDE DEF r
    <2> QED
      BY <1>0, <1>1, <1>4, <1>5, RunMoves
  <1>7. Stage(board[a]) \in {"working", "stopped"}
    BY <1>3 DEF Stage
  <1>8. Governed!Clear(a)
    BY <1>3, <1>6, <1>7 DEF Governed!Clear, Runs, RunAt
  <1>9. RanFirst'
    BY <1>0, <1>1, <1>3, <1>4 DEF RanFirst, OthersStay, IInv, TypeOK, Worker
  <1> QED
    BY <1>0, <1>1, <1>8, <1>9, StepIsSeen DEF Governed!RunStep

LEMMA ConfirmGoverns ==
  ASSUME IInv, RanFirst, NEW w \in Workers, Confirm(w)
  PROVE  [Governed!GNext]_Runs /\ RanFirst'
  <1>0. PICK a \in Events : a = worker[w].task
    BY DEF IInv, TypeOK, Worker
  <1> DEFINE m == worker[w]
             n == worker'[w]
  <1>1. /\ m.pc = "confirm" /\ WellFormed(m) /\ a \in Events /\ worker \in [Workers -> Worker]
        /\ m.then \in {"idle"} \cup Deciding /\ board' = board
    BY <1>0 DEF IInv, TypeOK, Confirm, Worker
  <1>2. CASE Rebuilds /\ m.rec.kind = "ATTEMPT_STARTED"
    <2> DEFINE r == [RunAt(a) EXCEPT !.ran = @ + 1]
    <2>1. OthersStay(w) /\ n.task = a /\ Good
      BY <1>0, <1>1, <1>2 DEF Confirm, OthersStay, Worker, Rebuilds, Readable, Good
    <2>2. Owner(m) /\ Pending(m) /\ ghost[a].ran \in Nat
      BY <1>0, <1>1, <1>2
      DEF WellFormed, Owner, Pending, Moves, Moved, Writes, Wrote, Running, Appending, IInv, TypeOK
    <2>3. board[a].attempts = ghost[a].ran + 1
      BY <1>0, <1>1, <2>1, <2>2 DEF IInv, OwnersSound
    <2>4. /\ \A e \in Events : e # a => board'[e] = board[e] /\ ghost'[e] = ghost[e]
          /\ ghost'[a].ran = ghost[a].ran + 1 /\ ghost'[a].accepted = ghost[a].accepted
          /\ ghost'[a].certified = ghost[a].certified
      BY <1>0, <1>1, <1>2 DEF IInv, TypeOK, Confirm
    <2>5. RunAt(a)' = r
      BY <1>0, <1>1, <2>4 DEF RunAt
    <2>6. Runs' = [Runs EXCEPT ![a] = r] /\ Runs[a] = RunAt(a)
      <3> HIDE DEF r
      <3> QED
        BY <1>0, <1>1, <2>4, <2>5, RunMoves
    <2>7. Governed!Execute(a)
      <3>1. ghost[a].ran < board[a].attempts
        BY <2>2, <2>3
      <3> QED
        BY <2>6, <3>1 DEF Governed!Execute, Runs, RunAt
    <2>8. RanFirst'
      BY <1>0, <1>1, <2>1, <2>2, <2>4 DEF RanFirst, OthersStay, IInv, TypeOK, Worker
    <2> QED
      BY <1>0, <1>1, <2>7, <2>8, StepIsSeen DEF Governed!RunStep
  <1>3. CASE ~(Rebuilds /\ m.rec.kind = "ATTEMPT_STARTED")
    <2>1. ghost' = ghost
      BY <1>3 DEF Confirm
    <2>2. /\ OthersStay(w) /\ n.task = a
          /\ Judging(n) \/ Cleared(n) => Judging(m) \/ Cleared(m)
      <3>1. CASE ~Rebuilds
        <4>1. Raise(w)
          BY <3>1 DEF Confirm
        <4> QED
          BY <1>0, <1>1, <4>1, GotoEases, GoneTo DEF Raise, Eases
      <3>2. CASE Rebuilds
        <4>1. /\ OthersStay(w) /\ n.pc = m.then /\ n.task = a /\ n.rec = m.rec
              /\ n.then = m.then
          BY <1>0, <1>1, <3>2 DEF Confirm, OthersStay, Worker
        <4> QED
          BY <1>0, <1>1, <1>3, <3>2, <4>1
          DEF WellFormed, Judging, Cleared, Moves, Writes, Appending, Deciding
      <3> QED
        BY <3>1, <3>2
    <2>3. RanFirst'
      BY <1>0, <2>1, <2>2 DEF RanFirst, OthersStay
    <2> QED
      BY <1>0, <1>1, <2>1, <2>3, Unseen
  <1> QED
    BY <1>2, <1>3

\* A change of state, as an outsider sees it.
LEMMA StagesFollow ==
  ASSUME NEW s \in BoardStates, NEW t \in Transitions[s],
         NEW k, k.state = s, NEW l, l.state = t
  PROVE  \/ t = "ACTIVE" /\ Stage(k) = "waiting" /\ Stage(l) = "working"
         \/ t = "PREPARE_PR" /\ Stage(k) = "working" /\ Stage(l) = "prepared"
         \/ /\ t # "PREPARE_PR" /\ Stage(l) = "stopped"
            /\ Stage(k) \in {"waiting", "working"}
         \/ t # "PREPARE_PR" /\ Stage(k) = "working" /\ Stage(l) = "working"
  BY DEF Transitions, BoardStates, Stage, Terminal

LEMMA PlacedGoverns ==
  ASSUME IInv, RanFirst, NEW w \in Workers, Placed(w)
  PROVE  [Governed!GNext]_Runs /\ RanFirst'
  <1>0. PICK a \in Events : a = worker[w].task
    BY DEF IInv, TypeOK, Worker
  <1> DEFINE m == worker[w]
             n == worker'[w]
             rec == m.rec
  <1>1. /\ OthersStay(w) /\ n.task = a /\ m.pc = "line" /\ n.pc = "seal"
        /\ n.rec = rec /\ n.then = m.then /\ ghost' = ghost /\ Good
    BY <1>0, LineFacts DEF Placed
  <1>2. rec \in Record /\ board[a] \in Task /\ board[a].state \in BoardStates
    BY <1>0 DEF IInv, TypeOK, Worker, Task
  <1>3. RanFirst'
    <2>1. Judging(n) \/ Cleared(n) => Judging(m) \/ Cleared(m)
      BY <1>1 DEF Judging, Cleared, Moves, Writes, Appending
    <2> QED
      BY <1>0, <1>1, <2>1 DEF RanFirst, OthersStay
  <1>4. \A e \in Events : e # a => board'[e] = board[e] /\ ghost'[e] = ghost[e]
    BY <1>0, <1>1, PlacedTask
  <1>5. /\ RunAt(a)' = [stage |-> Stage(board'[a]), started |-> board'[a].attempts,
                        ran |-> ghost[a].ran, cleared |-> ghost[a].certified,
                        accepted |-> ghost[a].accepted]
        /\ Runs' = [Runs EXCEPT ![a] = RunAt(a)'] /\ Runs[a] = RunAt(a)
    <2>1. PICK r : r = RunAt(a)'
      OBVIOUS
    <2>2. Runs' = [Runs EXCEPT ![a] = r] /\ Runs[a] = RunAt(a)
      BY <1>4, <2>1, RunMoves
    <2>3. r = [stage |-> Stage(board'[a]), started |-> board'[a].attempts,
               ran |-> ghost[a].ran, cleared |-> ghost[a].certified,
               accepted |-> ghost[a].accepted]
      BY <1>1, <2>1 DEF RunAt, Stage
    <2> QED
      BY <2>1, <2>2, <2>3
  <1>6. CASE rec.kind \in {"EVENT_REJECTED", "NOTE"}
    <2>1. board'[a] = board[a]
      BY <1>0, <1>6, PlacedTask
    <2> QED
      BY <1>1, <1>3, <1>4, <2>1 DEF Runs, RunAt
  <1>7. CASE rec.kind = "TASK_CREATED"
    <2>1. /\ board[a].state = "none" /\ board'[a].state = "QUEUED"
          /\ board'[a].attempts = board[a].attempts
      BY <1>0, <1>7, PlacedTask
    <2>2. Stage(board[a]) = "absent" /\ Stage(board'[a]) = "waiting"
      BY <2>1 DEF Stage
    <2>3. Governed!Create(a)
      BY <1>5, <2>1, <2>2 DEF Governed!Create, Runs, RunAt
    <2> QED
      BY <1>3, <2>3, StepIsSeen DEF Governed!RunStep
  <1>8. CASE rec.kind = "ATTEMPT_STARTED"
    <2>1. Owner(m) /\ ~Pending(m) /\ ~Moved(m, "PREPARE_PR")
      BY <1>1, <1>8, LineRoles DEF Placed, Pending, Moved, Wrote
    <2>2. /\ board[a].state \notin {"none", "QUEUED", "PREPARE_PR"}
          /\ ghost[a].ran = board[a].attempts
      BY <1>0, <1>1, <2>1 DEF IInv, OwnersSound
    <2>3. /\ board'[a].state = board[a].state
          /\ board'[a].attempts = board[a].attempts + 1
      BY <1>0, <1>8, PlacedTask
    <2>4. Stage(board'[a]) = Stage(board[a]) /\ Stage(board[a]) \in {"working", "stopped"}
      BY <2>2, <2>3 DEF Stage
    <2>5. Governed!Start(a)
      BY <1>5, <2>2, <2>3, <2>4 DEF Governed!Start, Runs, RunAt
    <2> QED
      BY <1>3, <2>5, StepIsSeen DEF Governed!RunStep
  <1>9. CASE rec.kind = "TASK_STATE"
    <2>1. /\ rec.state \in Transitions[board[a].state]
          /\ board'[a].state = rec.state /\ board'[a].attempts = board[a].attempts
      BY <1>0, <1>9, PlacedTask
    <2>2. CASE rec.state = "ACTIVE" /\ Stage(board[a]) = "waiting"
               /\ Stage(board'[a]) = "working"
      <3>1. Governed!Begin(a)
        BY <1>5, <2>1, <2>2 DEF Governed!Begin, Runs, RunAt
      <3> QED
        BY <1>3, <3>1, StepIsSeen DEF Governed!RunStep
    <2>3. CASE rec.state = "PREPARE_PR" /\ Stage(board[a]) = "working"
               /\ Stage(board'[a]) = "prepared"
      <3>1. Owner(m) /\ Cleared(m) /\ ~Pending(m)
        BY <1>1, <1>9, <2>3, LineRoles DEF Placed, Moves, Writes, Appending
      <3>2. /\ ghost[a].certified = board[a].attempts
            /\ ghost[a].ran = board[a].attempts /\ ghost[a].ran > 0
        BY <1>0, <1>1, <3>1 DEF IInv, OwnersSound, RanFirst
      <3>3. Governed!Prepare(a)
        BY <1>5, <2>1, <2>3, <3>2 DEF Governed!Prepare, Runs, RunAt
      <3> QED
        BY <1>3, <3>3, StepIsSeen DEF Governed!RunStep
    <2>4. CASE Stage(board'[a]) = "stopped" /\ Stage(board[a]) \in {"waiting", "working"}
      <3>1. Governed!Stop(a)
        BY <1>5, <2>1, <2>4 DEF Governed!Stop, Runs, RunAt
      <3> QED
        BY <1>3, <3>1, StepIsSeen DEF Governed!RunStep
    <2>5. CASE Stage(board'[a]) = Stage(board[a])
      <3>1. RunAt(a)' = RunAt(a)
        BY <1>1, <2>1, <2>5 DEF RunAt
      <3> QED
        BY <1>3, <1>5, <3>1 DEF Runs
    <2> QED
      BY <1>2, <2>1, <2>2, <2>3, <2>4, <2>5, StagesFollow
  <1> QED
    BY <1>2, <1>6, <1>7, <1>8, <1>9 DEF Record

LEMMA StepGoverns ==
  IInv /\ RanFirst /\ [Next]_vars => [Governed!GNext]_Runs /\ RanFirst'
  <1> SUFFICES ASSUME IInv, RanFirst, [Next]_vars
               PROVE  [Governed!GNext]_Runs /\ RanFirst'
    OBVIOUS
  <1>1. CASE UNCHANGED vars
    BY <1>1, Unseen DEF vars, RanFirst
  <1>2. ASSUME NEW w \in Workers, Eased(w)
        PROVE  [Governed!GNext]_Runs /\ RanFirst'
    BY <1>2, EasedRan, Unseen DEF Eased
  <1>3. ASSUME NEW w \in Workers, AppendLine(w), ~Good'
        PROVE  [Governed!GNext]_Runs /\ RanFirst'
    <2>1. /\ OthersStay(w) /\ worker[w].pc = "line" /\ worker'[w].pc = "seal"
          /\ worker'[w].task = worker[w].task /\ worker'[w].rec = worker[w].rec
          /\ worker'[w].then = worker[w].then /\ board' = board /\ ghost' = ghost
      BY <1>3, LineFacts
    <2>2. Judging(worker'[w]) \/ Cleared(worker'[w]) =>
            Judging(worker[w]) \/ Cleared(worker[w])
      BY <2>1 DEF Judging, Cleared, Moves, Writes, Appending
    <2> QED
      BY <2>1, <2>2, Unseen DEF RanFirst, OthersStay
  <1>4. ASSUME NEW w \in Workers, Open(w) \/ Proceed(w) \/ Stop(w)
        PROVE  [Governed!GNext]_Runs /\ RanFirst'
    <2>1. CASE Open(w) \/ Touch(w) \/ SealNew(w) \/ Stop(w)
      BY <1>2, <2>1, OpenEases
    <2>2. CASE Check(w) \/ AppendRead(w) \/ Seal(w) \/ Accept(w)
      BY <1>2, <2>2, AppendEases
    <2>3. CASE AppendLine(w)
      BY <1>3, <2>3, PlacedGoverns DEF Placed
    <2>4. CASE Confirm(w) \/ Answer(w)
      BY <2>4, ConfirmGoverns, AnswerGoverns
    <2>5. CASE \/ Attempt(w) \/ Execute(w) \/ Excepted(w) \/ Remediate(w)
               \/ Validate(w) \/ Failed(w) \/ Score(w) \/ Certify(w)
               \/ Hold(w) \/ Candidate(w) \/ Prepare(w)
      BY <1>2, <2>5, DecisionEases, ApproveGoverns
    <2> QED
      BY <1>4, <2>1, <2>2, <2>3, <2>4, <2>5 DEF Proceed
  <1>5. ASSUME NEW w \in Workers, NEW e \in Events,
               \/ Ingest(w, e) \/ Create(w, e) \/ Run(w, e)
               \/ \E state \in Terminal \ {"PREPARE_PR"} : Settle(w, e, state)
        PROVE  [Governed!GNext]_Runs /\ RanFirst'
    BY <1>2, <1>5, CallEases
  <1> QED
    BY <1>1, <1>4, <1>5 DEF Next

\* Optimistic appends and reads of one unlocked file serve each task as a single
\* process with a lock would: every line that counts, every call of the executor
\* and every answer is one step of GovernedRun (PersistentRunLedger.append,
\* TaskBoard, EventRouter.ingest and AutonomousRemediationRuntime.run together).
THEOREM TasksAreGoverned == Spec => GovernsAsPromised
  <1>1. Init => Governed!GInit
    BY InitGoverns
  <1>2. Init => RanFirst
    BY InitGoverns
  <1> QED
    BY <1>1, <1>2, InitHolds, StepHolds, StepGoverns, PTL
    DEF Spec, GovernsAsPromised, Governed!GSpec, Runs, RunAt

=============================================================================
