------------------------- MODULE ImprovementLedger -------------------------
(***************************************************************************)
(* The improvement engine's run ledger (caie_p1.py): a file of numbered    *)
(* lines and, beside it, a sealed head that names the last line.  The task *)
(* board is whatever folding the lines gives.  A process appends by        *)
(* reading the whole file, writing one line, then replacing the head; the  *)
(* board's operations read before and after they append.  Nothing locks    *)
(* the file, and a process can die between any two of these steps.         *)
(*                                                                         *)
(* The file is kept here as its number of lines, whether each carries its  *)
(* own number (sound), whether the fold accepts them (legal), and the fold *)
(* itself (board, rejected).  Digests are left out: two writers that read  *)
(* the same file give their lines the same number, so the numbers differ   *)
(* from the positions wherever the digest chain would break.  A read takes *)
(* one step although the code reads lines and then the head: it succeeds   *)
(* or fails as a read at one instant in between would.                     *)
(***************************************************************************)
EXTENDS Integers

CONSTANTS
  Workers,      \* processes that opened the same ledger
  Events,       \* external event ids; the task id is a digest of the event id
  Verdict,      \* what the checks on an event's fields say of it, and of its task
  Budget,       \* max_remediation_attempts
  MaxStops      \* bound: how many times a process dies

ASSUME VerdictAssumption == Verdict \in [Events -> {"ACCEPT", "HOLD", "ESCALATE"}]
ASSUME BudgetAssumption == Budget \in Nat
ASSUME MaxStopsAssumption == MaxStops \in Nat

Terminal == {"PREPARE_PR", "HOLD", "REJECT", "ESCALATE"}
BoardStates == {"none", "QUEUED", "ACTIVE", "VERIFYING", "REMEDIATING", "SCORED",
                "CERTIFIED"} \cup Terminal

Transitions == [s \in BoardStates |->
  CASE s = "QUEUED"      -> {"ACTIVE", "HOLD", "ESCALATE"}
    [] s = "ACTIVE"      -> {"VERIFYING", "HOLD", "REJECT", "ESCALATE"}
    [] s = "VERIFYING"   -> {"REMEDIATING", "SCORED", "HOLD", "REJECT", "ESCALATE"}
    [] s = "REMEDIATING" -> {"VERIFYING", "HOLD", "REJECT", "ESCALATE"}
    [] s = "SCORED"      -> {"CERTIFIED", "REMEDIATING", "HOLD", "REJECT"}
    [] s = "CERTIFIED"   -> {"PREPARE_PR", "HOLD"}
    [] OTHER             -> {}]

Task == [state : BoardStates, attempts : 0..(Budget + 1)]
NoTask == [state |-> "none", attempts |-> 0]

\* What a line says.  Every kind the fold ignores is a NOTE: scores, exceptions,
\* acknowledged events, release candidates.
Record == [kind : {"TASK_CREATED", "TASK_STATE", "ATTEMPT_STARTED", "EVENT_REJECTED", "NOTE"},
           state : BoardStates, attempt : 0..(Budget + 1)]
Line(kind, state, attempt) == [kind |-> kind, state |-> state, attempt |-> attempt]
Note == Line("NOTE", "none", 0)

\* Inside an operation: before its append, and between the steps of the append.
Appending == {"check", "append", "line", "seal", "confirm"}
\* Between two appends of EventRouter.ingest or AutonomousRemediationRuntime.run.
Deciding == {"accept", "answer", "attempt", "execute", "excepted", "remediate",
             "validate", "failed", "score", "certify", "hold", "candidate", "prepare"}

Worker == [pc : {"closed", "touch", "new", "idle"} \cup Appending \cup Deciding,
           task : Events, rec : Record, then : {"idle"} \cup Deciding,
           seq : Nat, tries : 0..(Budget + 1)]

Absent == -1    \* no file yet, or no head yet

VARIABLES
  ledger,       \* the two files
  board,        \* what TaskBoard.rebuild folds the lines into
  rejected,     \* events with an EVENT_REJECTED line
  worker,
  ghost,        \* per event: executor calls, the attempt certified, ACCEPT answers
  stops         \* processes that died so far

vars == <<ledger, board, rejected, worker, ghost, stops>>

Init ==
  /\ ledger = [length |-> Absent, head |-> Absent, sound |-> TRUE, legal |-> TRUE]
  /\ board = [e \in Events |-> NoTask]
  /\ rejected = {}
  /\ \E e \in Events :
       worker = [w \in Workers |-> [pc |-> "closed", task |-> e, rec |-> Note,
                                    then |-> "idle", seq |-> 0, tries |-> 0]]
  /\ ghost = [e \in Events |-> [ran |-> 0, certified |-> 0, accepted |-> 0]]
  /\ stops = 0

-----------------------------------------------------------------------------
\* Reading

\* records() returns: every line in its place, and the head names the last one.
Readable == ledger.sound /\ ledger.head # Absent /\ ledger.head = ledger.length

\* rebuild() returns as well: the fold meets no illegal record.
Rebuilds == Readable /\ ledger.legal

Seen(e) == board[e].state # "none" \/ e \in rejected

\* Mutant: the fold believes every line.
FoldsAnything(k, rec) == TRUE

\* The record the fold meets next, after it has folded task k.
Folds(k, rec) ==
  CASE rec.kind = "TASK_CREATED"    -> k.state = "none"
    [] rec.kind = "TASK_STATE"      -> rec.state \in Transitions[k.state]
    [] rec.kind = "ATTEMPT_STARTED" -> k.state # "none" /\ rec.attempt = k.attempts + 1
    [] OTHER                        -> TRUE

Folded(k, rec) ==
  CASE rec.kind = "TASK_CREATED"    -> [k EXCEPT !.state = "QUEUED"]
    [] rec.kind = "TASK_STATE"      -> [k EXCEPT !.state = rec.state]
    [] rec.kind = "ATTEMPT_STARTED" -> [k EXCEPT !.attempts = rec.attempt]
    [] OTHER                        -> k

\* What create, transition and start_attempt require of the task they just read.
Allowed(k, rec) ==
  CASE rec.kind = "TASK_CREATED"    -> k.state = "none"
    [] rec.kind = "TASK_STATE"      -> rec.state \in Transitions[k.state]
    [] rec.kind = "ATTEMPT_STARTED" -> /\ k.state \in {"ACTIVE", "REMEDIATING"}
                                       /\ k.attempts + 1 <= Budget + 1
    [] OTHER                        -> TRUE

-----------------------------------------------------------------------------
\* The steps of an append, run by worker w; `then` is where its caller goes on.

Goto(w, pc) == worker' = [worker EXCEPT ![w].pc = pc]
Raise(w) == Goto(w, "idle")

\* Appends rec for task e: through the board (with its reads), or bare.
OnBoard(w, e, rec, then) ==
  worker' = [worker EXCEPT ![w].pc = "check", ![w].task = e, ![w].rec = rec, ![w].then = then]
Bare(w, e, rec, then) ==
  worker' = [worker EXCEPT ![w].pc = "append", ![w].task = e, ![w].rec = rec, ![w].then = then]

Move(w, state, then) == OnBoard(w, worker[w].task, Line("TASK_STATE", state, 0), then)
Remark(w, then) == Bare(w, worker[w].task, Note, then)

\* The board's read before the append.
Check(w) ==
  LET k == board[worker[w].task]
      rec == worker[w].rec
  IN  /\ worker[w].pc = "check"
      /\ IF Rebuilds /\ Allowed(k, rec)
           THEN worker' = [worker EXCEPT ![w].pc = "append",
                             ![w].rec = IF rec.kind = "ATTEMPT_STARTED"
                                          THEN [rec EXCEPT !.attempt = k.attempts + 1]
                                          ELSE rec]
           ELSE Raise(w)
      /\ UNCHANGED <<ledger, board, rejected, ghost, stops>>

\* The append's own read, which gives the line its number.
AppendRead(w) ==
  /\ worker[w].pc = "append"
  /\ IF Readable
       THEN worker' = [worker EXCEPT ![w].pc = "line", ![w].seq = ledger.length + 1]
       ELSE Raise(w)
  /\ UNCHANGED <<ledger, board, rejected, ghost, stops>>

AppendLine(w) ==
  LET e == worker[w].task
      rec == worker[w].rec
      inPlace == worker[w].seq = ledger.length + 1
      folds == Folds(board[e], rec)
  IN  /\ worker[w].pc = "line"
      /\ ledger' = [ledger EXCEPT !.length = @ + 1, !.sound = @ /\ inPlace,
                                  !.legal = @ /\ folds]
      /\ board' = IF ledger.sound /\ ledger.legal /\ inPlace /\ folds
                    THEN [board EXCEPT ![e] = Folded(@, rec)] ELSE board
      /\ rejected' = IF rec.kind = "EVENT_REJECTED" THEN rejected \cup {e} ELSE rejected
      /\ Goto(w, "seal")
      /\ UNCHANGED <<ghost, stops>>

\* The head is replaced; a bare append returns here.
Seal(w) ==
  /\ worker[w].pc = "seal"
  /\ ledger' = [ledger EXCEPT !.head = worker[w].seq]
  /\ Goto(w, IF worker[w].rec.kind \in {"NOTE", "EVENT_REJECTED"}
               THEN worker[w].then ELSE "confirm")
  /\ UNCHANGED <<board, rejected, ghost, stops>>

\* Mutant: the board trusts its append and does not read the ledger again.
ConfirmUnread(w) ==
  LET e == worker[w].task
      starts == worker[w].rec.kind = "ATTEMPT_STARTED"
  IN  /\ worker[w].pc = "confirm"
      /\ worker' = [worker EXCEPT ![w].pc = worker[w].then,
                      ![w].tries = IF starts THEN board[e].attempts ELSE @]
      /\ ghost' = IF starts THEN [ghost EXCEPT ![e].ran = @ + 1] ELSE ghost
      /\ UNCHANGED <<ledger, board, rejected, stops>>

\* Mutant: attempts are counted by the process, not by the board.
ConfirmCounted(w) ==
  LET e == worker[w].task
      starts == worker[w].rec.kind = "ATTEMPT_STARTED" /\ Rebuilds
  IN  /\ worker[w].pc = "confirm"
      /\ IF Rebuilds
           THEN worker' = [worker EXCEPT ![w].pc = worker[w].then,
                             ![w].tries = IF starts THEN @ + 1 ELSE @]
           ELSE Raise(w)
      /\ ghost' = IF starts THEN [ghost EXCEPT ![e].ran = @ + 1] ELSE ghost
      /\ UNCHANGED <<ledger, board, rejected, stops>>

\* The board's read after the append; start_attempt's caller calls the executor.
Confirm(w) ==
  LET e == worker[w].task
      starts == worker[w].rec.kind = "ATTEMPT_STARTED" /\ Rebuilds
  IN  /\ worker[w].pc = "confirm"
      /\ IF Rebuilds
           THEN worker' = [worker EXCEPT ![w].pc = worker[w].then,
                             ![w].tries = IF starts THEN board[e].attempts ELSE @]
           ELSE Raise(w)
      /\ ghost' = IF starts THEN [ghost EXCEPT ![e].ran = @ + 1] ELSE ghost
      /\ UNCHANGED <<ledger, board, rejected, stops>>

-----------------------------------------------------------------------------
\* PersistentRunLedger's constructor: a new file and its head, or a first read.

Open(w) ==
  /\ worker[w].pc = "closed"
  /\ \/ ledger.length = Absent /\ Goto(w, "touch")
     \/ Rebuilds /\ Goto(w, "idle")
  /\ UNCHANGED <<ledger, board, rejected, ghost, stops>>

Touch(w) ==
  /\ worker[w].pc = "touch"
  /\ ledger' = [ledger EXCEPT !.length = IF @ = Absent THEN 0 ELSE @]
  /\ Goto(w, "new")
  /\ UNCHANGED <<board, rejected, ghost, stops>>

\* What is left of the constructor is its first read, which is Open's.
SealNew(w) ==
  /\ worker[w].pc = "new"
  /\ ledger' = [ledger EXCEPT !.head = 0]
  /\ Goto(w, "closed")
  /\ UNCHANGED <<board, rejected, ghost, stops>>

-----------------------------------------------------------------------------
\* EventRouter.ingest

Ingest(w, e) ==
  /\ worker[w].pc = "idle"
  /\ Readable /\ ~Seen(e)
  /\ IF Verdict[e] = "ACCEPT"
       THEN OnBoard(w, e, Line("TASK_CREATED", "none", 0), "accept")
       ELSE Bare(w, e, Line("EVENT_REJECTED", "none", 0), "idle")
  /\ UNCHANGED <<ledger, board, rejected, ghost, stops>>

Accept(w) ==
  /\ worker[w].pc = "accept"
  /\ Remark(w, "answer")
  /\ UNCHANGED <<ledger, board, rejected, ghost, stops>>

\* ingest returns ACCEPT.
Answer(w) ==
  /\ worker[w].pc = "answer"
  /\ ghost' = [ghost EXCEPT ![worker[w].task].accepted = @ + 1]
  /\ Goto(w, "idle")
  /\ UNCHANGED <<ledger, board, rejected, stops>>

\* TaskBoard.create, called for an event no router has looked at.
Create(w, e) ==
  /\ worker[w].pc = "idle"
  /\ OnBoard(w, e, Line("TASK_CREATED", "none", 0), "idle")
  /\ UNCHANGED <<ledger, board, rejected, ghost, stops>>

\* TaskBoard.transition, called by somebody who stops a task.
Settle(w, e, state) ==
  /\ worker[w].pc = "idle"
  /\ board[e].state \notin {"none"} \cup Terminal
  /\ OnBoard(w, e, Line("TASK_STATE", state, 0), "idle")
  /\ UNCHANGED <<ledger, board, rejected, ghost, stops>>

-----------------------------------------------------------------------------
\* AutonomousRemediationRuntime.run.  Between two appends it only decides.

Decides(w, pc) ==
  /\ worker[w].pc = pc
  /\ UNCHANGED <<ledger, board, rejected, stops>>

\* Mutant: one remediation too many is promised.
RetryOnceMore(w) ==
  IF worker[w].tries <= Budget + 1 THEN Move(w, "REMEDIATING", "attempt")
  ELSE Move(w, "REJECT", "idle")

\* What a failed attempt leads to, while the budget lasts and after it.
RetryOrReject(w) ==
  IF worker[w].tries <= Budget THEN Move(w, "REMEDIATING", "attempt")
  ELSE Move(w, "REJECT", "idle")

Run(w, e) ==
  /\ Decides(w, "idle")
  /\ Rebuilds /\ board[e].state = "QUEUED"
  /\ OnBoard(w, e, Line("TASK_STATE", IF Verdict[e] = "ACCEPT" THEN "ACTIVE" ELSE Verdict[e], 0),
             IF Verdict[e] = "ACCEPT" THEN "attempt" ELSE "idle")
  /\ UNCHANGED ghost

Attempt(w) ==
  /\ Decides(w, "attempt")
  /\ OnBoard(w, worker[w].task, Line("ATTEMPT_STARTED", "none", 0), "execute")
  /\ UNCHANGED ghost

\* The executor raises, oversteps its bounds, or returns an attempt.
Execute(w) ==
  /\ Decides(w, "execute")
  /\ \/ Remark(w, "excepted")
     \/ \E state \in {"ESCALATE", "HOLD"} : Move(w, state, "idle")
     \/ IF ~Rebuilds THEN Raise(w)
          ELSE IF board[worker[w].task].state \in {"ACTIVE", "REMEDIATING"}
            THEN Move(w, "VERIFYING", "validate") ELSE Goto(w, "validate")
  /\ UNCHANGED ghost

\* The executor raised: the first attempt passes through VERIFYING on its way.
Excepted(w) ==
  LET state == board[worker[w].task].state
  IN  /\ Decides(w, "excepted")
      /\ CASE ~Rebuilds                  -> Raise(w)
           [] Rebuilds /\ worker[w].tries > Budget -> Move(w, "REJECT", "idle")
           [] OTHER -> CASE state = "ACTIVE"      -> Move(w, "VERIFYING", "remediate")
                         [] state = "REMEDIATING" -> Goto(w, "attempt")
                         [] OTHER                 -> Move(w, "HOLD", "idle")
      /\ UNCHANGED ghost

Remediate(w) ==
  /\ Decides(w, "remediate")
  /\ Move(w, "REMEDIATING", "attempt")
  /\ UNCHANGED ghost

\* The validator raises, is not the one the task names, fails the attempt or
\* passes it; a passed attempt is scored and the score recorded.
Validate(w) ==
  /\ Decides(w, "validate")
  /\ IF ~Rebuilds THEN Raise(w)
     ELSE \/ Remark(w, "failed")
          \/ Move(w, "HOLD", "idle")
          \/ RetryOrReject(w)
          \/ Remark(w, "score")
  /\ UNCHANGED ghost

Failed(w) ==
  /\ Decides(w, "failed")
  /\ RetryOrReject(w)
  /\ UNCHANGED ghost

Score(w) ==
  /\ Decides(w, "score")
  /\ RetryOrReject(w) \/ Move(w, "SCORED", "certify")
  /\ UNCHANGED ghost

\* Mutant: a refusal does not end the run.
CertifyRefused(w) ==
  /\ Decides(w, "certify")
  /\ IF Rebuilds THEN Move(w, "CERTIFIED", "candidate") ELSE Raise(w)
  /\ UNCHANGED ghost

\* The certifier raises, refuses, or certifies the attempt just scored.
Certify(w) ==
  /\ Decides(w, "certify")
  /\ \/ Rebuilds /\ Remark(w, "hold") /\ UNCHANGED ghost
     \/ Rebuilds /\ Move(w, "HOLD", "idle") /\ UNCHANGED ghost
     \/ /\ Rebuilds /\ Move(w, "CERTIFIED", "candidate")
        /\ ghost' = [ghost EXCEPT ![worker[w].task].certified = worker[w].tries]
     \/ ~Rebuilds /\ Raise(w) /\ UNCHANGED ghost

Hold(w) ==
  /\ Decides(w, "hold")
  /\ Move(w, "HOLD", "idle")
  /\ UNCHANGED ghost

\* The release candidate is noted, then the autonomous ceiling is reached.
Candidate(w) ==
  /\ Decides(w, "candidate")
  /\ Remark(w, "prepare")
  /\ UNCHANGED ghost

Prepare(w) ==
  /\ Decides(w, "prepare")
  /\ Move(w, "PREPARE_PR", "idle")
  /\ UNCHANGED ghost

-----------------------------------------------------------------------------
\* The process dies, or a write raises and its operation is given up: the line
\* may be torn, written without its head, or not there at all.
Stop(w) ==
  /\ worker[w].pc # "closed" /\ stops < MaxStops
  /\ stops' = stops + 1
  /\ Goto(w, "closed")
  /\ \/ UNCHANGED ledger
     \/ /\ worker[w].pc = "line"
        /\ ledger' = [ledger EXCEPT !.length = @ + 1, !.sound = FALSE]
  /\ UNCHANGED <<board, rejected, ghost>>

\* A call that is under way goes on.
Proceed(w) ==
  \/ Touch(w) \/ SealNew(w)
  \/ Check(w) \/ AppendRead(w) \/ AppendLine(w) \/ Seal(w) \/ Confirm(w)
  \/ Accept(w) \/ Answer(w)
  \/ Attempt(w) \/ Execute(w) \/ Excepted(w) \/ Remediate(w) \/ Validate(w)
  \/ Failed(w) \/ Score(w) \/ Certify(w) \/ Hold(w) \/ Candidate(w) \/ Prepare(w)

Next ==
  \E w \in Workers :
    \/ Open(w) \/ Proceed(w) \/ Stop(w)
    \/ \E e \in Events : \/ Ingest(w, e) \/ Create(w, e) \/ Run(w, e)
                          \/ \E state \in Terminal \ {"PREPARE_PR"} : Settle(w, e, state)

Spec == Init /\ [][Next]_vars

\* A call, once made, runs on; nobody has to make one, or to reopen the ledger.
FairSpec == Spec /\ \A w \in Workers : WF_vars(Proceed(w))

-----------------------------------------------------------------------------
\* Properties

TypeOK ==
  /\ ledger \in [length : Nat \cup {Absent}, head : Nat \cup {Absent},
                 sound : BOOLEAN, legal : BOOLEAN]
  /\ board \in [Events -> Task]
  /\ rejected \subseteq Events
  /\ worker \in [Workers -> Worker]
  /\ ghost \in [Events -> [ran : Nat, certified : 0..(Budget + 1), accepted : Nat]]
  /\ stops \in 0..MaxStops

\* However many processes share the file, and wherever they die, an attempt on
\* record is handed to the executor at most once, and none off the record: two
\* processes that start the same task cannot both read their append back.
AttemptsRunOnce == \A e \in Events : ghost[e].ran <= board[e].attempts

\* A task that reached PREPARE_PR had its last attempt certified, after that
\* attempt ran (run's order of gates, against any other process's appends).
PreparedWasCertified ==
  \A e \in Events : board[e].state = "PREPARE_PR" =>
    /\ ghost[e].certified = board[e].attempts
    /\ ghost[e].ran = board[e].attempts

\* An event is answered ACCEPT at most once, by whichever process it reaches,
\* before or after a restart (ingest's look for the event comes long before its
\* append; what decides is that the board is folded again after it).
AcceptedOnce == \A e \in Events : ghost[e].accepted <= 1

\* A task that is stopped stays stopped: a run that was under way cannot move
\* it on, it can only make the ledger unreadable.
StoppedStaysStopped ==
  [][\A e \in Events : board[e].state \in Terminal => UNCHANGED board[e].state]_vars

\* What an outsider sees of task k's state.
Stage(k) ==
  IF k.state = "none" THEN "absent"
  ELSE IF k.state = "QUEUED" THEN "waiting"
  ELSE IF k.state = "PREPARE_PR" THEN "prepared"
  ELSE IF k.state \in Terminal THEN "stopped"
  ELSE "working"

Governed == INSTANCE GovernedRun WITH
  run <- [e \in Events |->
            [stage |-> Stage(board[e]), started |-> board[e].attempts, ran |-> ghost[e].ran,
             cleared |-> ghost[e].certified, accepted |-> ghost[e].accepted]]

\* Processes that share an unlocked file, and die anywhere, serve every task as
\* GovernedRun would, one whole operation at a time: whatever they lose to each
\* other they lose by making the file unreadable, never by acting twice.
GovernsAsPromised == Governed!GSpec

\* Wherever a process died, once a task is on the board the ledger can be read
\* again: "Process restart can recover task state" (CAIE_P1.md:29).
RestartRecovers ==
  /\ \A w \in Workers : worker[w].pc \in {"closed", "idle"}
  /\ \E e \in Events : board[e].state # "none"
  => Rebuilds

\* With one process that stays up, a run that made its task ACTIVE ends it: the
\* loop of attempts is bounded and every way out of it is a terminal state.
RunsConclude ==
  \A e \in Events : board[e].state = "ACTIVE" ~> board[e].state \in Terminal

=============================================================================
