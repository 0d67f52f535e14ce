----------------------- MODULE FactoryReleaseProofs -----------------------
(***************************************************************************)
(* Theorems about FactoryRelease, for any number of candidates and gates,  *)
(* any set of policies and any attempt bound.                              *)
(*                                                                         *)
(* Every action but SetPolicy touches one candidate, and the inductive     *)
(* invariant speaks of one candidate at a time: of its release r, its      *)
(* validation job v and its promotion job p.  To what the runs check it    *)
(* adds what links a release's status to its decision (DecisionMatches),   *)
(* to its frozen gates (PassedGates) and, when it failed, to what failed   *)
(* it (Doomed).  Without DecisionMatches a rejected release that a         *)
(* validator certifies late could not be told from one that may still be   *)
(* approved.                                                               *)
(***************************************************************************)
EXTENDS FactoryRelease, TLAPS

RunMatches(r, v) ==
  /\ r.run = "awaiting_approval" <=> v.state = "succeeded"
  /\ r.run = "failed" => r.status = "failed"
  /\ r.run = "building" => r.status = "absent"

\* A decision is there from preparation on; a promotion job from approval on.
DecisionMatches(r, p) ==
  /\ r.status = "absent" <=> r.decision = "none"
  /\ r.decision = "approved" <=> p.state # "none"
  /\ r.decision = "rejected" => r.status \in {"failed", "certified"}

\* From certification on only gates that the database judges may be outstanding.
PassedGates(r) ==
  /\ r.status \in {"certified"} \cup Released =>
       r.frozen # {} /\ Outstanding(r) \subseteq ServerGates
  /\ r.status = "absent" => r.frozen = {}

\* What failed a release for good.
Doomed(r, v, p) ==
  r.decision = "rejected" \/ v.state = "failed" \/ p.state = "failed"

Sound(r, v, p) ==
  /\ r \in Release /\ v \in Job /\ p \in Job
  /\ StatusMatchesJobs(r.status, v.state, p.state)
  /\ RunMatches(r, v)
  /\ DecisionMatches(r, p)
  /\ PassedGates(r)
  /\ p.state # "none" => v.state = "succeeded"
  /\ r.status = "failed" => Doomed(r, v, p)

Inv ==
  /\ TypeOK
  /\ \A c \in Candidates : Sound(release[c], validation[c], promotion[c])

\* What one candidate's step from (r, v, p) to (s, w, q) keeps.
Keeps(r, v, p, s, w, q) ==
  /\ Sound(s, w, q)
  /\ Doomed(r, v, p) => Doomed(s, w, q)
  /\ r.decision = "rejected" => s.decision = "rejected"

DoomedAt(c) == Doomed(release[c], validation[c], promotion[c])

StaysDoomed == \A c \in Candidates : DoomedAt(c) => DoomedAt(c)'

-----------------------------------------------------------------------------
(* The job rows *)

\* The operators on a job row map rows to rows: attempts stay within bounds.
LEMMA JobsStayJobs ==
  ASSUME NEW j \in Job, NEW state \in JobStates
  PROVE  /\ NoJob \in Job /\ FreshJob \in Job /\ BlockedJob \in Job
         /\ Closed(j, state) \in Job
         /\ Closed(j, state).state = state
         /\ Claimable(j) => Claimed(j, state) \in Job
         /\ Claimed(j, state).state = state
<1>1. NoJob \in Job /\ FreshJob \in Job /\ BlockedJob \in Job
  BY MaxAttemptsAssumption DEF Job, NoJob, FreshJob, BlockedJob, JobStates
<1>2. Closed(j, state) \in Job /\ Closed(j, state).state = state
  BY DEF Job, Closed
<1>3. Claimable(j) => Claimed(j, state) \in Job
  <2>1. Claimable(j) => j.attempts + 1 \in 0..MaxAttempts
    BY MaxAttemptsAssumption DEF Job, Claimable
  <2> QED
    BY <2>1 DEF Job, Claimed
<1>4. Claimed(j, state).state = state
  BY DEF Job, Claimed
<1> QED
  BY <1>1, <1>2, <1>3, <1>4

\* A retried row is queued again exactly as long as attempts are left.
LEMMA RetriedJob ==
  ASSUME NEW j \in Job
  PROVE  /\ Retried(j) \in Job
         /\ j.attempts = MaxAttempts => Retried(j).state = "failed"
         /\ Retried(j).state = IF j.attempts < MaxAttempts THEN "queued" ELSE "failed"
         /\ j.attempts < MaxAttempts \/ j.attempts = MaxAttempts
<1>1. "queued" \in JobStates /\ "failed" \in JobStates
  BY DEF JobStates
<1>2. j.attempts < MaxAttempts \/ j.attempts = MaxAttempts
  BY MaxAttemptsAssumption DEF Job
<1>3. ~(j.attempts = MaxAttempts /\ j.attempts < MaxAttempts)
  BY MaxAttemptsAssumption DEF Job
<1> QED
  BY <1>1, <1>2, <1>3, JobsStayJobs DEF Retried

-----------------------------------------------------------------------------
(* One candidate's step *)

\* To show what a step keeps it is enough to look at the candidate it moves.
LEMMA OneMoves ==
  ASSUME Inv, policy' \in Policies, adapter' \in AdapterStates,
         line' \in Seq(Candidates),
         NEW c \in Candidates,
         NEW s \in Release, release' = [release EXCEPT ![c] = s],
         NEW w \in Job, validation' = [validation EXCEPT ![c] = w],
         NEW q \in Job, promotion' = [promotion EXCEPT ![c] = q],
         Keeps(release[c], validation[c], promotion[c], s, w, q)
  PROVE  Inv' /\ StaysDoomed /\ KeepsRejection
<1>1. TypeOK'
  BY DEF Inv, TypeOK
<1>2. ASSUME NEW d \in Candidates
      PROVE  /\ Sound(release[d], validation[d], promotion[d])'
             /\ DoomedAt(d) => DoomedAt(d)'
             /\ release[d].decision = "rejected" => release'[d].decision = "rejected"
  <2>1. CASE d = c
    <3>1. release'[d] = s /\ validation'[d] = w /\ promotion'[d] = q
      BY <2>1 DEF Inv, TypeOK
    <3> QED
      BY <2>1, <3>1 DEF Keeps, DoomedAt
  <2>2. CASE d # c
    <3>1. /\ release'[d] = release[d] /\ validation'[d] = validation[d]
          /\ promotion'[d] = promotion[d]
      BY <2>2 DEF Inv, TypeOK
    <3> QED
      BY <3>1 DEF Inv, DoomedAt
  <2> QED
    BY <2>1, <2>2
<1>3. ASSUME NEW d \in Candidates, release'[d].decision = "rejected"
      PROVE  release'[d].status \notin Released
  BY <1>2, <1>3 DEF Sound, DecisionMatches, Released
<1> QED
  BY <1>1, <1>2, <1>3 DEF Inv, StaysDoomed, KeepsRejection

LEMMA InitInv == Init => Inv
<1> SUFFICES ASSUME Init PROVE Inv
  OBVIOUS
<1>1. NoRelease \in Release /\ NoJob \in Job
  BY MaxAttemptsAssumption DEF NoRelease, Release, Runs, Statuses, Decisions,
     GateStatuses, NoJob, Job, JobStates
<1>2. TypeOK
  BY <1>1 DEF Init, TypeOK
<1>3. Sound(NoRelease, NoJob, NoJob)
  BY <1>1 DEF Sound, StatusMatchesJobs, RunMatches, DecisionMatches, PassedGates,
     NoRelease, NoJob, Released
<1> QED
  BY <1>2, <1>3 DEF Init, Inv

-----------------------------------------------------------------------------
(* The actions *)

LEMMA PrepareKeeps ==
  ASSUME Inv, NEW c \in Candidates, Prepare(c)
  PROVE  Inv' /\ StaysDoomed /\ KeepsRejection
<1> DEFINE s == [NoRelease EXCEPT !.run = "validating", !.status = "planned",
                   !.decision = "pending", !.frozen = policy, !.gates = InitialGates]
<1>1. /\ s \in Release
      /\ s.run = "validating" /\ s.status = "planned" /\ s.decision = "pending"
  <2>1. InitialGates \in [Gates -> GateStatuses]
    BY DEF InitialGates, GateStatuses
  <2>2. policy \in SUBSET Gates
    BY GatesAssumption DEF Inv, TypeOK
  <2> QED
    BY <2>1, <2>2 DEF NoRelease, Release, Runs, Statuses, Decisions
<1>2. /\ release' = [release EXCEPT ![c] = s]
      /\ validation' = [validation EXCEPT ![c] = FreshJob]
      /\ promotion' = [promotion EXCEPT ![c] = promotion[c]]
  BY DEF Prepare, Inv, TypeOK
<1>3. FreshJob \in Job /\ FreshJob.state = "queued"
  BY MaxAttemptsAssumption DEF FreshJob, Job, JobStates
<1>4. /\ release[c].status = "absent" /\ UNCHANGED <<policy, adapter, line>>
      /\ Sound(release[c], validation[c], promotion[c])
  BY DEF Prepare, Inv
<1>5. Keeps(release[c], validation[c], promotion[c], s, FreshJob, promotion[c])
  BY <1>1, <1>3, <1>4 DEF Keeps, Sound, StatusMatchesJobs, RunMatches,
     DecisionMatches, PassedGates, Doomed, Released
<1> HIDE DEF s
<1> QED
  BY <1>1, <1>2, <1>3, <1>4, <1>5, OneMoves DEF Inv, TypeOK, Sound

\* Attest and Expire touch nothing but a gate or the artifact; a passed gate
\* never turns a frozen one outstanding.
LEMMA AttestKeeps ==
  ASSUME Inv, NEW c \in Candidates, Attest(c)
  PROVE  Inv' /\ StaysDoomed /\ KeepsRejection
<1> DEFINE r == release[c]
           s == [r EXCEPT !.gates = [@ EXCEPT ![AttestationGate] = "pass"]]
<1>1. r \in Release /\ Sound(r, validation[c], promotion[c])
  BY DEF Inv, TypeOK
<1>2. /\ s \in Release /\ s.run = r.run /\ s.status = r.status
      /\ s.decision = r.decision /\ s.frozen = r.frozen
      /\ s.gates = [r.gates EXCEPT ![AttestationGate] = "pass"]
  BY <1>1, GatesAssumption DEF Release, GateStatuses
<1>3. Outstanding(s) \subseteq Outstanding(r)
  BY <1>1, <1>2 DEF Outstanding, Release
<1>4. /\ release' = [release EXCEPT ![c] = s]
      /\ validation' = [validation EXCEPT ![c] = validation[c]]
      /\ promotion' = [promotion EXCEPT ![c] = promotion[c]]
      /\ policy' \in Policies /\ adapter' \in AdapterStates /\ line' \in Seq(Candidates)
      /\ validation[c] \in Job /\ promotion[c] \in Job
  BY DEF Attest, Inv, TypeOK
<1> HIDE DEF s
<1>5. Keeps(r, validation[c], promotion[c], s, validation[c], promotion[c])
  BY <1>1, <1>2, <1>3 DEF Keeps, Sound, StatusMatchesJobs, RunMatches,
     DecisionMatches, PassedGates, Doomed, Released
<1> QED
  BY <1>1, <1>2, <1>4, <1>5, OneMoves

\* Judging changes nothing of a release but its gates.
LEMMA JudgedRelease ==
  ASSUME NEW r \in Release, NEW passed, NEW failed
  PROVE  LET s == Judged(r, passed, failed)
         IN /\ s \in Release /\ s.run = r.run /\ s.status = r.status
            /\ s.decision = r.decision /\ s.frozen = r.frozen
            /\ \A g \in Gates \ (passed \cup failed) : s.gates[g] = r.gates[g]
BY DEF Judged, Release, GateStatuses

\* The database takes back no gates but its own.
LEMMA EvaluateKeeps ==
  ASSUME Inv, NEW c \in Candidates, EvaluateServerGates(c)
  PROVE  Inv' /\ StaysDoomed /\ KeepsRejection
<1> DEFINE r == release[c]
           judged == r.frozen \cap ServerGates
<1>1. r \in Release /\ Sound(r, validation[c], promotion[c])
  BY DEF Inv, TypeOK
<1>2. PICK passed \in SUBSET judged :
        release' = [release EXCEPT ![c] = Judged(@, passed, judged \ passed)]
  BY DEF EvaluateServerGates
<1> DEFINE s == Judged(r, passed, judged \ passed)
<1>3. /\ s \in Release /\ s.run = r.run /\ s.status = r.status
      /\ s.decision = r.decision /\ s.frozen = r.frozen
      /\ \A g \in Gates \ judged : s.gates[g] = r.gates[g]
  BY <1>1, JudgedRelease
<1>4. /\ release' = [release EXCEPT ![c] = s]
      /\ validation' = [validation EXCEPT ![c] = validation[c]]
      /\ promotion' = [promotion EXCEPT ![c] = promotion[c]]
      /\ policy' \in Policies /\ adapter' \in AdapterStates /\ line' \in Seq(Candidates)
      /\ validation[c] \in Job /\ promotion[c] \in Job
  BY <1>2 DEF EvaluateServerGates, Inv, TypeOK
<1>5. Outstanding(s) \subseteq Outstanding(r) \cup ServerGates
  BY <1>1, <1>3 DEF Outstanding, Release
<1> HIDE DEF s
<1>6. Keeps(r, validation[c], promotion[c], s, validation[c], promotion[c])
  BY <1>1, <1>3, <1>5 DEF Keeps, Sound, StatusMatchesJobs, RunMatches,
     DecisionMatches, PassedGates, Doomed, Released
<1> QED
  BY <1>3, <1>4, <1>6, OneMoves

LEMMA ExpireKeeps ==
  ASSUME Inv, NEW c \in Candidates, Expire(c)
  PROVE  Inv' /\ StaysDoomed /\ KeepsRejection
<1> DEFINE r == release[c]
           s == [r EXCEPT !.artifact = "expired"]
<1>1. r \in Release /\ Sound(r, validation[c], promotion[c])
  BY DEF Inv, TypeOK
<1>2. /\ s \in Release /\ s.run = r.run /\ s.status = r.status
      /\ s.decision = r.decision /\ s.frozen = r.frozen /\ s.gates = r.gates
  BY <1>1 DEF Release
<1>3. /\ release' = [release EXCEPT ![c] = s]
      /\ validation' = [validation EXCEPT ![c] = validation[c]]
      /\ promotion' = [promotion EXCEPT ![c] = promotion[c]]
      /\ policy' \in Policies /\ adapter' \in AdapterStates /\ line' \in Seq(Candidates)
      /\ validation[c] \in Job /\ promotion[c] \in Job
  BY DEF Expire, Inv, TypeOK
<1> HIDE DEF s
<1>4. Keeps(r, validation[c], promotion[c], s, validation[c], promotion[c])
  BY <1>1, <1>2 DEF Keeps, Sound, StatusMatchesJobs, RunMatches,
     DecisionMatches, PassedGates, Outstanding, Doomed, Released
<1> QED
  BY <1>1, <1>2, <1>3, <1>4, OneMoves

\* Whatever a claim or a lapse makes of an open validation job, the release it
\* validates is as it was: planned, or failed by something else.
LEMMA ValidationMoves ==
  ASSUME Inv, NEW c \in Candidates, NEW w \in Job,
         validation' = [validation EXCEPT ![c] = w],
         UNCHANGED <<policy, adapter, release, promotion, line>>,
         validation[c].state \in {"queued", "leased", "lapsed"},
         w.state \in {"leased", "lapsed", "failed"},
         w.state = "failed" => release[c].status # "planned"
  PROVE  Inv' /\ StaysDoomed /\ KeepsRejection
<1>1. /\ release[c] \in Release /\ promotion[c] \in Job
      /\ release' = [release EXCEPT ![c] = release[c]]
      /\ promotion' = [promotion EXCEPT ![c] = promotion[c]]
      /\ policy' \in Policies /\ adapter' \in AdapterStates /\ line' \in Seq(Candidates)
  BY DEF Inv, TypeOK
<1>2. Keeps(release[c], validation[c], promotion[c], release[c], w, promotion[c])
  BY DEF Inv, Keeps, Sound, StatusMatchesJobs, RunMatches, DecisionMatches,
     PassedGates, Doomed, Released
<1> QED
  BY <1>1, <1>2, OneMoves

LEMMA ClaimValidationKeeps ==
  ASSUME Inv, NEW c \in Candidates, ClaimValidation(c)
  PROVE  Inv' /\ StaysDoomed /\ KeepsRejection
<1>1. PICK state \in {"leased", "failed"} :
        /\ validation' = [validation EXCEPT ![c] = Claimed(validation[c], state)]
        /\ state = "failed" => ~(/\ release[c].status = "planned"
                                 /\ release[c].run = "validating")
  BY DEF ClaimValidation, Inv, TypeOK
<1>2. validation[c] \in Job /\ state \in JobStates
  BY DEF Inv, TypeOK, JobStates
<1>3. Claimable(validation[c]) /\ validation[c].state \in {"queued", "lapsed"}
  BY DEF ClaimValidation, Claimable
<1>4. /\ Claimed(validation[c], state) \in Job
      /\ Claimed(validation[c], state).state = state
  BY <1>2, <1>3, JobsStayJobs
<1>5. release[c].status = "planned" => release[c].run = "validating"
  BY DEF Inv, Sound, RunMatches, StatusMatchesJobs, Release, Runs
<1>6. UNCHANGED <<policy, adapter, release, promotion, line>>
  BY DEF ClaimValidation
<1> QED
  BY <1>1, <1>3, <1>4, <1>5, <1>6, ValidationMoves

LEMMA ValidationLapsesKeeps ==
  ASSUME Inv, NEW c \in Candidates, ValidationLapses(c)
  PROVE  Inv' /\ StaysDoomed /\ KeepsRejection
<1> DEFINE w == Closed(validation[c], "lapsed")
<1>1. w \in Job /\ w.state = "lapsed"
  BY JobsStayJobs DEF Inv, TypeOK, JobStates
<1>2. /\ validation' = [validation EXCEPT ![c] = w]
      /\ validation[c].state = "leased"
      /\ UNCHANGED <<policy, adapter, release, promotion, line>>
  BY DEF ValidationLapses, Inv, TypeOK
<1> HIDE DEF w
<1> QED
  BY <1>1, <1>2, ValidationMoves

\* Another attempt for the validation of a release r that differs from the
\* candidate's in its gates at most, or its end.
LEMMA RetryKeeps ==
  ASSUME Inv, NEW c \in Candidates, NEW r \in Release,
         r.run = release[c].run, r.status = release[c].status,
         r.decision = release[c].decision,
         HoldsToken(validation[c], validation[c].attempts), RetryOrFail(c, r),
         UNCHANGED <<policy, adapter, promotion, line>>
  PROVE  Inv' /\ StaysDoomed /\ KeepsRejection
<1> DEFINE w == Retried(validation[c])
           s == IF validation[c].attempts = MaxAttempts THEN FailedValidation(r)
                ELSE IF r.run = "failed" THEN r ELSE [r EXCEPT !.run = "validating"]
<1>1. /\ w \in Job /\ w.state \in {"queued", "failed"}
      /\ validation[c].attempts = MaxAttempts => w.state = "failed"
      /\ w.state = "failed" => validation[c].attempts = MaxAttempts
  BY RetriedJob DEF Inv, TypeOK
<1>2. /\ s \in Release /\ s.decision = r.decision
      /\ s.run \in {"failed", "validating"}
      /\ w.state = "failed" => s.status = "failed"
      /\ w.state # "failed" => s.status = r.status
      /\ s.run = "failed" => s.status = "failed" \/ r.run = "failed"
  BY <1>1 DEF FailedValidation, Release, Runs, Statuses
<1>3. /\ release' = [release EXCEPT ![c] = s]
      /\ validation' = [validation EXCEPT ![c] = w]
      /\ promotion' = [promotion EXCEPT ![c] = promotion[c]]
      /\ policy' \in Policies /\ adapter' \in AdapterStates /\ line' \in Seq(Candidates) /\ promotion[c] \in Job
  BY DEF RetryOrFail, Inv, TypeOK
<1>4. /\ validation[c].state = "leased"
      /\ Sound(release[c], validation[c], promotion[c])
  BY DEF HoldsToken, Inv
<1> HIDE DEF w, s
<1>5. Keeps(release[c], validation[c], promotion[c], s, w, promotion[c])
  BY <1>1, <1>2, <1>4 DEF Keeps, Sound, StatusMatchesJobs, RunMatches,
     DecisionMatches, PassedGates, Doomed, Released
<1> QED
  BY <1>1, <1>2, <1>3, <1>5, OneMoves

\* complete_vrs_release_validation_job: failed, certified or waiting gates.
LEMMA ReportGatesKeeps ==
  ASSUME Inv, NEW c \in Candidates, NEW k \in Tokens, ReportGates(c, k)
  PROVE  Inv' /\ StaysDoomed /\ KeepsRejection
<1>1. PICK passed, failed :
        LET r == Judged(release[c], passed, failed)
        IN FailGates(c, r) \/ Certify(c, r) \/ AwaitGates(c, r)
  BY DEF ReportGates
<1> DEFINE r == Judged(release[c], passed, failed)
<1>2. /\ r \in Release /\ r.run = release[c].run /\ r.status = release[c].status
      /\ r.decision = release[c].decision
  BY JudgedRelease DEF Inv, TypeOK
<1>3. FailGates(c, r) \/ Certify(c, r) \/ AwaitGates(c, r)
  BY <1>1
<1> HIDE DEF r
<1>4. /\ HoldsToken(validation[c], k) /\ validation[c].state = "leased"
      /\ HoldsToken(validation[c], validation[c].attempts)
      /\ UNCHANGED <<policy, adapter, promotion, line>>
  BY DEF ReportGates, HoldsToken
<1>5. /\ Sound(release[c], validation[c], promotion[c])
      /\ promotion[c] \in Job /\ validation[c] \in Job
      /\ policy' \in Policies /\ adapter' \in AdapterStates /\ line' \in Seq(Candidates)
      /\ promotion' = [promotion EXCEPT ![c] = promotion[c]]
  BY <1>4 DEF Inv, TypeOK
<1>6. CASE FailGates(c, r)
  <2> DEFINE w == Closed(validation[c], "failed")
             s == FailedValidation(r)
  <2>1. w \in Job /\ w.state = "failed"
    BY <1>5, JobsStayJobs DEF JobStates
  <2>2. /\ s \in Release /\ s.run = "failed" /\ s.status = "failed"
        /\ s.decision = r.decision
    BY <1>2 DEF FailedValidation, Release, Runs, Statuses
  <2>3. /\ release' = [release EXCEPT ![c] = s]
        /\ validation' = [validation EXCEPT ![c] = w]
    BY <1>6 DEF FailGates, Inv, TypeOK
  <2> HIDE DEF w, s
  <2>4. Keeps(release[c], validation[c], promotion[c], s, w, promotion[c])
    BY <1>2, <1>4, <1>5, <2>1, <2>2 DEF Keeps, Sound, StatusMatchesJobs, RunMatches,
       DecisionMatches, PassedGates, Doomed, Released
  <2> QED
    BY <1>5, <2>1, <2>2, <2>3, <2>4, OneMoves
<1>7. CASE Certify(c, r)
  <2> DEFINE w == Closed(validation[c], "succeeded")
             s == [r EXCEPT !.status = "certified", !.run = "awaiting_approval"]
  <2>1. w \in Job /\ w.state = "succeeded"
    BY <1>5, JobsStayJobs DEF JobStates
  <2>2. /\ s \in Release /\ s.run = "awaiting_approval" /\ s.status = "certified"
        /\ s.decision = r.decision /\ s.frozen = r.frozen /\ s.gates = r.gates
    BY <1>2 DEF Release, Runs, Statuses
  <2>3. /\ release' = [release EXCEPT ![c] = s]
        /\ validation' = [validation EXCEPT ![c] = w]
        /\ r.frozen # {} /\ Outstanding(r) = {}
    BY <1>7 DEF Certify, Guarded, Inv, TypeOK
  <2>4. s.frozen # {} /\ Outstanding(s) = {}
    BY <2>2, <2>3 DEF Outstanding
  <2> HIDE DEF w, s
  <2>5. Keeps(release[c], validation[c], promotion[c], s, w, promotion[c])
    BY <1>2, <1>4, <1>5, <2>1, <2>2, <2>4 DEF Keeps, Sound, StatusMatchesJobs,
       RunMatches, DecisionMatches, PassedGates, Doomed, Released
  <2> QED
    BY <1>5, <2>1, <2>2, <2>3, <2>5, OneMoves
<1>8. CASE AwaitGates(c, r)
  BY <1>2, <1>4, <1>8, RetryKeeps DEF AwaitGates
<1> QED
  BY <1>3, <1>6, <1>7, <1>8

LEMMA ReportFailureKeeps ==
  ASSUME Inv, NEW c \in Candidates, NEW k \in Tokens, ReportFailure(c, k)
  PROVE  Inv' /\ StaysDoomed /\ KeepsRejection
BY RetryKeeps DEF ReportFailure, HoldsToken, Inv, TypeOK

\* Approval needs a release that is certified, hence not promoted before, and
\* undecided, hence not rejected.
LEMMA ApproveKeeps ==
  ASSUME Inv, NEW c \in Candidates, Approve(c)
  PROVE  Inv' /\ StaysDoomed /\ KeepsRejection
<1> DEFINE r == release[c]
           s == [r EXCEPT !.decision = "approved", !.status = "approved"]
<1>1. r \in Release /\ Sound(r, validation[c], promotion[c])
  BY DEF Inv, TypeOK
<1>2. r.status = "certified" /\ r.decision = "pending"
  BY DEF Approve, CanApprove
<1>3. /\ s \in Release /\ s.run = r.run /\ s.status = "approved"
      /\ s.decision = "approved" /\ s.frozen = r.frozen /\ s.gates = r.gates
  BY <1>1 DEF Release, Statuses, Decisions
<1>4. /\ release' = [release EXCEPT ![c] = s]
      /\ validation' = [validation EXCEPT ![c] = validation[c]]
      /\ policy' \in Policies /\ adapter' \in AdapterStates /\ validation[c] \in Job
  BY DEF Approve, Inv, TypeOK
<1>5. PICK q \in {FreshJob, BlockedJob} : promotion' = [promotion EXCEPT ![c] = q]
  BY DEF Approve
<1>6. q \in Job /\ q.state \in {"queued", "blocked"}
  BY MaxAttemptsAssumption DEF FreshJob, BlockedJob, Job, JobStates
<1>7. line' \in Seq(Candidates)
  BY DEF Approve, Inv, TypeOK
<1>8. s.frozen # {} /\ Outstanding(s) \subseteq ServerGates
  BY <1>1, <1>2, <1>3 DEF Sound, PassedGates, Outstanding
<1> HIDE DEF s
<1>9. Keeps(r, validation[c], promotion[c], s, validation[c], q)
  BY <1>1, <1>2, <1>3, <1>6, <1>8 DEF Keeps, Sound, StatusMatchesJobs, RunMatches,
     DecisionMatches, PassedGates, Doomed, Released
<1> QED
  BY <1>3, <1>4, <1>5, <1>6, <1>7, <1>9, OneMoves

LEMMA RejectKeeps ==
  ASSUME Inv, NEW c \in Candidates, Reject(c)
  PROVE  Inv' /\ StaysDoomed /\ KeepsRejection
<1> DEFINE r == release[c]
           s == [r EXCEPT !.decision = "rejected", !.status = "failed"]
<1>1. r \in Release /\ Sound(r, validation[c], promotion[c])
  BY DEF Inv, TypeOK
<1>2. r.status \in {"planned", "certified"} /\ r.decision = "pending"
  BY DEF Reject
<1>3. /\ s \in Release /\ s.run = r.run /\ s.status = "failed"
      /\ s.decision = "rejected"
  BY <1>1 DEF Release, Statuses, Decisions
<1>4. /\ release' = [release EXCEPT ![c] = s]
      /\ validation' = [validation EXCEPT ![c] = validation[c]]
      /\ promotion' = [promotion EXCEPT ![c] = promotion[c]]
      /\ policy' \in Policies /\ adapter' \in AdapterStates /\ line' \in Seq(Candidates)
      /\ validation[c] \in Job /\ promotion[c] \in Job
  BY DEF Reject, Inv, TypeOK
<1> HIDE DEF s
<1>5. Keeps(r, validation[c], promotion[c], s, validation[c], promotion[c])
  BY <1>1, <1>2, <1>3 DEF Keeps, Sound, StatusMatchesJobs, RunMatches,
     DecisionMatches, PassedGates, Doomed, Released
<1> QED
  BY <1>3, <1>4, <1>5, OneMoves

\* What a promotion's claim, lapse and two answers share: the promotion job and
\* the status move together along the road of an approved release.
LEMMA PromotionMoves ==
  ASSUME Inv, NEW c \in Candidates, NEW q \in Job,
         NEW st \in {"approved", "deploying", "deployed", "failed"},
         release' = [release EXCEPT ![c] = [@ EXCEPT !.status = st]],
         promotion' = [promotion EXCEPT ![c] = q],
         UNCHANGED <<policy, adapter, validation, line>>,
         release[c].status \in {"approved", "deploying"},
         promotion[c].state \in {"queued", "leased", "lapsed"},
         st = "approved" <=> q.state = "queued",
         st = "deploying" <=> q.state \in {"leased", "lapsed"},
         st = "deployed" <=> q.state = "succeeded",
         st = "failed" <=> q.state = "failed"
  PROVE  Inv' /\ StaysDoomed /\ KeepsRejection
<1> DEFINE r == release[c]
           s == [r EXCEPT !.status = st]
<1>1. r \in Release /\ Sound(r, validation[c], promotion[c])
  BY DEF Inv, TypeOK
<1>2. /\ s \in Release /\ s.run = r.run /\ s.status = st
      /\ s.decision = r.decision /\ s.frozen = r.frozen /\ s.gates = r.gates
  BY <1>1 DEF Release, Statuses
<1>3. /\ release' = [release EXCEPT ![c] = s]
      /\ validation' = [validation EXCEPT ![c] = validation[c]]
      /\ policy' \in Policies /\ adapter' \in AdapterStates /\ line' \in Seq(Candidates) /\ validation[c] \in Job
  BY DEF Inv, TypeOK
<1>4. q.state \in {"queued", "leased", "lapsed", "succeeded", "failed"}
  OBVIOUS
<1> HIDE DEF s
<1>5. Keeps(r, validation[c], promotion[c], s, validation[c], q)
  <2>1. validation[c].state = "succeeded" /\ r.decision = "approved"
    BY <1>1 DEF Sound, StatusMatchesJobs, DecisionMatches, Released
  <2>2. r.frozen # {} /\ Outstanding(s) \subseteq ServerGates
    BY <1>1, <1>2 DEF Sound, PassedGates, Outstanding, Released
  <2>3. Sound(s, validation[c], q)
    BY <1>1, <1>2, <1>4, <2>1, <2>2 DEF Sound, StatusMatchesJobs, RunMatches,
       DecisionMatches, PassedGates, Doomed, Released
  <2> QED
    BY <1>2, <2>1, <2>3 DEF Keeps, Doomed
<1> QED
  BY <1>2, <1>3, <1>5, OneMoves

\* A leased promotion is that of a deploying release.
LEMMA AnsweredPromotion ==
  ASSUME Inv, NEW c \in Candidates, promotion[c].state \in {"leased", "lapsed"}
  PROVE  release[c].status = "deploying" /\ promotion[c] \in Job
BY DEF Inv, TypeOK, Sound, StatusMatchesJobs

LEMMA ClaimPromotionKeeps ==
  ASSUME Inv, NEW c \in Candidates, ClaimPromotion(c)
  PROVE  Inv' /\ StaysDoomed /\ KeepsRejection
<1> DEFINE q == Claimed(promotion[c], "leased")
<1>1. promotion[c] \in Job /\ Claimable(promotion[c])
  BY DEF ClaimPromotion, First, Selectable, Inv, TypeOK
<1>2. q \in Job /\ q.state = "leased"
  BY <1>1, JobsStayJobs DEF JobStates
<1>3. /\ promotion' = [promotion EXCEPT ![c] = q]
      /\ release' = [release EXCEPT ![c] = [@ EXCEPT !.status = "deploying"]]
      /\ release[c].status = "approved"
      /\ UNCHANGED <<policy, adapter, validation, line>>
  BY DEF ClaimPromotion, Inv, TypeOK
<1>4. promotion[c].state \in {"queued", "leased", "lapsed"}
  BY <1>1 DEF Claimable
<1> HIDE DEF q
<1> QED
  BY <1>2, <1>3, <1>4, PromotionMoves

LEMMA PromotionLapsesKeeps ==
  ASSUME Inv, NEW c \in Candidates, PromotionLapses(c)
  PROVE  Inv' /\ StaysDoomed /\ KeepsRejection
<1> DEFINE q == Closed(promotion[c], "lapsed")
<1>1. promotion[c].state = "leased"
  BY DEF PromotionLapses
<1>2. release[c].status = "deploying" /\ promotion[c] \in Job
  BY <1>1, AnsweredPromotion
<1>3. q \in Job /\ q.state = "lapsed"
  BY <1>2, JobsStayJobs DEF JobStates
<1>4. /\ promotion' = [promotion EXCEPT ![c] = q]
      /\ release' = [release EXCEPT ![c] = [@ EXCEPT !.status = "deploying"]]
      /\ UNCHANGED <<policy, adapter, validation, line>>
  BY <1>2 DEF PromotionLapses, Inv, TypeOK, Release
<1> HIDE DEF q
<1> QED
  BY <1>1, <1>2, <1>3, <1>4, PromotionMoves

LEMMA PromotedKeeps ==
  ASSUME Inv, NEW c \in Candidates, NEW k \in Tokens, Promoted(c, k)
  PROVE  Inv' /\ StaysDoomed /\ KeepsRejection
<1> DEFINE q == Closed(promotion[c], "succeeded")
<1>1. promotion[c].state = "leased"
  BY DEF Promoted, HoldsToken
<1>2. release[c].status = "deploying" /\ promotion[c] \in Job
  BY <1>1, AnsweredPromotion
<1>3. q \in Job /\ q.state = "succeeded"
  BY <1>2, JobsStayJobs DEF JobStates
<1>4. /\ promotion' = [promotion EXCEPT ![c] = q]
      /\ release' = [release EXCEPT ![c] = [@ EXCEPT !.status = "deployed"]]
      /\ UNCHANGED <<policy, adapter, validation, line>>
  BY DEF Promoted, Inv, TypeOK
<1> HIDE DEF q
<1> QED
  BY <1>1, <1>2, <1>3, <1>4, PromotionMoves

LEMMA PromotionFailedKeeps ==
  ASSUME Inv, NEW c \in Candidates, NEW k \in Tokens, PromotionFailed(c, k)
  PROVE  Inv' /\ StaysDoomed /\ KeepsRejection
<1> DEFINE q == Retried(promotion[c])
           st == AfterFailure(promotion[c])
<1>1. promotion[c].state = "leased"
  BY DEF PromotionFailed, HoldsToken
<1>2. release[c].status = "deploying" /\ promotion[c] \in Job
  BY <1>1, AnsweredPromotion
<1>3. /\ q \in Job /\ st \in {"approved", "failed"}
      /\ q.state \in {"queued", "failed"}
      /\ st = "approved" <=> q.state = "queued"
  BY <1>2, RetriedJob DEF AfterFailure
<1>4. /\ promotion' = [promotion EXCEPT ![c] = q]
      /\ release' = [release EXCEPT ![c] = [@ EXCEPT !.status = st]]
      /\ UNCHANGED <<policy, adapter, validation, line>>
  BY DEF PromotionFailed, Inv, TypeOK
<1> HIDE DEF q, st
<1> QED
  BY <1>1, <1>2, <1>3, <1>4, PromotionMoves

-----------------------------------------------------------------------------
(* The steps together *)

LEMMA IdleKeeps ==
  ASSUME Inv, UNCHANGED <<release, validation, promotion, line>>,
         policy' \in Policies, adapter' \in AdapterStates
  PROVE  Inv' /\ StaysDoomed /\ KeepsRejection
<1>1. Inv'
  BY DEF Inv, TypeOK
<1>2. KeepsRejection
  BY DEF Inv, Sound, DecisionMatches, Released, KeepsRejection
<1> QED
  BY <1>1, <1>2 DEF StaysDoomed, DoomedAt

LEMMA StepKeeps == Inv /\ [Next]_vars => Inv' /\ StaysDoomed /\ KeepsRejection
<1> SUFFICES ASSUME Inv, [Next]_vars PROVE Inv' /\ StaysDoomed /\ KeepsRejection
  OBVIOUS
<1>1. CASE SetPolicy \/ SetAdapter
  BY <1>1, IdleKeeps DEF SetPolicy, SetAdapter, Inv, TypeOK
<1>2. CASE UNCHANGED vars
  BY <1>2, IdleKeeps DEF vars, Inv, TypeOK
<1>3. ASSUME NEW c \in Candidates,
             \/ Prepare(c) \/ Attest(c) \/ Expire(c) \/ EvaluateServerGates(c)
             \/ Approve(c) \/ Reject(c)
      PROVE  Inv' /\ StaysDoomed /\ KeepsRejection
  BY <1>3, PrepareKeeps, AttestKeeps, ExpireKeeps, EvaluateKeeps, ApproveKeeps, RejectKeeps
<1>4. ASSUME NEW c \in Candidates,
             ClaimValidation(c) \/ Validate(c) \/ ValidationLapses(c)
      PROVE  Inv' /\ StaysDoomed /\ KeepsRejection
  BY <1>4, ClaimValidationKeeps, ReportGatesKeeps, ReportFailureKeeps,
     ValidationLapsesKeeps DEF Validate
<1>5. ASSUME NEW c \in Candidates,
             ClaimPromotion(c) \/ Promote(c) \/ PromotionLapses(c)
      PROVE  Inv' /\ StaysDoomed /\ KeepsRejection
  BY <1>5, ClaimPromotionKeeps, PromotedKeeps, PromotionFailedKeeps,
     PromotionLapsesKeeps DEF Promote
<1> QED
  BY <1>1, <1>2, <1>3, <1>4, <1>5 DEF Next

LEMMA Invariance == Spec => []Inv
<1>1. Inv /\ [Next]_vars => Inv'
  BY StepKeeps
<1> QED
  BY InitInv, <1>1, PTL DEF Spec

-----------------------------------------------------------------------------
(* The theorems *)

\* Every row stays of its declared type; no job is attempted more often than
\* its max_attempts allow (the claims' `attempts < max_attempts`).
THEOREM ReleaseTypesHold == Spec => []TypeOK
<1>1. Inv => TypeOK
  BY DEF Inv
<1> QED
  BY Invariance, <1>1, PTL

\* A release certified or further on keeps a pass in all the gates frozen at its
\* preparation but those the database judged again, and is approved from the
\* moment its status says so, whatever the live policy asks and whatever a
\* validator still reports.
THEOREM ReleasesAreCleared == Spec => []ReleasedWasCleared
<1>1. Inv => ReleasedWasCleared
  <2> SUFFICES ASSUME Inv, NEW c \in Candidates,
                      release[c].status \in {"certified"} \cup Released
               PROVE  /\ release[c].frozen # {}
                      /\ \A g \in release[c].frozen \ ServerGates :
                           release[c].gates[g] = "pass"
                      /\ release[c].status \in Released =>
                           release[c].decision = "approved"
    BY DEF ReleasedWasCleared
  <2>1. Sound(release[c], validation[c], promotion[c])
    BY DEF Inv
  <2> QED
    BY <2>1 DEF Sound, StatusMatchesJobs, DecisionMatches, PassedGates, Outstanding,
       Released
<1> QED
  BY Invariance, <1>1, PTL

\* The deployment's status, the run's and those of the two jobs never tell
\* different stories.
THEOREM JobsAlwaysMatch == Spec => []JobsMatchReleases
<1>1. Inv => JobsMatchReleases
  BY DEF Inv, Sound, RunMatches, JobsMatchReleases
<1> QED
  BY Invariance, <1>1, PTL

\* No step takes a rejection back or lets a rejected release proceed.
THEOREM RejectionsStand == Spec => NeverOverruled
<1>1. Inv /\ [Next]_vars => KeepsRejection
  BY StepKeeps
<1> QED
  BY Invariance, <1>1, PTL DEF Spec, NeverOverruled

\* What failed a release stays in the tables, and as long as it is there no
\* trigger and no function lets the release proceed.
THEOREM FailuresNeverShip == Spec => FailedNeverShips
<1> SUFFICES ASSUME NEW c \in Candidates
             PROVE  Spec => [](release[c].status = "failed" =>
                                 [](release[c].status \notin Released))
  BY DEF FailedNeverShips
<1>1. Inv => (release[c].status = "failed" => DoomedAt(c))
  BY DEF Inv, Sound, DoomedAt
<1>2. Inv /\ [Next]_vars => (DoomedAt(c) => DoomedAt(c)')
  BY StepKeeps DEF StaysDoomed
<1>3. Inv => (DoomedAt(c) => release[c].status \notin Released)
  BY DEF Inv, Sound, StatusMatchesJobs, DecisionMatches, DoomedAt, Doomed, Released
<1> QED
  BY Invariance, <1>1, <1>2, <1>3, PTL DEF Spec

-----------------------------------------------------------------------------
(* The refinement of ReleaseClearance *)

\* The transitions ReleaseClearance allows a candidate, told of the release
\* before and after a step.  A release that changes neither its stage nor what
\* it misses stutters.
Advances(r, s) ==
  \/ Stage(s) = Stage(r) /\ Outstanding(s) = Outstanding(r)
  \/ Stage(r) = "absent" /\ Stage(s) = "open"
  \/ Stage(r) # "absent" /\ Stage(s) = Stage(r)
  \/ Stage(r) = "open" /\ Stage(s) = "cleared" /\ Outstanding(s) = {}
  \/ /\ Stage(r) = "cleared" /\ Stage(s) = "released"
     /\ Outstanding(r) = {} /\ Outstanding(s) = Outstanding(r)
  \/ /\ Stage(r) = "released" /\ Stage(s) = "shipped"
     /\ Outstanding(r) = {} /\ Outstanding(s) = Outstanding(r)
  \/ Stage(r) \in {"open", "cleared", "released"} /\ Stage(s) = "dropped"

StageAt == [c \in Candidates |-> Stage(release[c])]
MissingAt == [c \in Candidates |-> Outstanding(release[c])]

\* One release that advances is one step of ReleaseClearance, or none.
LEMMA OneAdvances ==
  ASSUME TypeOK, NEW c \in Candidates, NEW s \in Release,
         release' = [release EXCEPT ![c] = s], Advances(release[c], s)
  PROVE  [Clearance!CNext]_(Clearance!cvars)
<1> DEFINE r == release[c]
<1>1. Outstanding(s) \in SUBSET Gates
  BY DEF Outstanding, Release
<1>2. /\ StageAt' = [StageAt EXCEPT ![c] = Stage(s)]
      /\ MissingAt' = [MissingAt EXCEPT ![c] = Outstanding(s)]
  BY DEF TypeOK, StageAt, MissingAt
<1>3. StageAt[c] = Stage(r) /\ MissingAt[c] = Outstanding(r)
  BY DEF StageAt, MissingAt
<1>4. Clearance!Moves(c, Stage(s)) /\ Clearance!Misses(c)
  BY <1>1, <1>2 DEF Clearance!Moves, Clearance!Misses, StageAt, MissingAt
<1>5. Outstanding(s) = Outstanding(r) => UNCHANGED MissingAt
  BY <1>2, <1>3 DEF MissingAt
<1>6. Stage(s) = Stage(r) => UNCHANGED StageAt
  BY <1>2, <1>3 DEF StageAt
<1>7. ASSUME Clearance!CandidateStep(c) PROVE Clearance!CNext
  BY <1>7 DEF Clearance!CNext
<1>8. CASE Stage(s) = Stage(r) /\ Outstanding(s) = Outstanding(r)
  BY <1>5, <1>6, <1>8 DEF Clearance!cvars, StageAt, MissingAt
<1>9. CASE Stage(r) = "absent" /\ Stage(s) = "open"
  BY <1>3, <1>4, <1>7, <1>9
  DEF Clearance!CandidateStep, Clearance!Open, StageAt
<1>10. CASE Stage(r) # "absent" /\ Stage(s) = Stage(r)
  BY <1>3, <1>4, <1>6, <1>7, <1>10
  DEF Clearance!CandidateStep, Clearance!Judge, StageAt
<1>11. CASE Stage(r) = "open" /\ Stage(s) = "cleared" /\ Outstanding(s) = {}
  <2>1. MissingAt' = [MissingAt EXCEPT ![c] = {}]
    BY <1>2, <1>11
  <2> QED
    BY <1>3, <1>4, <1>7, <1>11, <2>1
    DEF Clearance!CandidateStep, Clearance!Clear, StageAt, MissingAt
<1>12. CASE /\ Stage(r) = "cleared" /\ Stage(s) = "released"
            /\ Outstanding(r) = {} /\ Outstanding(s) = Outstanding(r)
  BY <1>3, <1>4, <1>5, <1>7, <1>12
  DEF Clearance!CandidateStep, Clearance!Release, StageAt, MissingAt
<1>13. CASE /\ Stage(r) = "released" /\ Stage(s) = "shipped"
            /\ Outstanding(r) = {} /\ Outstanding(s) = Outstanding(r)
  BY <1>3, <1>4, <1>5, <1>7, <1>13
  DEF Clearance!CandidateStep, Clearance!Ship, StageAt, MissingAt
<1>14. CASE Stage(r) \in {"open", "cleared", "released"} /\ Stage(s) = "dropped"
  BY <1>3, <1>4, <1>7, <1>14
  DEF Clearance!CandidateStep, Clearance!Drop, StageAt
<1> QED
  BY <1>8, <1>9, <1>10, <1>11, <1>12, <1>13, <1>14 DEF Advances

LEMMA InitClears == Init => Clearance!CInit
<1> SUFFICES ASSUME Init PROVE Clearance!CInit
  OBVIOUS
<1>1. Stage(NoRelease) = "absent" /\ Outstanding(NoRelease) = {}
  BY DEF Stage, Outstanding, NoRelease
<1> QED
  BY <1>1 DEF Init, Clearance!CInit

\* A step that leaves the releases alone stutters.
LEMMA SameReleases ==
  ASSUME UNCHANGED release
  PROVE  [Clearance!CNext]_(Clearance!cvars)
BY DEF Clearance!cvars

\* A release as the invariant has it, which is what its step starts from.
LEMMA Before ==
  ASSUME Inv, NEW c \in Candidates
  PROVE  /\ TypeOK /\ release[c] \in Release
         /\ Sound(release[c], validation[c], promotion[c])
BY DEF Inv, TypeOK

LEMMA PrepareAdvances ==
  ASSUME Inv, NEW c \in Candidates, Prepare(c)
  PROVE  [Clearance!CNext]_(Clearance!cvars)
<1> DEFINE s == [NoRelease EXCEPT !.run = "validating", !.status = "planned",
                   !.decision = "pending", !.frozen = policy, !.gates = InitialGates]
<1>1. s \in Release /\ s.status = "planned" /\ s.decision = "pending"
  BY GatesAssumption DEF Inv, TypeOK, InitialGates, GateStatuses, NoRelease, Release,
     Runs, Statuses, Decisions
<1>2. release' = [release EXCEPT ![c] = s] /\ release[c].status = "absent"
  BY DEF Prepare
<1> HIDE DEF s
<1>3. Stage(release[c]) = "absent" /\ Stage(s) = "open"
  BY <1>1, <1>2, Before DEF Stage, Sound, DecisionMatches
<1> QED
  BY <1>1, <1>2, <1>3, Before, OneAdvances DEF Advances

\* A release that is prepared is at some stage; a new state of its gates or its
\* artifact leaves it there.
LEMMA StaysAdvances ==
  ASSUME Inv, NEW c \in Candidates, NEW s \in Release,
         release' = [release EXCEPT ![c] = s], release[c].status # "absent",
         s.status = release[c].status, s.decision = release[c].decision
  PROVE  [Clearance!CNext]_(Clearance!cvars)
<1>1. Stage(s) = Stage(release[c]) /\ Stage(release[c]) # "absent"
  BY Before DEF Stage, Release, Statuses
<1> QED
  BY <1>1, Before, OneAdvances DEF Advances

LEMMA AttestAdvances ==
  ASSUME Inv, NEW c \in Candidates, Attest(c)
  PROVE  [Clearance!CNext]_(Clearance!cvars)
<1> DEFINE r == release[c]
           s == [r EXCEPT !.gates = [@ EXCEPT ![AttestationGate] = "pass"]]
<1>1. s \in Release /\ s.status = r.status /\ s.decision = r.decision /\ s.frozen = r.frozen
  BY Before, GatesAssumption DEF Release, GateStatuses
<1>2. release' = [release EXCEPT ![c] = s]
  BY Before DEF Attest, TypeOK
<1>3. CASE r.status # "absent"
  BY <1>1, <1>2, <1>3, StaysAdvances
<1>4. CASE r.status = "absent"
  <2>1. Outstanding(s) = Outstanding(r) /\ Stage(s) = Stage(r)
    BY <1>1, <1>4, Before DEF Sound, PassedGates, Outstanding, Stage
  <2> QED
    BY <1>1, <1>2, <2>1, Before, OneAdvances DEF Advances
<1> QED
  BY <1>3, <1>4

LEMMA EvaluateAdvances ==
  ASSUME Inv, NEW c \in Candidates, EvaluateServerGates(c)
  PROVE  [Clearance!CNext]_(Clearance!cvars)
<1>1. PICK passed, failed : release' = [release EXCEPT ![c] = Judged(@, passed, failed)]
  BY DEF EvaluateServerGates
<1> DEFINE s == Judged(release[c], passed, failed)
<1>2. release' = [release EXCEPT ![c] = s] /\ release[c].status # "absent"
  BY <1>1 DEF EvaluateServerGates
<1>3. s \in Release /\ s.status = release[c].status /\ s.decision = release[c].decision
  BY Before, JudgedRelease
<1> HIDE DEF s
<1> QED
  BY <1>2, <1>3, StaysAdvances

LEMMA ExpireAdvances ==
  ASSUME Inv, NEW c \in Candidates, Expire(c)
  PROVE  [Clearance!CNext]_(Clearance!cvars)
<1> DEFINE s == [release[c] EXCEPT !.artifact = "expired"]
<1>1. /\ s \in Release /\ s.status = release[c].status
      /\ s.decision = release[c].decision
  BY Before DEF Release
<1>2. release' = [release EXCEPT ![c] = s] /\ release[c].status # "absent"
  BY Before DEF Expire, TypeOK
<1> HIDE DEF s
<1> QED
  BY <1>1, <1>2, StaysAdvances

\* While its validation is leased a release is open or dropped.
LEMMA UnderValidation ==
  ASSUME Inv, NEW c \in Candidates, validation[c].state = "leased"
  PROVE  Stage(release[c]) \in {"open", "dropped"}
BY Before DEF Sound, StatusMatchesJobs, Stage, Release, Statuses, Released

\* Whatever a validator reports of a dropped release, it stays dropped.
LEMMA ValidatedAdvances ==
  ASSUME Inv, NEW c \in Candidates, NEW s \in Release,
         validation[c].state = "leased",
         release' = [release EXCEPT ![c] = s],
         s.decision = release[c].decision,
         \/ s.status \in {"failed", release[c].status}
         \/ s.status = "certified" /\ Outstanding(s) = {}
  PROVE  [Clearance!CNext]_(Clearance!cvars)
<1> DEFINE r == release[c]
<1> SUFFICES Advances(r, s)
  BY Before, OneAdvances
<1>1. r.status = "failed" => r.decision = "rejected"
  BY Before DEF Sound, Doomed
<1>2. Stage(r) = "dropped" => Stage(s) = "dropped"
  BY <1>1 DEF Stage
<1>3. Stage(r) \in {"open", "dropped"}
  BY UnderValidation
<1>4. CASE s.status = r.status
  <2>1. Stage(s) = Stage(r)
    BY <1>4 DEF Stage
  <2> QED
    BY <1>3, <2>1 DEF Advances
<1>5. CASE s.status = "failed"
  <2>1. Stage(s) = "dropped"
    BY <1>5 DEF Stage
  <2> QED
    BY <1>3, <2>1 DEF Advances
<1>6. CASE s.status = "certified" /\ Outstanding(s) = {}
  <2>1. Stage(s) \in {"cleared", "dropped"}
    BY <1>6 DEF Stage
  <2> QED
    BY <1>2, <1>3, <1>6, <2>1 DEF Advances
<1> QED
  BY <1>4, <1>5, <1>6

\* RetryOrFail of a release that differs from the candidate's in its gates.
LEMMA RetryAdvances ==
  ASSUME Inv, NEW c \in Candidates, NEW r \in Release,
         r.status = release[c].status, r.decision = release[c].decision,
         validation[c].state = "leased", RetryOrFail(c, r)
  PROVE  [Clearance!CNext]_(Clearance!cvars)
<1> DEFINE s == IF validation[c].attempts = MaxAttempts THEN FailedValidation(r)
                ELSE IF r.run = "failed" THEN r ELSE [r EXCEPT !.run = "validating"]
<1>1. /\ s \in Release /\ s.decision = r.decision
      /\ s.status \in {"failed", r.status}
  BY DEF FailedValidation, Release, Runs, Statuses
<1>2. release' = [release EXCEPT ![c] = s]
  BY Before DEF RetryOrFail, TypeOK
<1> HIDE DEF s
<1> QED
  BY <1>1, <1>2, ValidatedAdvances

LEMMA ReportGatesAdvances ==
  ASSUME Inv, NEW c \in Candidates, NEW k \in Tokens, ReportGates(c, k)
  PROVE  [Clearance!CNext]_(Clearance!cvars)
<1>1. PICK passed, failed :
        LET r == Judged(release[c], passed, failed)
        IN FailGates(c, r) \/ Certify(c, r) \/ AwaitGates(c, r)
  BY DEF ReportGates
<1> DEFINE r == Judged(release[c], passed, failed)
<1>2. /\ r \in Release /\ r.status = release[c].status
      /\ r.decision = release[c].decision
  BY JudgedRelease, Before
<1>3. FailGates(c, r) \/ Certify(c, r) \/ AwaitGates(c, r)
  BY <1>1
<1> HIDE DEF r
<1>4. validation[c].state = "leased"
  BY DEF ReportGates, HoldsToken
<1>5. CASE FailGates(c, r)
  <2> DEFINE s == FailedValidation(r)
  <2>1. s \in Release /\ s.status = "failed" /\ s.decision = r.decision
    BY <1>2 DEF FailedValidation, Release, Runs, Statuses
  <2>2. release' = [release EXCEPT ![c] = s]
    BY <1>5, Before DEF FailGates, TypeOK
  <2> HIDE DEF s
  <2> QED
    BY <1>2, <1>4, <2>1, <2>2, ValidatedAdvances
<1>6. CASE Certify(c, r)
  <2> DEFINE s == [r EXCEPT !.status = "certified", !.run = "awaiting_approval"]
  <2>1. /\ s \in Release /\ s.status = "certified" /\ s.decision = r.decision
        /\ Outstanding(s) = Outstanding(r)
    BY <1>2 DEF Release, Runs, Statuses, Outstanding
  <2>2. release' = [release EXCEPT ![c] = s] /\ Outstanding(r) = {}
    BY <1>6, Before DEF Certify, TypeOK
  <2> HIDE DEF s
  <2> QED
    BY <1>2, <1>4, <2>1, <2>2, ValidatedAdvances
<1>7. CASE AwaitGates(c, r)
  BY <1>2, <1>4, <1>7, RetryAdvances DEF AwaitGates
<1> QED
  BY <1>3, <1>5, <1>6, <1>7

LEMMA ReportFailureAdvances ==
  ASSUME Inv, NEW c \in Candidates, NEW k \in Tokens, ReportFailure(c, k)
  PROVE  [Clearance!CNext]_(Clearance!cvars)
BY Before, RetryAdvances DEF ReportFailure, HoldsToken

LEMMA DecideAdvances ==
  ASSUME Inv, NEW c \in Candidates, Approve(c) \/ Reject(c)
  PROVE  [Clearance!CNext]_(Clearance!cvars)
<1> DEFINE r == release[c]
<1>1. CASE Approve(c)
  <2> DEFINE s == [r EXCEPT !.decision = "approved", !.status = "approved"]
  <2>1. /\ s \in Release /\ s.status = "approved" /\ s.decision = "approved"
        /\ Outstanding(s) = Outstanding(r)
    BY Before DEF Release, Statuses, Decisions, Outstanding
  <2>2. /\ release' = [release EXCEPT ![c] = s]
        /\ r.status = "certified" /\ r.decision = "pending" /\ Outstanding(r) = {}
    BY <1>1, Before DEF Approve, CanApprove, Guarded, Outstanding, Released, Release,
       TypeOK
  <2> HIDE DEF s
  <2>3. Stage(r) = "cleared" /\ Stage(s) = "released"
    BY <2>1, <2>2 DEF Stage
  <2> QED
    BY <2>1, <2>2, <2>3, Before, OneAdvances DEF Advances
<1>2. CASE Reject(c)
  <2> DEFINE s == [r EXCEPT !.decision = "rejected", !.status = "failed"]
  <2>1. s \in Release /\ s.status = "failed"
    BY Before DEF Release, Statuses, Decisions
  <2>2. /\ release' = [release EXCEPT ![c] = s]
        /\ r.status \in {"planned", "certified"} /\ r.decision = "pending"
    BY <1>2, Before DEF Reject, TypeOK
  <2> HIDE DEF s
  <2>3. Stage(r) \in {"open", "cleared"} /\ Stage(s) = "dropped"
    BY <2>1, <2>2 DEF Stage
  <2> QED
    BY <2>1, <2>2, <2>3, Before, OneAdvances DEF Advances
<1> QED
  BY <1>1, <1>2

\* A promotion moves its release on, back to the queue, or fails it.
LEMMA PromotionAdvances ==
  ASSUME Inv, NEW c \in Candidates,
         NEW st \in {"approved", "deploying", "deployed", "failed"},
         release' = [release EXCEPT ![c] = [@ EXCEPT !.status = st]],
         release[c].status \in {"approved", "deploying"},
         st = "deployed" => Outstanding(release[c]) = {}
  PROVE  [Clearance!CNext]_(Clearance!cvars)
<1> DEFINE r == release[c]
           s == [r EXCEPT !.status = st]
<1>1. /\ s \in Release /\ s.status = st /\ s.decision = r.decision
      /\ Outstanding(s) = Outstanding(r)
  BY Before DEF Release, Statuses, Outstanding
<1>2. release' = [release EXCEPT ![c] = s]
  BY Before DEF TypeOK
<1>3. r.decision # "rejected"
  BY Before DEF Sound, DecisionMatches
<1> HIDE DEF s
<1>4. /\ Stage(r) = "released" /\ Stage(s) \in {"released", "shipped", "dropped"}
      /\ Stage(s) = "shipped" => st = "deployed"
  BY <1>1, <1>3 DEF Stage
<1> QED
  BY <1>1, <1>2, <1>4, Before, OneAdvances DEF Advances

LEMMA PromoterAdvances ==
  ASSUME Inv, NEW c \in Candidates, ClaimPromotion(c) \/ Promote(c)
  PROVE  [Clearance!CNext]_(Clearance!cvars)
<1>1. CASE ClaimPromotion(c)
  BY <1>1, Before, PromotionAdvances DEF ClaimPromotion, TypeOK
<1>2. ASSUME NEW k \in Tokens, Promoted(c, k)
      PROVE  [Clearance!CNext]_(Clearance!cvars)
  <2>1. release[c].status = "deploying"
    BY <1>2, AnsweredPromotion DEF Promoted, HoldsToken
  <2>2. Outstanding(release[c]) = {}
    BY <1>2 DEF Promoted, Guarded, Released
  <2> QED
    BY <1>2, <2>1, <2>2, Before, PromotionAdvances DEF Promoted, TypeOK
<1>3. ASSUME NEW k \in Tokens, PromotionFailed(c, k)
      PROVE  [Clearance!CNext]_(Clearance!cvars)
  <2>1. release[c].status = "deploying"
    BY <1>3, AnsweredPromotion DEF PromotionFailed, HoldsToken
  <2>2. AfterFailure(promotion[c]) \in {"approved", "failed"}
    BY DEF AfterFailure
  <2> QED
    BY <1>3, <2>1, <2>2, Before, PromotionAdvances DEF PromotionFailed, TypeOK
<1> QED
  BY <1>1, <1>2, <1>3 DEF Promote

\* Every step is a step of ReleaseClearance or leaves it where it is.
LEMMA StepClears == Inv /\ [Next]_vars => [Clearance!CNext]_(Clearance!cvars)
<1> SUFFICES ASSUME Inv, [Next]_vars PROVE [Clearance!CNext]_(Clearance!cvars)
  OBVIOUS
<1>1. CASE SetPolicy \/ SetAdapter \/ UNCHANGED vars
  BY <1>1, SameReleases DEF SetPolicy, SetAdapter, vars
<1>2. ASSUME NEW c \in Candidates,
             \/ ClaimValidation(c) \/ ValidationLapses(c) \/ PromotionLapses(c)
      PROVE  [Clearance!CNext]_(Clearance!cvars)
  BY <1>2, SameReleases DEF ClaimValidation, ValidationLapses, PromotionLapses
<1>3. ASSUME NEW c \in Candidates,
             \/ Prepare(c) \/ Attest(c) \/ Expire(c) \/ EvaluateServerGates(c)
             \/ Approve(c) \/ Reject(c)
      PROVE  [Clearance!CNext]_(Clearance!cvars)
  BY <1>3, PrepareAdvances, AttestAdvances, ExpireAdvances, EvaluateAdvances,
     DecideAdvances
<1>4. ASSUME NEW c \in Candidates, Validate(c)
      PROVE  [Clearance!CNext]_(Clearance!cvars)
  BY <1>4, ReportGatesAdvances, ReportFailureAdvances DEF Validate
<1>5. ASSUME NEW c \in Candidates, ClaimPromotion(c) \/ Promote(c)
      PROVE  [Clearance!CNext]_(Clearance!cvars)
  BY <1>5, PromoterAdvances
<1> QED
  BY <1>1, <1>2, <1>3, <1>4, <1>5 DEF Next

\* The baseline's functions and triggers implement ReleaseClearance: no order of
\* retries, lapses, late answers, decisions and gates judged anew certifies,
\* releases or ships a candidate while it misses a gate, or revives a dropped one.
THEOREM ReleasesClearAsPromised == Spec => ClearsAsPromised
BY InitClears, Invariance, StepClears, PTL DEF Spec, ClearsAsPromised, Clearance!CSpec

=============================================================================
