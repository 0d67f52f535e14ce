----------------------------- MODULE LeasedJob -----------------------------
(***************************************************************************)
(* A row of one of the control plane's job tables (release_validation_jobs,*)
(* production_promotion_jobs) and what claiming and completing do to it.   *)
(* A claim draws a fresh lease token and bumps attempts, so the token is   *)
(* the attempt it was drawn for.  A row the table calls leased is "lapsed" *)
(* here once its lease_expires_at has passed: nothing compares the         *)
(* expiries of two rows, so no clock is kept.                              *)
(***************************************************************************)
EXTENDS Integers

CONSTANT MaxAttempts    \* max_attempts

ASSUME MaxAttemptsAssumption == MaxAttempts \in Nat \ {0}

JobStates == {"none", "queued", "blocked", "leased", "lapsed", "succeeded", "failed"}

Job == [state : JobStates, attempts : 0..MaxAttempts]

NoJob == [state |-> "none", attempts |-> 0]
FreshJob == [state |-> "queued", attempts |-> 0]
BlockedJob == [state |-> "blocked", attempts |-> 0]

\* Mutants: a lease that ran out is not picked up again; nobody counts attempts.
ClaimableQueuedOnly(j) == j.state = "queued" /\ j.attempts < MaxAttempts
ClaimableUncounted(j) == j.state \in {"queued", "lapsed"}

Claimable(j) == j.state \in {"queued", "lapsed"} /\ j.attempts < MaxAttempts

Closed(j, state) == [j EXCEPT !.state = state]

\* A claim, and the row it leaves in the given state.
Claimed(j, state) == [j EXCEPT !.state = state, !.attempts = @ + 1]

\* The caller presents the token of attempt k, and it is the live lease's.
HoldsToken(j, k) == j.state = "leased" /\ j.attempts = k

\* What an unsuccessful answer leaves: another attempt, or the end.
Retried(j) == Closed(j, IF j.attempts < MaxAttempts THEN "queued" ELSE "failed")

\* The last attempt's lease ran out: no claim will ever select the row again.
Exhausted(j) == j.state = "lapsed" /\ j.attempts = MaxAttempts

=============================================================================
