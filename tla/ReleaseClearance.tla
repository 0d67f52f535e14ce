-------------------------- MODULE ReleaseClearance --------------------------
(***************************************************************************)
(* What the factory's tables promise of every release candidate, with its  *)
(* run, its jobs, their leases and retries, its artifact, the adapter and  *)
(* the live policy hidden: gates may be judged again at any time, yet a    *)
(* candidate is cleared, released and shipped only in moments in which it  *)
(* misses none; it is released only out of a clearance; and once dropped,  *)
(* at whatever stage, it stays dropped, even if a validator goes on        *)
(* judging it.                                                             *)
(***************************************************************************)

CONSTANTS Candidates, Gates

VARIABLES
  stage,      \* stage[c]: how far candidate c has come
  missing     \* missing[c]: the gates c needs and has not passed

cvars == <<stage, missing>>

CInit ==
  /\ stage = [c \in Candidates |-> "absent"]
  /\ missing = [c \in Candidates |-> {}]

Moves(c, s) == stage' = [stage EXCEPT ![c] = s]

\* Whichever gates the candidate misses afterwards.
Misses(c) == \E m \in SUBSET Gates : missing' = [missing EXCEPT ![c] = m]

Open(c) == stage[c] = "absent" /\ Moves(c, "open") /\ Misses(c)

\* Gates pass and fail, whatever rests on them already.
Judge(c) == stage[c] # "absent" /\ UNCHANGED stage /\ Misses(c)

Clear(c) ==
  /\ stage[c] = "open"
  /\ Moves(c, "cleared")
  /\ missing' = [missing EXCEPT ![c] = {}]

Release(c) ==
  stage[c] = "cleared" /\ missing[c] = {} /\ Moves(c, "released") /\ UNCHANGED missing

Ship(c) ==
  stage[c] = "released" /\ missing[c] = {} /\ Moves(c, "shipped") /\ UNCHANGED missing

Drop(c) ==
  stage[c] \in {"open", "cleared", "released"} /\ Moves(c, "dropped") /\ Misses(c)

CandidateStep(c) ==
  Open(c) \/ Judge(c) \/ Clear(c) \/ Release(c) \/ Ship(c) \/ Drop(c)

CNext == \E c \in Candidates : CandidateStep(c)

CSpec == CInit /\ [][CNext]_cvars

=============================================================================
