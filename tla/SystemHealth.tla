---------------------------- MODULE SystemHealth ----------------------------
(***************************************************************************)
(* vl/lom-system-health-p0: what the health of the portfolio is said to be *)
(* (health_drift.py) and how LOM's body perceives it through its eyes      *)
(* (body_probe_adapter.py).  The functions are pure.  An observation says  *)
(* of each comparison the code makes how it turns out ("DRIFT" for a sha   *)
(* that differs from main's) and keeps its times; "sound" stands for the   *)
(* identity, sha, vocabulary, evidence and positive-age-limit checks that  *)
(* precede them.                                                           *)
(***************************************************************************)
EXTENDS Integers, Sequences, FiniteSets

Severity == <<"HEALTHY", "DEGRADED", "HOLD", "ACTION_REQUIRED">>

\* The worst of a set of statuses; nothing wrong is healthy.
Worst(found) ==
  LET ranks == {0} \union {i - 1 : i \in {j \in 1..4 : Severity[j] \in found}}
  IN  Severity[1 + CHOOSE r \in ranks : \A q \in ranks : q <= r]

\* An assessment; no times are known (0) of one that could not be made.
Held == [status |-> "HOLD", observed_at |-> 0, fresh_until |-> 0]

Assessed(status, at, ttl) ==
  [status |-> status, observed_at |-> at, fresh_until |-> at + ttl]

\* The first of some times, 0 when there is none.
Earliest(times) ==
  IF times = {} THEN 0 ELSE CHOOSE t \in times : \A u \in times : t <= u

\* Observed in the past, and no longer ago than the observation allows.
Timely(o, now) == 0 < o.at /\ o.at <= now /\ now - o.at <= o.ttl

-----------------------------------------------------------------------------
(* One project: main against its checks, its runtime and its deployments *)

\* What preview and production warrant; an unknown policy holds.
DeploymentDrift(o) ==
  LET held == \/ o.preview = "MISSING"
              \/ o.policy \notin {"LOCKED", "TRACK_MAIN", "NOT_APPLICABLE"}
              \/ o.policy = "TRACK_MAIN" /\ o.production = "MISSING"
      degraded == \/ o.preview = "DRIFT"
                  \/ o.policy = "LOCKED" /\ o.production # "EXACT"
      acted == o.policy = "TRACK_MAIN" /\ o.production = "DRIFT"
  IN  {s \in {"HOLD", "DEGRADED", "ACTION_REQUIRED"} :
         \/ s = "HOLD" /\ held
         \/ s = "DEGRADED" /\ degraded
         \/ s = "ACTION_REQUIRED" /\ acted}

CiWarrants(o) ==
  (IF o.ci_exact THEN {} ELSE {"HOLD"}) \union
  (IF o.ci = "FAIL" THEN {"ACTION_REQUIRED"}
   ELSE IF o.ci = "UNKNOWN" THEN {"HOLD"} ELSE {})

RuntimeWarrants(o) ==
  IF o.runtime = "FAILED" THEN {"ACTION_REQUIRED"}
  ELSE IF o.runtime = "UNKNOWN" THEN {"HOLD"}
  ELSE IF o.runtime = "DEGRADED" THEN {"DEGRADED"} ELSE {}

DatabaseWarrants(o) ==
  IF o.database \in {"MISSING", "DRIFT"} THEN {"HOLD"} ELSE {}

ProjectHealth(o, now) ==
  IF ~o.sound \/ ~Timely(o, now) THEN Held
  ELSE Assessed(Worst(CiWarrants(o) \union RuntimeWarrants(o) \union
                      DeploymentDrift(o) \union DatabaseWarrants(o)),
                o.at, o.ttl)

-----------------------------------------------------------------------------
(* The operational debt of LOM itself, and the regression journeys *)

OperationalHealth(o, now) ==
  IF ~o.sound \/ ~Timely(o, now) \/ o.cert_at <= 0 \/ o.cert_at > now THEN Held
  ELSE LET cert == IF now - o.cert_at > o.cert_ttl THEN {"HOLD"}
                   ELSE IF o.cert_ok THEN {} ELSE {"ACTION_REQUIRED"}
           queue == IF o.queued > 0 THEN {"HOLD"} ELSE {}
           backlog == IF o.awaiting > 0 THEN {"DEGRADED"} ELSE {}
       IN  Assessed(Worst(cert \union queue \union backlog), o.at, o.ttl)

\* What one journey's result warrants.  A result of another project, one out
\* of the vocabulary or one from the future does not count for its journey.
Counts(r, now) == r.sound /\ 0 < r.at /\ r.at <= now

JourneyWarrants(r, ttl, now) ==
  IF ~Counts(r, now) THEN {"HOLD"}
  ELSE (IF now - r.at > ttl \/ ~r.exact THEN {"HOLD"} ELSE {}) \union
       (IF r.status = "FAIL" /\ r.critical THEN {"ACTION_REQUIRED"}
        ELSE IF r.status = "SKIP" /\ r.critical THEN {"HOLD"}
        ELSE IF r.status = "PASS" THEN {} ELSE {"DEGRADED"})

\* The sentinel over the results of the required journeys (a sequence, since a
\* journey may be reported twice).  Its evidence is as old as its oldest result.
RegressionSentinel(required, results, ttl, now) ==
  LET n == Len(results)
      counted == {i \in 1..n : Counts(results[i], now)}
      reported == {results[i].journey : i \in counted}
      repeated == \E i, j \in counted : i # j /\ results[i].journey = results[j].journey
      oldest == Earliest({results[i].at : i \in 1..n} \intersect (Nat \ {0}))
      found == UNION {JourneyWarrants(results[i], ttl, now) : i \in 1..n}
      gaps == IF repeated \/ ~(required \subseteq reported) THEN {"HOLD"} ELSE {}
  IN  IF required = {} \/ ttl <= 0 THEN Held
      ELSE [status |-> Worst(found \union gaps), observed_at |-> oldest,
            fresh_until |-> IF oldest = 0 THEN 0 ELSE oldest + ttl]

-----------------------------------------------------------------------------
(* The portfolio, and what the body's eyes make of it *)

\* Mutant: the portfolio counts as fresh as long as its newest assessment.
FreshUntilNewest(all) ==
  LET ends == {a.fresh_until : a \in all}
  IN  IF ends = {} THEN 0 ELSE CHOOSE t \in ends : \A u \in ends : u <= t

\* An assessment that lapses makes the whole portfolio lapse.
FreshUntil(all) == Earliest({a.fresh_until : a \in all} \ {0})

\* The portfolio is as bad as its worst project, and as fresh as the first of
\* its assessments to lapse; a project without both assessments is held.
\* health and sentinels are functions of the projects assessed; repeated says
\* that a project was assessed twice.
PortfolioSnapshot(health, sentinels, expected, repeated) ==
  LET projects == expected \union DOMAIN health \union DOMAIN sentinels
      all == {health[p] : p \in DOMAIN health} \union
             {sentinels[p] : p \in DOMAIN sentinels}
      gaps == IF \E p \in projects : p \notin DOMAIN health \intersect DOMAIN sentinels
              THEN {"HOLD"} ELSE {}
  IN  [overall |-> IF projects = {} \/ repeated
                   THEN Worst({a.status : a \in all} \union {"HOLD"})
                   ELSE Worst({a.status : a \in all} \union gaps),
       observed_at |-> Earliest({a.observed_at : a \in all} \ {0}),
       fresh_until |-> FreshUntil(all)]

\* The row the eyes report: the portfolio's status while it is timed and
\* fresh, HOLD otherwise.
EyesProbe(p, now) ==
  [status |-> IF /\ 0 < p.observed_at /\ p.observed_at <= now
                 /\ p.observed_at <= p.fresh_until /\ now <= p.fresh_until
              THEN IF p.overall = "ACTION_REQUIRED" THEN "HOLD" ELSE p.overall
              ELSE "HOLD",
   at |-> IF p.observed_at > 0 THEN p.observed_at ELSE now,
   evidenced |-> TRUE]

=============================================================================
