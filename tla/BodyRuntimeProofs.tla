-------------------------- MODULE BodyRuntimeProofs --------------------------
(***************************************************************************)
(* Theorems about BodyRuntime, for any processes, organs, projects, signals, *)
(* grants and bounds.                                                        *)
(*                                                                           *)
(* The first half is about the functions a cycle calls: what a healthy body  *)
(* says of the organs and of each assessment of the portfolio, what a route  *)
(* and an admission presuppose.  The second is one inductive invariant, BInv:*)
(* a cycle under way has its preflight envelope taken, what it has dealt     *)
(* with is done, and what its process remembers is in the journal.           *)
(***************************************************************************)
EXTENDS BodyRuntime, FiniteSetTheorems, WellFoundedInduction, TLAPS

-----------------------------------------------------------------------------
(* The portfolio *)

\* A set of numbers has a least one: the one that the fewest lie below.
LEMMA EarliestIsLeast ==
  ASSUME NEW times \in SUBSET Nat, times # {}
  PROVE  Earliest(times) \in times /\ \A u \in times : Earliest(times) <= u
<1> DEFINE Below(t) == {u \in times : u < t}
           Belows == {Below(t) : t \in times}
<1>1. Belows \subseteq FiniteSubsetsOf(Nat) /\ Belows # {}
  <2>1. ASSUME NEW t \in times PROVE IsFiniteSet(Below(t))
    <3>1. t \in Nat /\ IsFiniteSet(0..t)
      BY FS_Interval
    <3>2. \A u \in times : u \in Nat /\ (u < t => u \in 0..t)
      BY <3>1, SMT
    <3>3. Below(t) \subseteq 0..t
      BY <3>2
    <3> QED BY <3>1, <3>3, FS_Subset
  <2> QED BY <2>1 DEF FiniteSubsetsOf
<1>2. IsWellFoundedOn(StrictSubsetOrdering(Nat), FiniteSubsetsOf(Nat))
  BY FS_StrictSubsetOrderingWellFounded
<1>3. PICK X \in Belows : \A Y \in Belows : ~(<<Y, X>> \in StrictSubsetOrdering(Nat))
  <2> HIDE DEF Belows
  <2> QED BY <1>1, <1>2, WFMin
<1>4. PICK t \in times : X = Below(t)
  OBVIOUS
<1>5. ASSUME NEW u \in times, u < t PROVE FALSE
  <2>1. t \in Nat /\ u \in Nat
    OBVIOUS
  <2>2. Below(u) \in Belows
    OBVIOUS
  <2>3. Below(u) \subseteq X
    <3>1. \A v \in times : v \in Nat /\ (v < u => v < t)
      BY <1>5, <2>1, SMT
    <3> QED BY <1>4, <3>1
  <2>4. u \in X /\ u \notin Below(u)
    BY <1>4, <1>5, <2>1
  <2>5. Below(u) \subseteq Nat /\ X \subseteq Nat
    BY <1>4
  <2> HIDE DEF Below, Belows
  <2> QED BY <2>2, <2>3, <2>4, <2>5, <1>3 DEF StrictSubsetOrdering
<1>6. \A u \in times : t <= u
  BY <1>5
<1> QED BY <1>6 DEF Earliest

Severities == {"HEALTHY", "DEGRADED", "HOLD", "ACTION_REQUIRED"}

\* The worst of some severities is one, and healthy only if all of them are.
LEMMA WorstIsHealthy ==
  ASSUME NEW found
  PROVE  /\ Worst(found) \in Severities
         /\ Worst(found) = "HEALTHY" => found \intersect Severities \subseteq {"HEALTHY"}
<1> DEFINE ranks == {0} \union {i - 1 : i \in {j \in 1..4 : Severity[j] \in found}}
<1>1. ranks \subseteq 0..3 /\ 0 \in ranks
  OBVIOUS
<1>2. \E r \in ranks : \A q \in ranks : q <= r
  <2> HIDE DEF ranks
  <2>1. CASE 3 \in ranks
    BY <1>1, <2>1
  <2>2. CASE 3 \notin ranks /\ 2 \in ranks
    BY <1>1, <2>2
  <2>3. CASE 3 \notin ranks /\ 2 \notin ranks /\ 1 \in ranks
    BY <1>1, <2>3
  <2>4. CASE ranks = {0}
    BY <2>4
  <2> QED BY <1>1, <2>1, <2>2, <2>3, <2>4
<1>3. PICK r \in ranks : (\A q \in ranks : q <= r) /\ Worst(found) = Severity[1 + r]
  BY <1>2 DEF Worst
<1>4. Worst(found) \in Severities
  BY <1>1, <1>3 DEF Severity, Severities
<1>5. ASSUME Worst(found) = "HEALTHY", NEW s \in found \intersect Severities, s # "HEALTHY"
      PROVE  FALSE
  <2>1. r = 0
    BY <1>1, <1>3, <1>5 DEF Severity
  <2>2. PICK i \in 2..4 : Severity[i] = s
    BY <1>5 DEF Severity, Severities
  <2>3. i - 1 \in ranks
    BY <2>2
  <2> QED BY <2>1, <2>2, <2>3, <1>3
<1> QED BY <1>4, <1>5

\* What the snapshot is made of: a status and times, after 0 if all is well.
Assessment(a) ==
  /\ a.status \in Severities
  /\ a.observed_at \in Nat /\ a.fresh_until \in Nat
  /\ a.status = "HEALTHY" => a.fresh_until > 0

\* An assessment that could not be made.
LEMMA HeldAssessment == Assessment(Held)
BY DEF Assessment, Held, Severities

\* A project's health, or LOM's own, is healthy until some time after 0.
LEMMA ProjectAssessment ==
  ASSUME NEW o, NEW now \in Nat, o.at \in Nat, o.ttl \in Int
  PROVE  Assessment(ProjectHealth(o, now)) /\ Assessment(OperationalHealth(o, now))
<1>1. ASSUME NEW found, Timely(o, now)
      PROVE  Assessment(Assessed(Worst(found), o.at, o.ttl))
  BY <1>1, WorstIsHealthy DEF Assessment, Assessed, Timely
<1>2. Assessment(ProjectHealth(o, now))
  BY <1>1, HeldAssessment DEF ProjectHealth
<1>3. Assessment(OperationalHealth(o, now))
  BY <1>1, HeldAssessment DEF OperationalHealth
<1> QED BY <1>2, <1>3

\* A sentinel that finds nothing wrong has a result that counts.
LEMMA SentinelAssessment ==
  ASSUME NEW required, NEW results, NEW ttl \in Int, NEW now \in Nat,
         Len(results) \in Nat, \A i \in 1..Len(results) : results[i].at \in Nat
  PROVE  Assessment(RegressionSentinel(required, results, ttl, now))
<1> DEFINE n == Len(results)
           counted == {i \in 1..n : Counts(results[i], now)}
           reported == {results[i].journey : i \in counted}
           repeated == \E i, j \in counted : i # j /\ results[i].journey = results[j].journey
           times == {results[i].at : i \in 1..n} \intersect (Nat \ {0})
           oldest == Earliest(times)
           found == UNION {JourneyWarrants(results[i], ttl, now) : i \in 1..n}
           gaps == IF repeated \/ ~(required \subseteq reported) THEN {"HOLD"} ELSE {}
           status == Worst(found \union gaps)
           end == IF oldest = 0 THEN 0 ELSE oldest + ttl
<1>1. CASE required = {} \/ ttl <= 0
  BY <1>1, HeldAssessment DEF RegressionSentinel
<1>2. CASE ~(required = {} \/ ttl <= 0)
  <2>1. RegressionSentinel(required, results, ttl, now) =
          [status |-> status, observed_at |-> oldest, fresh_until |-> end]
    BY <1>2 DEF RegressionSentinel
  <2>2. oldest \in Nat /\ (times # {} => oldest > 0)
    <3>1. CASE times = {}
      BY <3>1 DEF Earliest
    <3>2. CASE times # {}
      <4>1. times \in SUBSET Nat /\ 0 \notin times
        OBVIOUS
      <4>2. Earliest(times) \in times
        <5> HIDE DEF times
        <5> QED BY <4>1, <3>2, EarliestIsLeast
      <4>3. PICK t \in times : oldest = t
        BY <4>2
      <4>4. t \in Nat /\ t # 0
        BY <4>1
      <4> QED BY <4>3, <4>4
    <3> QED BY <3>1, <3>2
  <2>3. status = "HEALTHY" => times # {}
    <3>1. SUFFICES ASSUME status = "HEALTHY" PROVE times # {}
      OBVIOUS
    <3>2. "HOLD" \notin gaps
      <4> HIDE DEF found, gaps
      <4>1. Worst(found \union gaps) = "HEALTHY"
        BY <3>1
      <4>2. (found \union gaps) \intersect Severities \subseteq {"HEALTHY"}
        BY <4>1, WorstIsHealthy
      <4>3. (found \union gaps) \intersect {"HOLD"} = {}
        BY <4>2 DEF Severities
      <4> QED BY <4>3
    <3>3. required \subseteq reported
      BY <3>2
    <3>4. PICK i \in counted : TRUE
      BY <1>2, <3>3
    <3>5. results[i].at \in times
      BY <3>4 DEF Counts
    <3> QED BY <3>5
  <2>4. status \in Severities
    BY WorstIsHealthy
  <2> HIDE DEF status, times, oldest
  <2> QED BY <2>1, <2>2, <2>3, <2>4, <1>2 DEF Assessment
<1> QED BY <1>1, <1>2

\* A healthy portfolio has every assessment, each of them healthy, and is fresh
\* no longer than any of them.
LEMMA HealthySnapshot ==
  ASSUME NEW health, NEW sentinels, NEW expected, NEW repeated \in BOOLEAN,
         \A p \in DOMAIN health : Assessment(health[p]),
         \A p \in DOMAIN sentinels : Assessment(sentinels[p]),
         expected # {},
         PortfolioSnapshot(health, sentinels, expected, repeated).overall = "HEALTHY"
  PROVE  /\ ~repeated
         /\ PortfolioSnapshot(health, sentinels, expected, repeated).fresh_until \in Nat
         /\ expected \subseteq DOMAIN health \intersect DOMAIN sentinels
         /\ \A a \in {health[p] : p \in DOMAIN health} \union
                     {sentinels[p] : p \in DOMAIN sentinels} :
              /\ a.status = "HEALTHY"
              /\ PortfolioSnapshot(health, sentinels, expected, repeated).fresh_until
                   <= a.fresh_until
<1> DEFINE projects == expected \union DOMAIN health \union DOMAIN sentinels
           all == {health[p] : p \in DOMAIN health} \union
                  {sentinels[p] : p \in DOMAIN sentinels}
           gaps == IF \E p \in projects : p \notin DOMAIN health \intersect DOMAIN sentinels
                   THEN {"HOLD"} ELSE {}
           statuses == {a.status : a \in all}
           ends == {a.fresh_until : a \in all} \ {0}
           s == PortfolioSnapshot(health, sentinels, expected, repeated)
<1>1. /\ s.overall = IF projects = {} \/ repeated THEN Worst(statuses \union {"HOLD"})
                     ELSE Worst(statuses \union gaps)
      /\ s.fresh_until = Earliest(ends)
  BY DEF PortfolioSnapshot, FreshUntil
<1>2. \A a \in all : Assessment(a)
  OBVIOUS
<1>3. ~repeated /\ Worst(statuses \union gaps) = "HEALTHY"
  <2>1. Worst(statuses \union {"HOLD"}) # "HEALTHY"
    BY WorstIsHealthy DEF Severities
  <2> HIDE DEF statuses, gaps
  <2> QED BY <1>1, <2>1
<1>4. (statuses \union gaps) \intersect Severities \subseteq {"HEALTHY"}
  BY <1>3, WorstIsHealthy
<1>5. "HOLD" \notin gaps
  BY <1>4 DEF Severities
<1>6. expected \subseteq DOMAIN health \intersect DOMAIN sentinels
  BY <1>5
<1>7. \A a \in all : a.status = "HEALTHY"
  BY <1>2, <1>4 DEF Assessment
<1>8. ASSUME NEW a \in all PROVE s.fresh_until <= a.fresh_until
  <2>1. a.fresh_until \in ends
    BY <1>2, <1>7 DEF Assessment
  <2>2. ends \in SUBSET Nat
    BY <1>2 DEF Assessment
  <2>3. Earliest(ends) <= a.fresh_until
    <3> HIDE DEF ends
    <3> QED BY <2>1, <2>2, EarliestIsLeast
  <2> QED BY <1>1, <2>3
<1>9. s.fresh_until \in Nat
  <2>1. PICK p \in expected : p \in DOMAIN health
    BY <1>6
  <2>2. health[p].fresh_until \in ends
    BY <1>2, <1>7, <2>1 DEF Assessment
  <2>3. ends \in SUBSET Nat
    BY <1>2 DEF Assessment
  <2>4. Earliest(ends) \in ends
    <3> HIDE DEF ends
    <3> QED BY <2>2, <2>3, EarliestIsLeast
  <2> QED BY <1>1, <2>3, <2>4
<1> QED BY <1>3, <1>6, <1>7, <1>8, <1>9

\* A portfolio that is healthy and fresh when somebody looks at it is made of
\* assessments that are.
LEMMA SnapshotIsCurrent ==
  ASSUME NEW u \in Nat \ {0}, NEW taken \in SnapshotsAt(u), NEW t \in Nat,
         taken.snapshot.overall = "HEALTHY", t <= taken.snapshot.fresh_until
  PROVE  Current(taken, t)
<1>1. PICK take \in Takes(u) : taken = Taken(take, u)
  BY DEF SnapshotsAt
<1>2. /\ \A p \in Projects : take.sight[p] \in Sightings[p] /\ take.trip[p] \in Journeys[p]
      /\ take.seen \in Nat /\ take.tried \in Nat /\ take.again \in BOOLEAN
  BY <1>1 DEF Takes
<1> DEFINE health == ProjectHealths(take, u)
           sentinels == Sentinels(take, u)
           all == {health[p] : p \in DOMAIN health} \union
                  {sentinels[p] : p \in DOMAIN sentinels}
           s == PortfolioSnapshot(health, sentinels, Projects, take.again)
<1>3. ASSUME NEW p \in DOMAIN health PROVE Assessment(health[p])
  <2> DEFINE o == [take.sight[p] EXCEPT !.at = take.seen]
  <2>1. p \in Projects
    BY DEF ProjectHealths
  <2>2. o.at \in Nat /\ o.ttl \in Int
    BY <1>2, <2>1, SightAssumption
  <2>3. health[p] = IF p = Core THEN OperationalHealth(o, u) ELSE ProjectHealth(o, u)
    BY DEF Health, ProjectHealths
  <2> HIDE DEF o, health
  <2> QED BY <2>2, <2>3, ProjectAssessment
<1>4. ASSUME NEW p \in DOMAIN sentinels PROVE Assessment(sentinels[p])
  <2> DEFINE r == Dated(take.trip[p], take.tried)
  <2>1. p \in Projects /\ take.trip[p] \in Journeys[p]
    BY <1>2 DEF Sentinels
  <2>2. /\ Len(take.trip[p]) \in Nat /\ DOMAIN take.trip[p] = 1..Len(take.trip[p])
        /\ \A i \in 1..Len(take.trip[p]) : "at" \in DOMAIN take.trip[p][i]
    BY <2>1, SightAssumption
  <2>3. DOMAIN r = 1..Len(take.trip[p])
    BY <2>2 DEF Dated
  <2>4. Len(r) = Len(take.trip[p])
    BY <2>2, <2>3
  <2>5. \A i \in 1..Len(r) : r[i].at \in Nat
    BY <2>2, <2>4, <1>2 DEF Dated
  <2>6. sentinels[p] = RegressionSentinel({"golden"}, r, Ttl, u)
    BY <2>1 DEF Sentinels
  <2> HIDE DEF r, sentinels
  <2> QED BY <2>2, <2>4, <2>5, <2>6, SentinelAssessment, BodyAssumption
<1>5. DOMAIN health = Projects \ take.skipped /\ DOMAIN sentinels = Projects
  BY DEF ProjectHealths, Sentinels
<1>6. taken.snapshot = s /\ taken.all = all /\ taken.whole = (take.skipped = {} /\ ~take.again)
  BY <1>1, <1>5 DEF Taken
<1>7. /\ ~take.again /\ s.fresh_until \in Nat
      /\ Projects \subseteq DOMAIN health
      /\ \A a \in all : a.status = "HEALTHY" /\ s.fresh_until <= a.fresh_until
  <2>1. Projects # {} /\ s.overall = "HEALTHY"
    BY <1>6, BodyAssumption
  <2> HIDE DEF health, sentinels
  <2> QED BY <1>2, <1>3, <1>4, <1>5, <2>1, HealthySnapshot
<1>8. \A a \in all : a.fresh_until \in Nat
  BY <1>3, <1>4 DEF Assessment
<1>9. take.skipped \in SUBSET Projects
  BY <1>1 DEF Takes
<1>10. take.skipped = {}
  BY <1>5, <1>7, <1>9
<1>11. taken.whole
  BY <1>6, <1>7, <1>10
<1>12. ASSUME NEW a \in taken.all PROVE a.status = "HEALTHY" /\ t <= a.fresh_until
  <2>1. a \in all /\ a.fresh_until \in Nat
    BY <1>6, <1>8
  <2>2. t <= s.fresh_until /\ s.fresh_until \in Nat
    BY <1>6, <1>7
  <2>3. a.status = "HEALTHY" /\ s.fresh_until <= a.fresh_until
    BY <1>7, <2>1
  <2> HIDE DEF s
  <2> QED BY <2>1, <2>2, <2>3
<1> QED BY <1>11, <1>12 DEF Current

-----------------------------------------------------------------------------
(* The body *)

Healths == {"HEALTHY", "DEGRADED", "HOLD", "FAILED"}

\* The body is as well as its worst organ.
LEMMA WorstOrganIsHealthy ==
  ASSUME NEW found
  PROVE  /\ WorstOrgan(found) \in Healths
         /\ WorstOrgan(found) = "HEALTHY" => found \intersect Healths \subseteq {"HEALTHY"}
<1> DEFINE ranks == {1} \union {i \in 1..4 : BodyRank[i] \in found}
<1>1. ranks \subseteq 1..4 /\ 1 \in ranks
  OBVIOUS
<1>2. \E r \in ranks : \A q \in ranks : q <= r
  <2> HIDE DEF ranks
  <2>1. CASE 4 \in ranks
    BY <1>1, <2>1
  <2>2. CASE 4 \notin ranks /\ 3 \in ranks
    BY <1>1, <2>2
  <2>3. CASE 4 \notin ranks /\ 3 \notin ranks /\ 2 \in ranks
    BY <1>1, <2>3
  <2>4. CASE ranks = {1}
    BY <2>4
  <2> QED BY <1>1, <2>1, <2>2, <2>3, <2>4
<1>3. PICK r \in ranks : (\A q \in ranks : q <= r) /\ WorstOrgan(found) = BodyRank[r]
  BY <1>2 DEF WorstOrgan
<1>4. WorstOrgan(found) \in Healths
  BY <1>1, <1>3 DEF BodyRank, Healths
<1>5. ASSUME WorstOrgan(found) = "HEALTHY", NEW s \in found \intersect Healths, s # "HEALTHY"
      PROVE  FALSE
  <2>1. r = 1
    BY <1>1, <1>3, <1>5 DEF BodyRank
  <2>2. PICK i \in 2..4 : BodyRank[i] = s
    BY <1>5 DEF BodyRank, Healths
  <2>3. i \in ranks
    BY <2>2
  <2> QED BY <2>1, <2>2, <2>3, <1>3
<1> QED BY <1>4, <1>5

\* A healthy body has heard every organ say so, with evidence and of late.
LEMMA HomeostasisIsHealthy ==
  ASSUME NEW registry, NEW rows, NEW now \in Nat, DOMAIN rows = Organs
  PROVE  /\ Homeostasis(registry, rows, now, MaxAge) \in Healths
         /\ Homeostasis(registry, rows, now, MaxAge) = "HEALTHY" => AllWell(rows, now)
<1> DEFINE heard == {o \in Organs : Readable(rows[o], now)}
           statuses == {OrganStatus(rows[o], now, MaxAge) : o \in heard}
           found == statuses \union (IF heard = Organs THEN {} ELSE {"HOLD"})
<1>1. Homeostasis(registry, rows, now, MaxAge) =
        IF ~RegistryReady(registry) THEN "HOLD" ELSE WorstOrgan(found)
  BY DEF Homeostasis
<1>2. Homeostasis(registry, rows, now, MaxAge) \in Healths
  <2> HIDE DEF found
  <2> QED BY <1>1, WorstOrganIsHealthy DEF Healths
<1>3. ASSUME Homeostasis(registry, rows, now, MaxAge) = "HEALTHY" PROVE AllWell(rows, now)
  <2>1. found \intersect Healths \subseteq {"HEALTHY"}
    <3>1. WorstOrgan(found) = "HEALTHY"
      <4> HIDE DEF found
      <4> QED BY <1>1, <1>3
    <3> HIDE DEF found
    <3> QED BY <3>1, WorstOrganIsHealthy
  <2>2. heard = Organs
    <3>1. "HOLD" \notin found
      <4> HIDE DEF found
      <4> QED BY <2>1 DEF Healths
    <3> QED BY <3>1
  <2>3. ASSUME NEW o \in Organs
        PROVE  /\ rows[o].status = "HEALTHY" /\ rows[o].evidenced
               /\ rows[o].at <= now /\ ~(now - rows[o].at > MaxAge)
    <3>1. Readable(rows[o], now)
      BY <2>2
    <3>2. OrganStatus(rows[o], now, MaxAge) \in Healths
      BY <3>1 DEF OrganStatus, Readable, Healths
    <3>3. OrganStatus(rows[o], now, MaxAge) \in found
      BY <2>2
    <3>4. OrganStatus(rows[o], now, MaxAge) = "HEALTHY"
      <4> HIDE DEF found
      <4> QED BY <2>1, <3>2, <3>3
    <3>5. ~(now - rows[o].at > MaxAge) /\ rows[o].evidenced /\ rows[o].status = "HEALTHY"
      BY <3>4 DEF OrganStatus
    <3> QED BY <3>1, <3>5 DEF Readable
  <2> QED BY <2>3 DEF AllWell
<1> QED BY <1>2, <1>3

\* What a cycle finds out is grounded when it says that the body is well.
LEMMA FindingIsGrounded ==
  ASSUME NEW found \in Findings
  PROVE  /\ found.at \in 1..Horizon /\ found.health \in Healths
         /\ found.grounded \in BOOLEAN
         /\ found.health = "HEALTHY" => found.grounded
<1>1. PICK t \in 1..Horizon : found \in Found(t)
  BY DEF Findings
<1>2. PICK taken \in UNION {SnapshotsAt(u) : u \in 1..t}, registry \in Registries,
           reports \in [Organs \ {Eyes} -> OrganReports] :
        found = [at |-> t,
                 health |-> Homeostasis(registry, OrganRows(taken, reports, t), t, MaxAge),
                 grounded |-> AllWell(OrganRows(taken, reports, t), t) /\ Current(taken, t)]
  BY <1>1 DEF Found
<1> DEFINE rows == OrganRows(taken, reports, t)
<1>3. t \in Nat /\ DOMAIN rows = Organs
  BY BodyAssumption DEF OrganRows
<1>4. /\ found.at = t
      /\ found.health = Homeostasis(registry, rows, t, MaxAge)
      /\ found.grounded = (AllWell(rows, t) /\ Current(taken, t))
  BY <1>2
<1>5. ASSUME found.health = "HEALTHY" PROVE found.grounded
  <2>1. AllWell(rows, t)
    <3> HIDE DEF rows
    <3> QED BY <1>3, <1>4, <1>5, HomeostasisIsHealthy
  <2>2. EyesProbe(taken.snapshot, t).status = "HEALTHY"
    BY <2>1, BodyAssumption DEF AllWell, OrganRows
  <2>3. taken.snapshot.overall = "HEALTHY" /\ t <= taken.snapshot.fresh_until
    BY <2>2 DEF EyesProbe
  <2>4. PICK u \in 1..t : taken \in SnapshotsAt(u)
    OBVIOUS
  <2>5. Current(taken, t)
    BY <1>3, <2>3, <2>4, SnapshotIsCurrent
  <2> QED BY <1>4, <2>1, <2>5
<1>6. found.health \in Healths
  <2> HIDE DEF rows
  <2> QED BY <1>3, <1>4, HomeostasisIsHealthy
<1>7. found.grounded \in BOOLEAN
  BY <1>4 DEF AllWell, Current
<1> QED BY <1>4, <1>5, <1>6, <1>7

-----------------------------------------------------------------------------
(* Routes, admissions and processes *)

\* A plan prepares, watches, asks or holds as its route says.
LEMMA PlansOfRoutes ==
  ASSUME NEW class
  PROVE  /\ PlanStatus(class) = "PREPARE_PR" <=> class = "AUTO_PREPARE"
         /\ PlanStatus(class) = "MONITOR" <=> class = "MONITOR"
         /\ PlanStatus(class) \in {"PREPARE_PR", "MONITOR", "HUMAN_REVIEW", "HOLD"}
BY DEF PlanStatus

\* What is routed to preparation is valid and no human's affair.
LEMMA PreparedSignalsAreFit ==
  ASSUME NEW s, NEW now, ActionClass(s, now) = "AUTO_PREPARE"
  PROVE  SignalValid(s, now) /\ ~Consequential(s)
BY DEF ActionClass

\* The adapter executes on a canary that passed and is not too old.
LEMMA AdmissionNeedsCanary ==
  ASSUME NEW s, NEW e, NEW g, NEW replay, NEW now, NEW maxAge, NEW intact,
         BodyExecutorDecision(s, e, g, replay, now, maxAge, intact) = "EXECUTE"
  PROVE  e.failed = {} /\ now - e.at <= maxAge
<1>1. ActivationGate(e, now, maxAge)
  BY DEF BodyExecutorDecision
<1> QED BY <1>1 DEF ActivationGate, CanaryVerified

\* The adapter answers a retry only from its replay record.
LEMMA NoopNeedsMemory ==
  ASSUME NEW s, NEW e, NEW g, NEW replay, NEW now, NEW maxAge, NEW intact,
         BodyExecutorDecision(s, e, g, replay, now, maxAge, intact) = "IDEMPOTENT_NOOP"
  PROVE  [id |-> s, input |-> s] \in replay
<1> DEFINE a == BodyAction(s, g, now)
<1>1. NodeDecision(a, g, replay, now, intact) = "IDEMPOTENT_NOOP"
  BY DEF BodyExecutorDecision
<1>2. a.id = s /\ a.input = s
  BY DEF BodyAction
<1> HIDE DEF a
<1>3. EvaluateRuntime(a, g, replay, now) = "replayed"
  BY <1>1 DEF NodeDecision
<1>4. [id |-> a.id, input |-> a.input] \in replay
  BY <1>3 DEF EvaluateRuntime
<1> QED BY <1>2, <1>4

\* A process finds evidence no younger than itself.
LEMMA StartedOnEvidence ==
  ASSUME NEW start \in Starts
  PROVE  /\ start = [canary |-> start.canary, grant |-> start.grant,
                     replay |-> {}, born |-> start.born]
         /\ start.canary \in Evidences(Horizon) /\ start.grant \in Grants
         /\ start.born \in 1..Horizon
         /\ start.canary.at \in Nat /\ start.canary.at <= start.born
<1>1. PICK t \in 1..Horizon : \E e \in Evidences(t), g \in Grants :
        start = [canary |-> e, grant |-> g, replay |-> {}, born |-> t]
  BY DEF Starts
<1>3. PICK e \in Evidences(t), g \in Grants :
        start = [canary |-> e, grant |-> g, replay |-> {}, born |-> t]
  BY <1>1
<1>2. e \in Evidences(Horizon) /\ e.at \in Nat /\ e.at <= t
  <2>1. CASE e = Uncollected
    <3>1. e \in Evidences(Horizon)
      BY <2>1 DEF Evidences
    <3>2. e.at = 0
      BY <2>1 DEF Uncollected
    <3>3. t \in Nat /\ 0 <= t
      BY BodyAssumption
    <3> QED BY <3>1, <3>2, <3>3
  <2>2. CASE e # Uncollected
    <3>1. PICK c \in Canaries, at \in 1..t : e = CanaryEvidence(c.name, c.host, at)
      BY <2>2 DEF Evidences
    <3>2. at \in 1..Horizon /\ at \in Nat /\ at <= t
      BY BodyAssumption
    <3>3. e.at = at
      BY <3>1 DEF CanaryEvidence
    <3>4. e \in Evidences(Horizon)
      BY <3>1, <3>2 DEF Evidences
    <3> QED BY <3>2, <3>3, <3>4
  <2> QED BY <2>1, <2>2
<1> QED BY <1>3, <1>2

-----------------------------------------------------------------------------
(* The invariant *)

Whole(j, s) == \E i \in DOMAIN j : j[i].signal = s /\ j[i].form = "whole"

Dealt(j, s, t) ==
  /\ ActionClass(s, t) \in {"AUTO_PREPARE", "MONITOR"}
  /\ ActionClass(s, t) = "AUTO_PREPARE" => Whole(j, s)

\* The cycle: it looked before it acted, and what it passed by is dealt with.
CycleSound(w) ==
  /\ body[w].pc \notin {"asleep", "preflight"} =>
       Envelope(w, "PREFLIGHT", "") \in recorded
  /\ body[w].pc = "preflight" => body[w].next = 1
  /\ body[w].health = "HEALTHY" => body[w].grounded
  /\ body[w].pc \in {"writing", "learn"} =>
       Route(w) = "AUTO_PREPARE" /\ body[w].health = "HEALTHY"
  /\ body[w].pc = "writing" => body[w].stamp <= body[w].admitted
  /\ body[w].pc = "learn" => Whole(journal, Signal(w))
  /\ body[w].status \in {"PREPARED", "MONITOR"} =>
       \A k \in DOMAIN body[w].batch :
         k < body[w].next => Dealt(journal, body[w].batch[k], body[w].stamp)
  /\ body[w].pc = "final" /\ body[w].status = "PREPARED" =>
       body[w].next > Len(body[w].batch)
  /\ body[w].status = "HOLD" => body[w].pc = "final"

\* The process: its memory is in the journal, its evidence is its elder.
ProcessSound(w) ==
  /\ \A r \in node[w].replay : Whole(journal, r.id)
  /\ node[w].canary.at \in Nat /\ node[w].canary.at <= node[w].born
  /\ body[w].pc = "writing" =>
       /\ body[w].admitted <= node[w].born + CanaryMaxAge
       /\ node[w].canary.failed = {}

BInv ==
  /\ BTypeOK
  /\ \A w \in Workers : CycleSound(w) /\ ProcessSound(w)
  /\ RowsWereAnnounced
  /\ PreparedIsBacked

Extends(j, k) == \A i \in DOMAIN j : i \in DOMAIN k /\ k[i] = j[i]

\* Nothing leaves the journal or the recorder.
Grows == recorded \subseteq recorded' /\ Extends(journal, journal')

\* What a journal shows, a longer one shows.
LEMMA DealtGrows ==
  ASSUME NEW j, NEW k, Extends(j, k)
  PROVE  /\ \A s : Whole(j, s) => Whole(k, s)
         /\ \A s, t : Dealt(j, s, t) => Dealt(k, s, t)
BY DEF Extends, Whole, Dealt

\* A process that does nothing stays sound.
LEMMA OthersStaySound ==
  ASSUME Grows, NEW v \in Workers, CycleSound(v), ProcessSound(v),
         body'[v] = body[v], node'[v] = node[v]
  PROVE  CycleSound(v)' /\ ProcessSound(v)'
<1>1. /\ \A s : Whole(journal, s) => Whole(journal', s)
      /\ \A s, t : Dealt(journal, s, t) => Dealt(journal', s, t)
  BY DealtGrows DEF Grows
<1>2. CycleSound(v)'
  BY <1>1 DEF Grows, CycleSound, Envelope, Route, Signal
<1>3. ProcessSound(v)'
  BY <1>1 DEF ProcessSound
<1> QED BY <1>2, <1>3

\* A journal as it was has been announced as it was.
LEMMA RowsStayAnnounced ==
  ASSUME recorded \subseteq recorded', RowsWereAnnounced, journal' = journal
  PROVE  RowsWereAnnounced'
BY DEF RowsWereAnnounced

\* Envelopes that were backed stay so.
LEMMA BackedStays ==
  ASSUME Grows, PreparedIsBacked,
         \A e \in recorded' \ recorded : ~(e.phase = "FINAL" /\ e.status = "PREPARED")
  PROVE  PreparedIsBacked'
<1>1. SUFFICES ASSUME NEW e \in recorded', e.phase = "FINAL", e.status = "PREPARED",
                      NEW k \in DOMAIN e.batch
               PROVE  Dealt(journal', e.batch[k], e.stamp)
  BY DEF PreparedIsBacked, Dealt, Whole
<1>2. e \in recorded
  BY <1>1
<1>3. Dealt(journal, e.batch[k], e.stamp)
  BY <1>1, <1>2 DEF PreparedIsBacked, Dealt, Whole
<1> QED BY <1>3, DealtGrows DEF Grows

\* A line more, and the lines before it as they were.
LEMMA AppendExtends ==
  ASSUME NEW j \in Seq(Rows), NEW row
  PROVE  /\ Len(Append(j, row)) = Len(j) + 1 /\ DOMAIN Append(j, row) = 1..(Len(j) + 1)
         /\ Extends(j, Append(j, row))
         /\ Append(j, row)[Len(j) + 1] = row
         /\ row \in Rows => Append(j, row) \in Seq(Rows)
BY DEF Extends

-----------------------------------------------------------------------------
(* The steps of a cycle *)

Busy(w) == body[w].pc \in {"signals", "writing", "learn"}

\* A busy cycle is at a signal of its batch.
LEMMA BatchOf ==
  ASSUME BTypeOK, NEW w \in Workers
  PROVE  /\ body[w] \in Cycle
         /\ body[w].batch \in Seq(Signals)
         /\ DOMAIN body[w].batch = 1..Len(body[w].batch)
         /\ Len(body[w].batch) \in Nat
         /\ Busy(w) => /\ body[w].next \in 1..Len(body[w].batch)
                       /\ Signal(w) \in Signals
<1>1. body[w] \in Cycle
  BY DEF BTypeOK
<1>2. body[w].batch \in Batches \/ body[w].batch = <<>>
  BY <1>1 DEF Cycle
<1>3. body[w].batch \in Seq(Signals)
  <2>1. <<>> \in Seq(Signals)
    OBVIOUS
  <2> QED BY <1>2, <2>1, BodyAssumption
<1>4. Busy(w) => body[w].next \in DOMAIN body[w].batch
  BY DEF BTypeOK, Busy
<1> QED BY <1>1, <1>3, <1>4 DEF Signal

\* The types after a step of w that leaves the clock.
LEMMA TypesStay ==
  ASSUME BTypeOK, clock' = clock, NEW w \in Workers,
         node' \in [Workers -> Executors], journal' \in Seq(Rows),
         body' \in [Workers -> Cycle], \A v \in Workers \ {w} : body'[v] = body[v],
         body'[w].stamp \in 0..clock, body'[w].admitted \in 0..clock,
         body'[w].pc \in {"signals", "writing", "learn"} =>
           body'[w].next \in DOMAIN body'[w].batch,
         body'[w].pc = "writing" => body'[w].sequence > 0
  PROVE  BTypeOK'
<1>1. /\ clock' \in 1..Horizon
      /\ (node \in [Workers -> Executors])'
      /\ journal' \in Seq(Rows)
      /\ body' \in [Workers -> Cycle]
  BY DEF BTypeOK, Executors, Collectable
<1>2. ASSUME NEW v \in Workers
      PROVE  /\ {body'[v].stamp, body'[v].admitted} \subseteq 0..clock'
             /\ body'[v].pc \in {"signals", "writing", "learn"} =>
                  body'[v].next \in DOMAIN body'[v].batch
             /\ body'[v].pc = "writing" => body'[v].sequence > 0
  <2>1. CASE v = w
    BY <2>1
  <2>2. CASE v # w
    BY <2>2 DEF BTypeOK, At
  <2> QED BY <2>1, <2>2
<1> QED BY <1>1, <1>2 DEF BTypeOK, At

\* A cycle that has moved on.
Moved(b, status) ==
  [pc |-> IF status = "HOLD" \/ b.next = Len(b.batch) THEN "final" ELSE "signals",
   stamp |-> b.stamp, health |-> b.health, status |-> status, batch |-> b.batch,
   next |-> b.next + 1, admitted |-> 0, sequence |-> 0, grounded |-> b.grounded]

\* Moving on touches the process's own cycle only.
LEMMA OnwardMoves ==
  ASSUME BTypeOK, NEW w \in Workers, Busy(w), NEW status \in Statuses, Onward(w, status)
  PROVE  /\ body' \in [Workers -> Cycle]
         /\ \A v \in Workers \ {w} : body'[v] = body[v]
         /\ body'[w] = Moved(body[w], status)
         /\ body'[w].pc = "signals" => body'[w].next \in DOMAIN body'[w].batch
<1> DEFINE b == body[w]
<1>1. body \in [Workers -> Cycle] /\ b \in Cycle
  BY DEF BTypeOK
<1>2. body' = [body EXCEPT ![w] = Moved(b, status)]
  BY <1>1 DEF Onward, Cycle, Moved
<1>3. body'[w] = Moved(b, status) /\ \A v \in Workers \ {w} : body'[v] = body[v]
  BY <1>1, <1>2
<1>4. Moved(b, status) \in Cycle
  <2> HIDE DEF b
  <2> QED BY <1>1 DEF Cycle, Pcs, Moved
<1>5. body' \in [Workers -> Cycle]
  BY <1>1, <1>2, <1>4
<1>6. body'[w].pc = "signals" => body'[w].next \in DOMAIN body'[w].batch
  <2>1. /\ b.next \in 1..Len(b.batch) /\ Len(b.batch) \in Nat
        /\ DOMAIN b.batch = 1..Len(b.batch)
    BY BatchOf
  <2>2. /\ body'[w].next = b.next + 1 /\ body'[w].batch = b.batch
        /\ body'[w].pc = "signals" => b.next # Len(b.batch)
    BY <1>3 DEF Moved
  <2> HIDE DEF b
  <2> QED BY <2>1, <2>2
<1> QED BY <1>3, <1>5, <1>6

\* Onto the next signal, when the journal has what the status claims of this one.
LEMMA OnwardIsSound ==
  ASSUME BTypeOK, Grows, NEW w \in Workers, Busy(w), CycleSound(w), ProcessSound(w),
         NEW status \in Statuses, Onward(w, status), node' = node,
         status \in {"PREPARED", "MONITOR"} =>
           /\ body[w].status \in {"PREPARED", "MONITOR"}
           /\ Dealt(journal, Signal(w), body[w].stamp)
  PROVE  CycleSound(w)' /\ ProcessSound(w)'
<1>1. /\ body[w].next \in 1..Len(body[w].batch) /\ Len(body[w].batch) \in Nat
      /\ DOMAIN body[w].batch = 1..Len(body[w].batch)
  BY BatchOf
<1>2. body'[w] = Moved(body[w], status)
  BY OnwardMoves
<1>3. /\ body'[w].status = status /\ body'[w].next = body[w].next + 1
      /\ body'[w].stamp = body[w].stamp /\ body'[w].batch = body[w].batch
      /\ body'[w].health = body[w].health /\ body'[w].grounded = body[w].grounded
      /\ body'[w].pc \in {"final", "signals"}
      /\ body'[w].pc = "final" => status = "HOLD" \/ body[w].next = Len(body[w].batch)
      /\ status = "HOLD" => body'[w].pc = "final"
  BY <1>2 DEF Moved
<1>4. /\ \A s : Whole(journal, s) => Whole(journal', s)
      /\ \A s, t : Dealt(journal, s, t) => Dealt(journal', s, t)
  BY DealtGrows DEF Grows
<1>5. Envelope(w, "PREFLIGHT", "")' \in recorded'
  <2>1. Envelope(w, "PREFLIGHT", "")' = Envelope(w, "PREFLIGHT", "")
    BY <1>3 DEF Envelope
  <2>2. Envelope(w, "PREFLIGHT", "") \in recorded
    BY DEF CycleSound, Busy
  <2> QED BY <2>1, <2>2 DEF Grows
<1>6. body'[w].health = "HEALTHY" => body'[w].grounded
  BY <1>3 DEF CycleSound
<1>7. status \in {"PREPARED", "MONITOR"} =>
        \A k \in DOMAIN body'[w].batch :
          k < body'[w].next => Dealt(journal', body'[w].batch[k], body'[w].stamp)
  <2> SUFFICES ASSUME status \in {"PREPARED", "MONITOR"}, NEW k \in 1..Len(body[w].batch),
                      k < body[w].next + 1
               PROVE  Dealt(journal', body[w].batch[k], body[w].stamp)
    BY <1>1, <1>3
  <2>1. CASE k = body[w].next
    BY <2>1, <1>4 DEF Signal
  <2>2. CASE k < body[w].next
    BY <2>2, <1>1, <1>4 DEF CycleSound
  <2> QED BY <1>1, <2>1, <2>2
<1>8. body'[w].pc = "final" /\ body'[w].status = "PREPARED" =>
        body'[w].next > Len(body'[w].batch)
  BY <1>1, <1>3
<1>9. CycleSound(w)'
  BY <1>3, <1>5, <1>6, <1>7, <1>8 DEF CycleSound
<1>10. ProcessSound(w)'
  BY <1>3, <1>4 DEF ProcessSound
<1> QED BY <1>9, <1>10

\* A step that moves on and leaves the clock, the processes and the recorder.
LEMMA OnwardKeeps ==
  ASSUME BInv, NEW w \in Workers, Busy(w), NEW status \in Statuses, Onward(w, status),
         UNCHANGED <<clock, node, recorded>>, Grows,
         journal' \in Seq(Rows), RowsWereAnnounced',
         status \in {"PREPARED", "MONITOR"} =>
           /\ body[w].status \in {"PREPARED", "MONITOR"}
           /\ Dealt(journal, Signal(w), body[w].stamp)
  PROVE  BInv'
<1>1. BTypeOK /\ PreparedIsBacked /\ \A v \in Workers : CycleSound(v) /\ ProcessSound(v)
  BY DEF BInv
<1>2. /\ body' \in [Workers -> Cycle]
      /\ \A v \in Workers \ {w} : body'[v] = body[v]
      /\ body'[w].pc = "signals" => body'[w].next \in DOMAIN body'[w].batch
      /\ body'[w] = Moved(body[w], status)
  BY <1>1, OnwardMoves
<1>3. /\ body'[w].pc \in {"final", "signals"}
      /\ body'[w].stamp = body[w].stamp /\ body'[w].admitted = 0
  BY <1>2 DEF Moved
<1>4. BTypeOK'
  <2>1. node' \in [Workers -> Executors]
    BY <1>1 DEF BTypeOK
  <2>2. body[w].stamp \in 0..clock /\ 0 \in 0..clock
    BY <1>1 DEF BTypeOK
  <2> QED BY <1>1, <1>2, <1>3, <2>1, <2>2, TypesStay
<1>5. \A v \in Workers : CycleSound(v)' /\ ProcessSound(v)'
  BY <1>1, <1>2, OnwardIsSound, OthersStaySound
<1>6. PreparedIsBacked'
  BY <1>1, BackedStays
<1> QED BY <1>4, <1>5, <1>6 DEF BInv

\* A step that moves on without touching the journal.
LEMMA OnwardInPlace ==
  ASSUME BInv, NEW w \in Workers, Busy(w), NEW status \in Statuses, Onward(w, status),
         UNCHANGED <<clock, node, journal, recorded>>,
         status \in {"PREPARED", "MONITOR"} =>
           /\ body[w].status \in {"PREPARED", "MONITOR"}
           /\ Dealt(journal, Signal(w), body[w].stamp)
  PROVE  BInv'
<1>1. Grows
  BY DEF Grows, Extends
<1>2. journal' \in Seq(Rows)
  BY DEF BInv, BTypeOK
<1>3. RowsWereAnnounced'
  BY RowsStayAnnounced DEF BInv
<1> QED BY <1>1, <1>2, <1>3, OnwardKeeps

\* Only what is left to be watched counts as dealt with.
LEMMA DisposeKeeps ==
  ASSUME BInv, NEW w \in Workers, Dispose(w)
  PROVE  BInv'
<1> DEFINE plan == PlanStatus(Route(w))
           status == IF plan = "MONITOR" THEN body[w].status ELSE plan
<1>1. Busy(w) /\ Onward(w, status) /\ plan # "PREPARE_PR"
  BY DEF Dispose, Busy, At
<1>2. body[w].status \in Statuses
  BY BatchOf DEF BInv, Cycle
<1>3. plan \in {"MONITOR", "HUMAN_REVIEW", "HOLD"}
  BY <1>1, PlansOfRoutes
<1>4. status \in {"PREPARED", "MONITOR"} =>
        /\ body[w].status \in {"PREPARED", "MONITOR"}
        /\ Dealt(journal, Signal(w), body[w].stamp)
  <2>1. status \in {"PREPARED", "MONITOR"} => plan = "MONITOR"
    BY <1>3
  <2>2. plan = "MONITOR" => Route(w) = "MONITOR"
    BY PlansOfRoutes
  <2> QED BY <2>1, <2>2 DEF Dealt, Route
<1>5. status \in Statuses
  BY <1>2, <1>3 DEF Statuses
<1>6. UNCHANGED <<clock, node, journal, recorded>>
  BY DEF Dispose
<1> HIDE DEF plan, status
<1> QED BY <1>1, <1>4, <1>5, <1>6, OnwardInPlace

\* A body that is not well holds the work.
LEMMA RefuseKeeps ==
  ASSUME BInv, NEW w \in Workers, Refuse(w)
  PROVE  BInv'
BY OnwardInPlace DEF Refuse, Busy, At, Statuses

\* PREPARED is reported of work whose line is in the journal.
LEMMA LearnKeeps ==
  ASSUME BInv, NEW w \in Workers, Learn(w)
  PROVE  BInv'
<1>1. Busy(w) /\ UNCHANGED <<clock, node, journal, recorded>>
  BY DEF Learn, Busy, At
<1>2. CASE Onward(w, "HOLD")
  BY <1>1, <1>2, OnwardInPlace DEF Statuses
<1>3. CASE Onward(w, "HUMAN_REVIEW")
  BY <1>1, <1>3, OnwardInPlace DEF Statuses
<1>4. CASE Onward(w, "PREPARED") /\ body[w].status # "HUMAN_REVIEW"
  <2>1. body[w].status \in {"PREPARED", "MONITOR"}
    BY <1>4, BatchOf DEF BInv, CycleSound, Cycle, Statuses, Learn, At
  <2>2. Dealt(journal, Signal(w), body[w].stamp)
    BY DEF BInv, CycleSound, Learn, At, Dealt, Route
  <2> QED BY <1>1, <1>4, <2>1, <2>2, OnwardInPlace DEF Statuses
<1> QED BY <1>2, <1>3, <1>4 DEF Learn

\* Whatever a broken write leaves, its lines were there or carry w's signal.
LEMMA RemainsOfWrite ==
  ASSUME BInv, NEW w \in Workers, At(w, "writing"), journal' \in Remains(w),
         recorded' = recorded
  PROVE  Grows /\ journal' \in Seq(Rows) /\ RowsWereAnnounced'
<1>1. /\ BTypeOK /\ journal \in Seq(Rows) /\ DOMAIN journal = 1..Len(journal)
      /\ Len(journal) \in Nat /\ RowsWereAnnounced /\ CycleSound(w)
  BY DEF BInv, BTypeOK
<1>2. CASE journal' = journal
  BY <1>1, <1>2, RowsStayAnnounced DEF Grows, Extends
<1>3. CASE \E f \in {"torn", "unended", "whole"} : journal' = Append(journal, Line(w, f))
  <2>1. PICK f \in {"torn", "unended", "whole"} : journal' = Append(journal, Line(w, f))
    BY <1>3
  <2>2. body[w] \in Cycle /\ body[w].sequence > 0 /\ Signal(w) \in Signals
    BY <1>1, BatchOf DEF BTypeOK, At, Busy
  <2>3. Line(w, f) \in Rows
    BY <2>2 DEF Line, Rows, Cycle
  <2>4. /\ Grows /\ journal' \in Seq(Rows)
        /\ DOMAIN journal' = 1..(Len(journal) + 1)
        /\ journal'[Len(journal) + 1] = Line(w, f)
    BY <1>1, <2>1, <2>3, AppendExtends DEF Grows
  <2>5. ASSUME NEW i \in DOMAIN journal'
        PROVE  \E e \in recorded :
                 /\ e.phase = "PREFLIGHT" /\ e.owner = journal'[i].owner
                 /\ e.stamp <= journal'[i].at
                 /\ \E k \in DOMAIN e.batch :
                      /\ e.batch[k] = journal'[i].signal
                      /\ ActionClass(e.batch[k], e.stamp) = "AUTO_PREPARE"
    <3>1. CASE i \in DOMAIN journal
      BY <1>1, <2>4, <3>1 DEF RowsWereAnnounced, Grows, Extends
    <3>2. CASE i = Len(journal) + 1
      <4>1. Envelope(w, "PREFLIGHT", "") \in recorded
        BY <1>1 DEF CycleSound, At
      <4>2. /\ journal'[i].owner = w /\ journal'[i].signal = Signal(w)
            /\ journal'[i].at = body[w].admitted
        BY <2>4, <3>2 DEF Line
      <4>3. body[w].stamp <= body[w].admitted /\ Route(w) = "AUTO_PREPARE"
        BY <1>1 DEF CycleSound, At
      <4>4. body[w].next \in DOMAIN body[w].batch
        BY <1>1 DEF BTypeOK, At
      <4> QED BY <4>1, <4>2, <4>3, <4>4 DEF Envelope, Signal, Route
    <3> QED BY <1>1, <2>4, <3>1, <3>2
  <2> QED BY <2>4, <2>5 DEF RowsWereAnnounced
<1> QED BY <1>2, <1>3 DEF Remains

\* A write that raised is held, whatever it left.
LEMMA AppendFailKeeps ==
  ASSUME BInv, NEW w \in Workers, AppendFail(w)
  PROVE  BInv'
<1>1. /\ Busy(w) /\ At(w, "writing") /\ Onward(w, "HOLD") /\ journal' \in Remains(w)
      /\ UNCHANGED <<clock, node, recorded>>
  BY DEF AppendFail, Busy, At
<1>2. Grows /\ journal' \in Seq(Rows) /\ RowsWereAnnounced'
  BY <1>1, RemainsOfWrite
<1> QED BY <1>1, <1>2, OnwardKeeps DEF Statuses

\* A step of w that leaves the clock, the journal and the processes and whose
\* cycle is sound after it.
LEMMA CycleStepKeeps ==
  ASSUME BInv, NEW w \in Workers, UNCHANGED <<clock, node, journal>>,
         recorded \subseteq recorded',
         \A e \in recorded' \ recorded : e.phase = "FINAL" /\ e.status = "PREPARED" =>
           \A k \in DOMAIN e.batch : Dealt(journal, e.batch[k], e.stamp),
         NEW cycle \in Cycle, body' = [body EXCEPT ![w] = cycle],
         cycle.stamp \in 0..clock, cycle.admitted \in 0..clock,
         cycle.pc \in {"signals", "writing", "learn"} => cycle.next \in DOMAIN cycle.batch,
         cycle.pc = "writing" => cycle.sequence > 0,
         CycleSound(w)', ProcessSound(w)'
  PROVE  BInv'
<1>1. /\ BTypeOK /\ RowsWereAnnounced /\ PreparedIsBacked
      /\ \A v \in Workers : CycleSound(v) /\ ProcessSound(v)
      /\ body \in [Workers -> Cycle]
  BY DEF BInv, BTypeOK
<1>2. /\ body' \in [Workers -> Cycle] /\ body'[w] = cycle
      /\ \A v \in Workers \ {w} : body'[v] = body[v]
  BY <1>1
<1>3. Grows
  BY DEF Grows, Extends
<1>4. BTypeOK'
  <2>1. journal' \in Seq(Rows) /\ node' \in [Workers -> Executors]
    BY <1>1 DEF BTypeOK
  <2> QED BY <1>1, <1>2, <2>1, TypesStay
<1>5. \A v \in Workers : CycleSound(v)' /\ ProcessSound(v)'
  BY <1>1, <1>2, <1>3, OthersStaySound
<1>6. RowsWereAnnounced'
  BY <1>1, RowsStayAnnounced
<1>7. PreparedIsBacked'
  BY <1>1 DEF PreparedIsBacked, Dealt, Whole
<1> QED BY <1>4, <1>5, <1>6, <1>7 DEF BInv

\* A cycle begins with what it found out.
LEMMA SenseKeeps ==
  ASSUME BInv, NEW w \in Workers, Sense(w)
  PROVE  BInv'
<1>1. PICK found \in Findings, batch \in Batches :
        /\ found.at = clock
        /\ body' = [body EXCEPT ![w] =
             Unworked("preflight", clock, found.health, found.grounded, batch)]
  BY DEF Sense
<1> DEFINE cycle == Unworked("preflight", found.at, found.health, found.grounded, batch)
<1>2. UNCHANGED <<clock, node, journal, recorded>> /\ clock \in Nat /\ clock \in 1..Horizon
  BY DEF Sense, BInv, BTypeOK
<1>3. body' = [body EXCEPT ![w] = cycle] /\ body \in [Workers -> Cycle]
  BY <1>1 DEF BInv, BTypeOK
<1>4. cycle \in Cycle /\ cycle.stamp = clock
  BY <1>1, <1>2, FindingIsGrounded DEF Unworked, Cycle, Pcs, Statuses, Healths
<1>5. body'[w] = cycle
  BY <1>3
<1>6. CycleSound(w)'
  <2>1. DOMAIN batch = 1..Len(batch)
    BY BodyAssumption
  <2> QED BY <1>5, <2>1, FindingIsGrounded DEF CycleSound, Unworked
<1>7. ProcessSound(w)'
  BY <1>2, <1>5 DEF BInv, ProcessSound, Unworked
<1>8. cycle.pc = "preflight" /\ cycle.admitted = 0
  BY DEF Unworked
<1>9. cycle.stamp \in 0..clock /\ cycle.admitted \in 0..clock
  BY <1>2, <1>4, <1>8
<1>10. recorded \subseteq recorded' /\ recorded' \ recorded = {}
  BY <1>2
<1> HIDE DEF cycle
<1> QED BY <1>2, <1>3, <1>4, <1>6, <1>7, <1>8, <1>9, <1>10, CycleStepKeeps

\* A process at rest is sound.
LEMMA AsleepIsSound ==
  ASSUME NEW w \in Workers, body'[w] = Asleep
  PROVE  Asleep \in Cycle /\ CycleSound(w)'
<1>1. <<>> \in Batches \union {<<>>}
  OBVIOUS
<1>2. Asleep \in Cycle
  BY <1>1 DEF Asleep, Unworked, Cycle, Pcs, Statuses
<1>3. /\ body'[w].pc = "asleep" /\ body'[w].health = "HOLD" /\ body'[w].status = "MONITOR"
      /\ body'[w].batch = <<>>
  BY DEF Asleep, Unworked
<1>4. DOMAIN body'[w].batch = {}
  BY <1>3
<1>5. CycleSound(w)'
  BY <1>3, <1>4 DEF CycleSound
<1> QED BY <1>2, <1>5

\* A cycle that ends leaves nothing to keep but its envelope.
LEMMA SleepKeeps ==
  ASSUME BInv, NEW w \in Workers, UNCHANGED <<clock, node, journal>>, Sleep(w),
         recorded \subseteq recorded',
         \A e \in recorded' \ recorded : e.phase = "FINAL" /\ e.status = "PREPARED" =>
           \A k \in DOMAIN e.batch : Dealt(journal, e.batch[k], e.stamp)
  PROVE  BInv'
<1>1. /\ body' = [body EXCEPT ![w] = Asleep] /\ body \in [Workers -> Cycle]
      /\ ProcessSound(w) /\ clock \in Nat
  BY DEF Sleep, BInv, BTypeOK
<1>2. body'[w] = Asleep
  BY <1>1
<1>3. /\ Asleep.pc = "asleep" /\ Asleep.stamp = 0 /\ Asleep.admitted = 0
      /\ 0 \in 0..clock
  BY <1>1 DEF Asleep, Unworked
<1>4. CycleSound(w)' /\ Asleep \in Cycle
  BY <1>2, AsleepIsSound
<1>5. ProcessSound(w)'
  BY <1>1, <1>2, <1>3 DEF ProcessSound
<1> QED BY <1>1, <1>3, <1>4, <1>5, CycleStepKeeps

\* Envelopes of a preflight claim nothing.
LEMMA PreflightKeeps ==
  ASSUME BInv, NEW w \in Workers, Preflight(w)
  PROVE  BInv'
<1>1. /\ UNCHANGED <<clock, node, journal>> /\ body[w].pc = "preflight"
      /\ clock \in Nat /\ body \in [Workers -> Cycle] /\ body[w] \in Cycle
      /\ body[w].stamp \in 0..clock /\ body[w].admitted \in 0..clock
      /\ BTypeOK /\ CycleSound(w) /\ ProcessSound(w)
  <2>1. UNCHANGED <<clock, node, journal>> /\ body[w].pc = "preflight"
    BY DEF Preflight, At
  <2>2. BTypeOK /\ CycleSound(w) /\ ProcessSound(w)
    BY DEF BInv
  <2> QED BY <2>1, <2>2 DEF BTypeOK
<1>2. /\ recorded \subseteq recorded'
      /\ \A e \in recorded' \ recorded : ~(e.phase = "FINAL" /\ e.status = "PREPARED")
  <2> DEFINE envelope == Envelope(w, "PREFLIGHT", "")
  <2>1. recorded' = recorded \union {envelope} \/ recorded' = recorded
    BY DEF Preflight, Record
  <2>2. envelope.phase # "FINAL"
    BY DEF Envelope
  <2> HIDE DEF envelope
  <2> QED BY <2>1, <2>2
<1>3. CASE Sleep(w)
  BY <1>1, <1>2, <1>3, SleepKeeps
<1>4. CASE /\ Envelope(w, "PREFLIGHT", "") \in recorded'
           /\ body' = [body EXCEPT ![w].pc =
                         IF body[w].batch = <<>> THEN "final" ELSE "signals"]
  <2>1. PICK pc \in {"final", "signals"} :
          /\ pc = IF body[w].batch = <<>> THEN "final" ELSE "signals"
          /\ body' = [body EXCEPT ![w].pc = pc]
    BY <1>4
  <2>2. PICK cycle \in Cycle : cycle = [body[w] EXCEPT !.pc = pc]
    BY <1>1 DEF Cycle, Pcs
  <2>3. body' = [body EXCEPT ![w] = cycle] /\ body'[w] = cycle
    BY <1>1, <2>1, <2>2
  <2>4. /\ cycle.pc = pc /\ cycle.stamp = body[w].stamp /\ cycle.health = body[w].health
        /\ cycle.status = body[w].status /\ cycle.batch = body[w].batch
        /\ cycle.next = 1 /\ cycle.admitted = body[w].admitted
        /\ cycle.grounded = body[w].grounded
    BY <1>1, <2>2 DEF Cycle, CycleSound
  <2>5. body[w].status # "HOLD" /\ body[w].next = 1
    BY <1>1 DEF CycleSound
  <2>6. pc = "signals" => 1 \in DOMAIN body[w].batch
    <3>1. body[w].batch \in Seq(Signals)
      BY <1>1, BatchOf
    <3> QED BY <2>1, <3>1
  <2>7. pc = "final" => Len(body[w].batch) = 0
    BY <2>1
  <2>8. Envelope(w, "PREFLIGHT", "")' = Envelope(w, "PREFLIGHT", "")
    BY <2>3, <2>4 DEF Envelope
  <2>9. CycleSound(w)'
    <3>1. /\ DOMAIN body[w].batch = 1..Len(body[w].batch) /\ Len(body[w].batch) \in Nat
      BY <1>1, BatchOf
    <3>2. \A k \in DOMAIN cycle.batch : ~(k < cycle.next)
      BY <2>4, <3>1
    <3>3. cycle.pc = "final" => cycle.next > Len(cycle.batch)
      BY <2>4, <2>7
    <3>4. cycle.health = "HEALTHY" => cycle.grounded
      BY <1>1, <2>4 DEF CycleSound
    <3>5. cycle.pc \in {"final", "signals"} /\ cycle.status # "HOLD"
      BY <2>4, <2>5
    <3>6. Envelope(w, "PREFLIGHT", "")' \in recorded'
      BY <1>4, <2>8
    <3> QED BY <2>3, <3>2, <3>3, <3>4, <3>5, <3>6 DEF CycleSound
  <2>10. ProcessSound(w)'
    BY <1>1, <2>1, <2>3, <2>4 DEF ProcessSound
  <2> QED BY <1>1, <1>2, <2>1, <2>3, <2>4, <2>6, <2>9, <2>10, CycleStepKeeps
<1> QED BY <1>3, <1>4 DEF Preflight, Record

\* A final envelope that says PREPARED is sent at the end of the batch, when
\* all of it is dealt with.
LEMMA FinishKeeps ==
  ASSUME BInv, NEW w \in Workers, Finish(w)
  PROVE  BInv'
<1>1. /\ UNCHANGED <<clock, node, journal>> /\ body[w].pc = "final" /\ Sleep(w)
      /\ BTypeOK /\ CycleSound(w)
  BY DEF Finish, At, BInv
<1>2. /\ recorded \subseteq recorded'
      /\ \A e \in recorded' \ recorded : e = Envelope(w, "FINAL", body[w].status)
  BY DEF Finish, Record
<1>3. ASSUME NEW e \in recorded' \ recorded, e.status = "PREPARED", NEW k \in DOMAIN e.batch
      PROVE  Dealt(journal, e.batch[k], e.stamp)
  <2>1. /\ e.batch = body[w].batch /\ e.stamp = body[w].stamp
        /\ body[w].status = "PREPARED"
    BY <1>2, <1>3 DEF Envelope
  <2>2. /\ DOMAIN body[w].batch = 1..Len(body[w].batch) /\ Len(body[w].batch) \in Nat
        /\ body[w].next \in Nat
    BY <1>1, BatchOf DEF Cycle
  <2>3. body[w].next > Len(body[w].batch)
    BY <1>1, <2>1 DEF CycleSound
  <2>4. k < body[w].next /\ k \in DOMAIN body[w].batch
    BY <1>3, <2>1, <2>2, <2>3
  <2> QED BY <1>1, <2>1, <2>4 DEF CycleSound
<1> QED BY <1>1, <1>2, <1>3, SleepKeeps

\* A cycle at a signal that is its business goes on to write or to learn.
LEMMA WorkIsSound ==
  ASSUME BTypeOK, NEW w \in Workers, CycleSound(w), At(w, "signals"),
         PlanStatus(Route(w)) = "PREPARE_PR", MayWork(w),
         UNCHANGED <<clock, journal, recorded>>,
         NEW cycle \in Cycle, body'[w] = cycle,
         cycle.pc \in {"writing", "learn"}, cycle.stamp = body[w].stamp,
         cycle.health = body[w].health, cycle.status = body[w].status,
         cycle.batch = body[w].batch, cycle.next = body[w].next,
         cycle.grounded = body[w].grounded,
         cycle.pc = "writing" => cycle.admitted = clock,
         cycle.pc = "learn" => Whole(journal, Signal(w))
  PROVE  CycleSound(w)'
<1>1. /\ body[w].pc = "signals" /\ Envelope(w, "PREFLIGHT", "") \in recorded
      /\ body[w].status # "HOLD" /\ body[w].health = "HEALTHY" /\ body[w].grounded
      /\ body[w].status \in {"PREPARED", "MONITOR"} =>
           \A k \in DOMAIN body[w].batch :
             k < body[w].next => Dealt(journal, body[w].batch[k], body[w].stamp)
  BY DEF CycleSound, At, MayWork
<1>2. Route(w) = "AUTO_PREPARE" /\ body[w].stamp \in 0..clock
  BY PlansOfRoutes DEF BTypeOK
<1>3. /\ Signal(w)' = Signal(w) /\ Route(w)' = Route(w)
      /\ Envelope(w, "PREFLIGHT", "")' = Envelope(w, "PREFLIGHT", "")
  BY DEF Signal, Route, Envelope
<1>4. cycle.pc = "writing" => cycle.stamp <= cycle.admitted
  BY <1>2 DEF BTypeOK
<1> QED BY <1>1, <1>2, <1>3, <1>4 DEF CycleSound

\* A cycle that was admitted and writes a line.
Admitted(b, at, sequence) ==
  [pc |-> "writing", stamp |-> b.stamp, health |-> b.health, status |-> b.status,
   batch |-> b.batch, next |-> b.next, admitted |-> at, sequence |-> sequence,
   grounded |-> b.grounded]

\* Admission changes three fields of a cycle.
LEMMA AdmittedIsUpdate ==
  ASSUME NEW b \in Cycle, NEW at, NEW sequence
  PROVE  [b EXCEPT !.pc = "writing", !.admitted = at, !.sequence = sequence] =
           Admitted(b, at, sequence)
<1> DEFINE b1 == [b EXCEPT !.pc = "writing"]
           b2 == [b1 EXCEPT !.admitted = at]
<1>1. b1 = [pc |-> "writing", stamp |-> b.stamp, health |-> b.health, status |-> b.status,
            batch |-> b.batch, next |-> b.next, admitted |-> b.admitted,
            sequence |-> b.sequence, grounded |-> b.grounded]
  BY DEF Cycle
<1>2. b2 = [pc |-> "writing", stamp |-> b.stamp, health |-> b.health, status |-> b.status,
            batch |-> b.batch, next |-> b.next, admitted |-> at,
            sequence |-> b.sequence, grounded |-> b.grounded]
  <2> HIDE DEF b1
  <2> QED BY <1>1
<1>3. [b2 EXCEPT !.sequence = sequence] = Admitted(b, at, sequence)
  <2> HIDE DEF b2
  <2> QED BY <1>2 DEF Admitted
<1> QED BY <1>3, Zenon

\* Executed, done before or held, a delegation has what it claims.
LEMMA DelegateKeeps ==
  ASSUME BInv, NEW w \in Workers, Delegate(w)
  PROVE  BInv'
<1>1. /\ BTypeOK /\ CycleSound(w) /\ ProcessSound(w)
      /\ body \in [Workers -> Cycle] /\ body[w] \in Cycle /\ clock \in Nat
      /\ Len(journal) \in Nat /\ node[w] \in Executors
      /\ body[w].stamp \in 0..clock /\ body[w].admitted \in 0..clock
      /\ At(w, "signals") => body[w].next \in DOMAIN body[w].batch
  BY DEF BInv, BTypeOK, At
<1>2. /\ At(w, "signals") /\ PlanStatus(Route(w)) = "PREPARE_PR" /\ MayWork(w)
      /\ UNCHANGED <<clock, node, journal, recorded>>
  BY DEF Delegate
<1>3. CASE /\ Decision(w) = "EXECUTE"
           /\ body' = [body EXCEPT ![w].pc = "writing", ![w].admitted = clock,
                                   ![w].sequence = Len(journal) + 1]
  <2>1. /\ Admitted(body[w], clock, Len(journal) + 1) \in Cycle
        /\ body' = [body EXCEPT ![w] = Admitted(body[w], clock, Len(journal) + 1)]
    <3>1. Admitted(body[w], clock, Len(journal) + 1) \in Cycle
      BY <1>1 DEF Cycle, Pcs, Admitted
    <3>2. body' = [body EXCEPT ![w] = Admitted(body[w], clock, Len(journal) + 1)]
      <4>1. body \in [Workers -> Cycle] /\ body[w] \in Cycle
        BY <1>1
      <4>2. body' = [body EXCEPT ![w] = [body[w] EXCEPT !.pc = "writing", !.admitted = clock,
                                                    !.sequence = Len(journal) + 1]]
        BY <1>3, <4>1, Zenon
      <4>3. [body[w] EXCEPT !.pc = "writing", !.admitted = clock,
                            !.sequence = Len(journal) + 1] =
              Admitted(body[w], clock, Len(journal) + 1)
        BY <4>1, AdmittedIsUpdate, Zenon
      <4> QED BY <4>2, <4>3, Zenon
    <3> QED BY <3>1, <3>2
  <2> DEFINE cycle == Admitted(body[w], clock, Len(journal) + 1)
  <2>2. body' = [body EXCEPT ![w] = cycle] /\ body'[w] = cycle
    BY <1>1, <2>1
  <2>3. /\ cycle.pc = "writing" /\ cycle.admitted = clock /\ cycle.stamp = body[w].stamp
        /\ cycle.health = body[w].health /\ cycle.status = body[w].status
        /\ cycle.batch = body[w].batch /\ cycle.next = body[w].next
        /\ cycle.grounded = body[w].grounded /\ cycle.sequence > 0
    BY <1>1 DEF Admitted
  <2> HIDE DEF cycle
  <2>4. cycle \in Cycle /\ CycleSound(w)'
    BY <1>1, <1>2, <2>1, <2>2, <2>3, WorkIsSound DEF cycle
  <2>5. node[w].canary.failed = {} /\ clock - node[w].canary.at <= CanaryMaxAge
    BY <1>3, AdmissionNeedsCanary DEF Decision
  <2>6. clock <= node[w].born + CanaryMaxAge
    <3>1. node[w].born \in Nat /\ node[w].canary.at \in Nat
      BY <1>1 DEF Executors, Collectable, ProcessSound
    <3>2. node[w].canary.at <= node[w].born /\ CanaryMaxAge \in Nat
      BY <1>1, BodyAssumption DEF ProcessSound
    <3> QED BY <1>1, <2>5, <3>1, <3>2
  <2>7. ProcessSound(w)'
    BY <1>1, <1>2, <2>2, <2>3, <2>5, <2>6 DEF ProcessSound
  <2>8. /\ cycle.stamp \in 0..clock /\ cycle.admitted \in 0..clock
        /\ cycle.next \in DOMAIN cycle.batch
    BY <1>1, <1>2, <2>3
  <2>9. recorded \subseteq recorded' /\ recorded' \ recorded = {}
    BY <1>2
  <2> QED BY <1>2, <2>2, <2>3, <2>4, <2>7, <2>8, <2>9, CycleStepKeeps
<1>4. CASE Decision(w) = "IDEMPOTENT_NOOP" /\ body' = [body EXCEPT ![w].pc = "learn"]
  <2>1. PICK cycle \in Cycle : cycle = [body[w] EXCEPT !.pc = "learn"]
    BY <1>1 DEF Cycle, Pcs
  <2>2. body' = [body EXCEPT ![w] = cycle] /\ body'[w] = cycle
    BY <1>1, <1>4, <2>1
  <2>3. /\ cycle.pc = "learn" /\ cycle.admitted = body[w].admitted
        /\ cycle.stamp = body[w].stamp
        /\ cycle.health = body[w].health /\ cycle.status = body[w].status
        /\ cycle.batch = body[w].batch /\ cycle.next = body[w].next
        /\ cycle.grounded = body[w].grounded
    BY <1>1, <2>1 DEF Cycle
  <2>4. Whole(journal, Signal(w))
    <3>1. PICK r \in node[w].replay : r = [id |-> Signal(w), input |-> Signal(w)]
      BY <1>4, NoopNeedsMemory DEF Decision
    <3>2. r.id = Signal(w)
      BY <3>1
    <3> QED BY <1>1, <3>2 DEF ProcessSound
  <2>5. CycleSound(w)'
    BY <1>1, <1>2, <2>2, <2>3, <2>4, WorkIsSound
  <2>6. ProcessSound(w)'
    BY <1>1, <1>2, <2>2, <2>3 DEF ProcessSound
  <2>7. /\ cycle.stamp \in 0..clock /\ cycle.admitted \in 0..clock
        /\ cycle.next \in DOMAIN cycle.batch
    BY <1>1, <1>2, <2>3
  <2>8. recorded \subseteq recorded' /\ recorded' \ recorded = {}
    BY <1>2
  <2> QED BY <1>2, <2>2, <2>3, <2>5, <2>6, <2>7, <2>8, CycleStepKeeps
<1>5. CASE Onward(w, "HOLD")
  BY <1>2, <1>5, OnwardInPlace DEF Busy, At, Statuses
<1> QED BY <1>3, <1>4, <1>5 DEF Delegate

\* The process remembers what its line says.
LEMMA AppendWriteKeeps ==
  ASSUME BInv, NEW w \in Workers, AppendWrite(w)
  PROVE  BInv'
<1>1. /\ BTypeOK /\ CycleSound(w) /\ ProcessSound(w) /\ PreparedIsBacked
      /\ \A v \in Workers : CycleSound(v) /\ ProcessSound(v)
      /\ body \in [Workers -> Cycle] /\ body[w] \in Cycle /\ journal \in Seq(Rows)
      /\ node \in [Workers -> Executors] /\ node[w] \in Executors
      /\ body[w].stamp \in 0..clock /\ body[w].admitted \in 0..clock
      /\ At(w, "writing") => body[w].next \in DOMAIN body[w].batch
  BY DEF BInv, BTypeOK, At
<1>2. /\ At(w, "writing") /\ journal' = Append(journal, Line(w, "whole")) /\ Remember(w)
      /\ body' = [body EXCEPT ![w].pc = "learn"] /\ UNCHANGED <<clock, recorded>>
  BY DEF AppendWrite
<1>3. Grows /\ journal' \in Seq(Rows) /\ RowsWereAnnounced'
  BY <1>2, RemainsOfWrite DEF Remains
<1>4. Whole(journal', Signal(w))
  <2>1. Line(w, "whole").signal = Signal(w) /\ Line(w, "whole").form = "whole"
    BY DEF Line
  <2> QED BY <1>1, <1>2, <2>1, AppendExtends DEF Whole
<1>5. PICK cycle \in Cycle : cycle = [body[w] EXCEPT !.pc = "learn"]
  BY <1>1 DEF Cycle, Pcs
<1>6. /\ body' = [body EXCEPT ![w] = cycle] /\ body'[w] = cycle
      /\ body' \in [Workers -> Cycle] /\ \A v \in Workers \ {w} : body'[v] = body[v]
  BY <1>1, <1>2, <1>5
<1>7. /\ cycle.pc = "learn" /\ cycle.admitted = body[w].admitted
      /\ cycle.stamp = body[w].stamp
      /\ cycle.health = body[w].health /\ cycle.status = body[w].status
      /\ cycle.batch = body[w].batch /\ cycle.next = body[w].next
      /\ cycle.grounded = body[w].grounded
  BY <1>1, <1>5 DEF Cycle
<1> DEFINE memory == [id |-> Signal(w), input |-> Signal(w)]
<1>8. /\ node' = [node EXCEPT ![w].replay = @ \union {memory}]
      /\ \A v \in Workers \ {w} : node'[v] = node[v]
      /\ node'[w].replay = node[w].replay \union {memory}
      /\ node'[w].canary = node[w].canary /\ node'[w].born = node[w].born
  BY <1>1, <1>2 DEF Remember, Executors, Collectable
<1>9. node' \in [Workers -> Executors]
  <2>1. memory \in [id : Signals, input : Signals]
    BY <1>1, <1>2, BatchOf DEF Busy, At
  <2>2. node[w].replay \union {memory} \in SUBSET [id : Signals, input : Signals]
    <3> HIDE DEF memory
    <3> QED BY <1>1, <2>1 DEF Executors, Collectable
  <2>3. PICK rest \in Executors :
          rest = [node[w] EXCEPT !.replay = node[w].replay \union {memory}]
    <3> HIDE DEF memory
    <3> QED BY <1>1, <2>2 DEF Executors, Collectable
  <2>4. node' = [node EXCEPT ![w] = rest]
    <3> HIDE DEF memory
    <3> QED BY <1>1, <1>8, <2>3
  <2> QED BY <1>1, <2>4
<1>10. BTypeOK'
  BY <1>1, <1>2, <1>3, <1>6, <1>7, <1>9, TypesStay DEF At
<1>11. CycleSound(w)'
  <2>1. /\ Envelope(w, "PREFLIGHT", "") \in recorded /\ Route(w) = "AUTO_PREPARE"
        /\ body[w].health = "HEALTHY" /\ body[w].grounded /\ body[w].status # "HOLD"
        /\ body[w].status \in {"PREPARED", "MONITOR"} =>
             \A k \in DOMAIN body[w].batch :
               k < body[w].next => Dealt(journal, body[w].batch[k], body[w].stamp)
    BY <1>1, <1>2 DEF CycleSound, At
  <2>2. /\ Signal(w)' = Signal(w) /\ Route(w)' = Route(w)
        /\ Envelope(w, "PREFLIGHT", "")' = Envelope(w, "PREFLIGHT", "")
    BY <1>6, <1>7 DEF Signal, Route, Envelope
  <2>3. \A s, t : Dealt(journal, s, t) => Dealt(journal', s, t)
    BY <1>3, DealtGrows DEF Grows
  <2> QED BY <1>2, <1>4, <1>6, <1>7, <2>1, <2>2, <2>3 DEF CycleSound
<1>12. ProcessSound(w)'
  <2>1. \A s : Whole(journal, s) => Whole(journal', s)
    BY <1>3, DealtGrows DEF Grows
  <2>2. ASSUME NEW r \in node'[w].replay PROVE Whole(journal', r.id)
    <3>1. CASE r \in node[w].replay
      BY <1>1, <2>1, <3>1 DEF ProcessSound
    <3>2. CASE r = memory
      <4>1. r.id = Signal(w)
        BY <3>2
      <4> QED BY <1>4, <4>1
    <3> HIDE DEF memory
    <3> QED BY <1>8, <3>1, <3>2
  <2>3. node'[w].canary.at \in Nat /\ node'[w].canary.at <= node'[w].born
    BY <1>1, <1>8 DEF ProcessSound
  <2> QED BY <1>6, <1>7, <2>2, <2>3 DEF ProcessSound
<1>13. \A v \in Workers : CycleSound(v)' /\ ProcessSound(v)'
  BY <1>1, <1>3, <1>6, <1>8, <1>11, <1>12, OthersStaySound
<1>14. PreparedIsBacked'
  BY <1>1, <1>2, <1>3, BackedStays
<1> QED BY <1>3, <1>10, <1>13, <1>14 DEF BInv

\* Another process takes the place of one that died, with evidence of its own.
LEMMA CrashKeeps ==
  ASSUME BInv, NEW w \in Workers, Crash(w)
  PROVE  BInv'
<1>1. /\ BTypeOK /\ PreparedIsBacked /\ RowsWereAnnounced
      /\ \A v \in Workers : CycleSound(v) /\ ProcessSound(v)
      /\ body \in [Workers -> Cycle] /\ journal \in Seq(Rows)
      /\ node \in [Workers -> Executors] /\ clock \in Nat /\ clock \in 1..Horizon
  BY DEF BInv, BTypeOK
<1>2. PICK start \in Starts : start.born = clock /\ node' = [node EXCEPT ![w] = start]
  BY DEF Crash
<1>3. body' = [body EXCEPT ![w] = Asleep] /\ UNCHANGED <<clock, recorded>>
  BY DEF Crash, Sleep
<1>4. Grows /\ journal' \in Seq(Rows) /\ RowsWereAnnounced'
  <2>1. CASE At(w, "writing")
    BY <1>3, <2>1, RemainsOfWrite DEF Crash
  <2>2. CASE ~At(w, "writing")
    <3>1. journal' = journal
      BY <2>2 DEF Crash
    <3> QED BY <1>1, <1>3, <3>1, RowsStayAnnounced DEF Grows, Extends
  <2> QED BY <2>1, <2>2
<1>5. /\ body'[w] = Asleep /\ CycleSound(w)' /\ Asleep \in Cycle
      /\ body' \in [Workers -> Cycle]
      /\ \A v \in Workers \ {w} : body'[v] = body[v]
  <2>1. body'[w] = Asleep
    BY <1>1, <1>3
  <2>2. CycleSound(w)' /\ Asleep \in Cycle
    BY <2>1, AsleepIsSound
  <2> QED BY <1>1, <1>3, <2>1, <2>2
<1>6. /\ Asleep.pc = "asleep" /\ Asleep.stamp = 0 /\ Asleep.admitted = 0
  BY DEF Asleep, Unworked
<1>7. /\ node'[w] = start /\ start \in Executors
      /\ node' \in [Workers -> Executors]
      /\ \A v \in Workers \ {w} : node'[v] = node[v]
      /\ start.replay = {} /\ start.canary.at \in Nat /\ start.canary.at <= start.born
  <2>1. /\ start = [canary |-> start.canary, grant |-> start.grant,
                    replay |-> {}, born |-> start.born]
        /\ start.canary \in Evidences(Horizon) /\ start.grant \in Grants
        /\ start.canary.at \in Nat /\ start.canary.at <= start.born
    BY StartedOnEvidence
  <2>2. start.born \in 1..clock
    BY <1>1, <1>2
  <2>3. start.replay = {} /\ {} \in SUBSET [id : Signals, input : Signals]
    BY <2>1
  <2>4. start \in Executors
    BY <2>1, <2>2, <2>3 DEF Executors, Collectable
  <2> QED BY <1>1, <1>2, <2>1, <2>3, <2>4
<1>8. BTypeOK'
  <2>1. 0 \in 0..clock
    BY <1>1
  <2> QED BY <1>1, <1>3, <1>4, <1>5, <1>6, <1>7, <2>1, TypesStay
<1>9. ProcessSound(w)'
  BY <1>5, <1>6, <1>7 DEF ProcessSound
<1>10. \A v \in Workers : CycleSound(v)' /\ ProcessSound(v)'
  BY <1>1, <1>4, <1>5, <1>7, <1>9, OthersStaySound
<1>11. PreparedIsBacked'
  BY <1>1, <1>3, <1>4, BackedStays
<1> QED BY <1>4, <1>8, <1>10, <1>11 DEF BInv

\* Time passes: evidence no younger than its process stays so.
LEMMA TickKeeps ==
  ASSUME BInv, Tick
  PROVE  BInv'
<1>1. /\ clock < Horizon /\ clock' = clock + 1 /\ UNCHANGED <<node, journal, recorded, body>>
      /\ BTypeOK /\ PreparedIsBacked /\ RowsWereAnnounced
      /\ \A v \in Workers : CycleSound(v) /\ ProcessSound(v)
      /\ clock \in 1..Horizon
  BY DEF Tick, BInv, BTypeOK
<1>2. clock \in Nat /\ clock' \in 1..Horizon /\ 1..clock \subseteq 1..clock'
      /\ 0..clock \subseteq 0..clock'
  BY <1>1, BodyAssumption
<1>3. (node \in [Workers -> Executors])'
  <2>1. Executors \subseteq Executors'
    BY <1>2 DEF Executors, Collectable
  <2>2. node \in [Workers -> Executors]
    BY <1>1 DEF BTypeOK
  <2>3. node' \in [Workers -> Executors']
    BY <1>1, <2>1, <2>2
  <2> QED BY <2>3
<1>4. BTypeOK'
  BY <1>1, <1>2, <1>3 DEF BTypeOK, At
<1>5. Grows /\ RowsWereAnnounced'
  BY <1>1, RowsStayAnnounced DEF Grows, Extends
<1>6. \A v \in Workers : CycleSound(v)' /\ ProcessSound(v)'
  BY <1>1, <1>5, OthersStaySound
<1>7. PreparedIsBacked'
  BY <1>1, <1>5, BackedStays
<1> QED BY <1>4, <1>5, <1>6, <1>7 DEF BInv

-----------------------------------------------------------------------------
(* The theorems *)

\* Nobody has done anything.
LEMMA BInitSound == BInit => BInv
<1> SUFFICES ASSUME BInit PROVE BInv
  OBVIOUS
<1>1. /\ clock = 1 /\ journal = <<>> /\ recorded = {}
      /\ node \in [Workers -> {s \in Starts : s.born = 1}]
      /\ body = [w \in Workers |-> Asleep]
  BY DEF BInit
<1>2. /\ Asleep.pc = "asleep" /\ Asleep.stamp = 0 /\ Asleep.admitted = 0
      /\ Asleep.health = "HOLD" /\ Asleep.status = "MONITOR" /\ Asleep.batch = <<>>
  BY DEF Asleep, Unworked
<1>3. Asleep \in Cycle
  <2>1. <<>> \in Batches \union {<<>>}
    OBVIOUS
  <2> QED BY <2>1 DEF Asleep, Unworked, Cycle, Pcs, Statuses
<1>4. ASSUME NEW w \in Workers
      PROVE  node[w] \in Executors /\ node[w].replay = {} /\ ProcessSound(w)
  <2>1. PICK start \in Starts : start.born = 1 /\ node[w] = start
    BY <1>1
  <2>2. /\ start = [canary |-> start.canary, grant |-> start.grant,
                    replay |-> {}, born |-> start.born]
        /\ start.canary \in Evidences(Horizon) /\ start.grant \in Grants
        /\ start.canary.at \in Nat /\ start.canary.at <= start.born
    BY StartedOnEvidence
  <2>3. start.replay = {} /\ {} \in SUBSET [id : Signals, input : Signals]
    BY <2>2
  <2>4. start.born \in 1..clock
    BY <1>1, <2>1
  <2>5. start \in Executors
    BY <2>2, <2>3, <2>4 DEF Executors, Collectable
  <2>6. body[w].pc = "asleep"
    BY <1>1, <1>2
  <2> QED BY <2>1, <2>2, <2>3, <2>5, <2>6 DEF ProcessSound
<1>5. BTypeOK
  <2>1. clock \in 1..Horizon /\ journal \in Seq(Rows)
    BY <1>1, BodyAssumption
  <2>2. node \in [Workers -> Executors]
    BY <1>1, <1>4
  <2>3. body \in [Workers -> Cycle]
    BY <1>1, <1>3
  <2> QED BY <1>1, <1>2, <2>1, <2>2, <2>3 DEF BTypeOK, At
<1>6. ASSUME NEW w \in Workers PROVE CycleSound(w)
  <2>1. body[w] = Asleep /\ DOMAIN Asleep.batch = {}
    BY <1>1, <1>2
  <2> QED BY <1>2, <2>1 DEF CycleSound
<1>7. RowsWereAnnounced /\ PreparedIsBacked
  BY <1>1 DEF RowsWereAnnounced, PreparedIsBacked
<1> QED BY <1>4, <1>5, <1>6, <1>7 DEF BInv

\* Each step keeps the invariant.
LEMMA BStepSound == BInv /\ [BNext]_bvars => BInv'
<1> SUFFICES ASSUME BInv, [BNext]_bvars PROVE BInv'
  OBVIOUS
<1>1. CASE Tick
  BY <1>1, TickKeeps
<1>2. ASSUME NEW w \in Workers, Sense(w) \/ BodyCycle(w) \/ Crash(w) PROVE BInv'
  <2>1. CASE Sense(w)
    BY <2>1, SenseKeeps
  <2>2. CASE Crash(w)
    BY <2>2, CrashKeeps
  <2>3. CASE BodyCycle(w)
    BY <2>3, PreflightKeeps, DisposeKeeps, RefuseKeeps, DelegateKeeps, AppendWriteKeeps,
       AppendFailKeeps, LearnKeeps, FinishKeeps DEF BodyCycle
  <2> QED BY <1>2, <2>1, <2>2, <2>3
<1>3. CASE UNCHANGED bvars
  <2>1. UNCHANGED <<clock, node, journal, recorded, body>>
    BY <1>3 DEF bvars
  <2>2. Grows /\ RowsWereAnnounced'
    BY <2>1, RowsStayAnnounced DEF BInv, Grows, Extends
  <2>3. \A v \in Workers : CycleSound(v)' /\ ProcessSound(v)'
    BY <2>1, <2>2, OthersStaySound DEF BInv
  <2>4. PreparedIsBacked'
    BY <2>1, <2>2, BackedStays DEF BInv
  <2>5. BTypeOK'
    BY <2>1 DEF BInv, BTypeOK, At, Executors, Collectable
  <2> QED BY <2>2, <2>3, <2>4, <2>5 DEF BInv
<1> QED BY <1>1, <1>2, <1>3 DEF BNext

\* The invariant holds.
LEMMA BInvariant == BSpec => []BInv
BY BInitSound, BStepSound, PTL DEF BSpec

\* Types: every line append numbers has a positive number, and a cycle at work
\* has a signal before it, whatever else writes the journal.
THEOREM BodyTypes == BSpec => []BTypeOK
<1>1. BInv => BTypeOK
  BY DEF BInv
<1> QED BY <1>1, BInvariant, PTL

\* Work begins only in a cycle that found every organ and every assessment of
\* the portfolio well and current, on a signal that was valid and no human's.
THEOREM WorkIsGrounded == BSpec => []ActedOnCurrentTruth
<1>1. BInv => ActedOnCurrentTruth
  <2>1. SUFFICES ASSUME BInv, NEW w \in Workers, body[w].pc \in {"writing", "learn"}
                 PROVE  /\ body[w].grounded
                        /\ SignalValid(Signal(w), body[w].stamp)
                        /\ ~Consequential(Signal(w))
    BY DEF ActedOnCurrentTruth
  <2>2. Route(w) = "AUTO_PREPARE" /\ body[w].grounded
    BY <2>1 DEF BInv, CycleSound
  <2> QED BY <2>2, PreparedSignalsAreFit DEF Route
<1> QED BY <1>1, BInvariant, PTL

\* No process is admitted to work later than CanaryMaxAge after its start, and
\* none on a canary that failed a check.
THEOREM AdmissionLapses == BSpec => []UnattendedStops
<1>1. BInv => UnattendedStops
  BY DEF BInv, ProcessSound, UnattendedStops, At
<1> QED BY <1>1, BInvariant, PTL

\* Every line of the journal was announced to the recorder before.
THEOREM JournalIsAnnounced == BSpec => []RowsWereAnnounced
<1>1. BInv => RowsWereAnnounced
  BY DEF BInv
<1> QED BY <1>1, BInvariant, PTL

\* An envelope that reports PREPARED has its lines in the journal.
THEOREM PreparedHasLines == BSpec => []PreparedIsBacked
<1>1. BInv => PreparedIsBacked
  BY DEF BInv
<1> QED BY <1>1, BInvariant, PTL

\* Within a cycle neither a hold nor the call for a human is ever taken back.
THEOREM AskedStaysAsked == BSpec => HumanAskStays
<1>1. ASSUME BInv, [BNext]_bvars, NEW w \in Workers, ~At(w, "asleep"), body'[w].pc # "asleep"
      PROVE  /\ body[w].status = "HOLD" => body'[w].status = "HOLD"
             /\ body[w].status = "HUMAN_REVIEW" => body'[w].status \in {"HUMAN_REVIEW", "HOLD"}
  <2>1. body \in [Workers -> Cycle] /\ body[w] \in Cycle /\ CycleSound(w)
    BY <1>1 DEF BInv, BTypeOK
  <2>2. body[w].status = "HOLD" => body[w].pc = "final"
    BY <2>1 DEF CycleSound
  <2>3. CASE body'[w] = body[w]
    BY <2>3
  <2>4. ASSUME BodyCycle(w) \/ Sense(w) \/ Crash(w)
        PROVE  /\ body[w].status = "HOLD" => body'[w].status = "HOLD"
               /\ body[w].status = "HUMAN_REVIEW" =>
                    body'[w].status \in {"HUMAN_REVIEW", "HOLD"}
    <3>1. ASSUME NEW status, Onward(w, status) PROVE body'[w].status = status
      BY <2>1, <3>1 DEF Onward, Cycle
    <3>2. ~Sleep(w)
      BY <1>1, <2>1 DEF Sleep, Asleep, Unworked
    <3>3. CASE Preflight(w)
      BY <2>1, <3>2, <3>3 DEF Preflight, Cycle
    <3>4. CASE Dispose(w)
      <4>1. /\ PlanStatus(Route(w)) \in {"MONITOR", "HUMAN_REVIEW", "HOLD"}
            /\ body[w].status # "HOLD"
        BY <2>2, <3>4, PlansOfRoutes DEF Dispose, At
      <4>2. body'[w].status = IF PlanStatus(Route(w)) = "MONITOR" THEN body[w].status
                              ELSE PlanStatus(Route(w))
        BY <3>1, <3>4 DEF Dispose
      <4> QED BY <4>1, <4>2
    <3>5. CASE Refuse(w)
      BY <3>1, <3>5 DEF Refuse
    <3>6. CASE Delegate(w)
      <4>1. CASE Onward(w, "HOLD")
        BY <3>1, <4>1
      <4>2. CASE body' = [body EXCEPT ![w].pc = "learn"]
        BY <2>1, <4>2 DEF Cycle
      <4>3. CASE body' = [body EXCEPT ![w].pc = "writing", ![w].admitted = clock,
                                      ![w].sequence = Len(journal) + 1]
        BY <2>1, <4>3 DEF Cycle
      <4> QED BY <3>6, <4>1, <4>2, <4>3 DEF Delegate
    <3>7. CASE AppendWrite(w)
      BY <2>1, <3>7 DEF AppendWrite, Cycle
    <3>8. CASE AppendFail(w)
      BY <3>1, <3>8 DEF AppendFail
    <3>9. CASE Learn(w)
      <4>1. body[w].status # "HOLD"
        BY <2>2, <3>9 DEF Learn, At
      <4> QED BY <3>1, <3>9, <4>1 DEF Learn
    <3>10. ~Sense(w) /\ ~Finish(w) /\ ~Crash(w)
      BY <1>1, <3>2 DEF Sense, Finish, Crash
    <3> QED BY <2>4, <3>3, <3>4, <3>5, <3>6, <3>7, <3>8, <3>9, <3>10 DEF BodyCycle
  <2>5. ASSUME NEW v \in Workers \ {w}, Sense(v) \/ BodyCycle(v) \/ Crash(v)
        PROVE  body'[w] = body[w]
    BY <2>1, <2>5 DEF Sense, BodyCycle, Crash, Preflight, Dispose, Refuse, Delegate,
       AppendWrite, AppendFail, Learn, Finish, Onward, Sleep
  <2>6. CASE Tick \/ UNCHANGED bvars
    BY <2>6, <2>3 DEF Tick, bvars
  <2> QED BY <1>1, <2>3, <2>4, <2>5, <2>6 DEF BNext
<1>2. BInv /\ [BNext]_bvars =>
        [\A w \in Workers : ~At(w, "asleep") /\ body'[w].pc # "asleep" =>
           /\ body[w].status = "HOLD" => body'[w].status = "HOLD"
           /\ body[w].status = "HUMAN_REVIEW" =>
                body'[w].status \in {"HUMAN_REVIEW", "HOLD"}]_bvars
  BY <1>1
<1> QED BY <1>2, BInvariant, PTL DEF BSpec, HumanAskStays

=============================================================================
