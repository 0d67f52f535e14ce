---------------------------- MODULE BodyRuntime ----------------------------
(***************************************************************************)
(* vl/lom-organism-integration-p0/body_runtime.py with the parts the       *)
(* repository binds to it: a coordinator process perceives LOM's organs,   *)
(* routes signals and delegates bounded work.  Its eyes are the            *)
(* portfolio's health (SystemHealth), its hands the execution node's       *)
(* adapter (VpsExecutor), which writes the node's evidence journal.        *)
(*                                                                         *)
(* A cycle calls its parts one after the other and the world moves on      *)
(* between the calls: time passes, the journal grows by the hand of        *)
(* another process or of one that died before, and the process may die     *)
(* itself.  The evidence recorder, the learning sink, the other organs and *)
(* the source of signals are callbacks that may answer anything.           *)
(***************************************************************************)
EXTENDS SystemHealth, Organism, VpsExecutor

CONSTANTS
  Workers,         \* processes that run body cycles on the node
  Eyes,            \* the organ that sees the portfolio
  Core, Projects,  \* expected_project_ids; Core is LOM's own operation
  Sightings,       \* Sightings[p]: what observations of p may compare to
  Journeys,        \* Journeys[p]: the results its journeys may be given
  Registries,      \* states the body registry may be found in
  OrganReports,    \* what the other organs' probes may answer, by age
  Batches,         \* sequences of signals a cycle may be given
  Canaries,        \* hosts the canary is run on, with the name it is told
  Grants,          \* grants a process may be started with
  Ttl,             \* max_age_seconds of an observation
  MaxAge,          \* max_age_seconds of a cycle
  CanaryMaxAge,    \* max_canary_age_seconds
  MaxRows,         \* bound on the journal
  MaxRecords,      \* bound on the envelopes the recorder takes
  Horizon          \* bound on the clock

\* The signals of the batches.
Signals == UNION {{b[i] : i \in DOMAIN b} : b \in Batches}

ASSUME BodyAssumption ==
  /\ Eyes \in Organs
  /\ Core \in Projects
  /\ Batches \subseteq Seq(Signals)
  /\ {Ttl, MaxAge, CanaryMaxAge, MaxRows, MaxRecords} \subseteq Nat
  /\ Horizon \in Nat \ {0}

\* Observations and journey results have a time, and sequences of results are such.
ASSUME SightAssumption ==
  \A p \in Projects :
    /\ \A s \in Sightings[p] : "at" \in DOMAIN s /\ s.ttl \in Int
    /\ \A r \in Journeys[p] : /\ Len(r) \in Nat /\ DOMAIN r = 1..Len(r)
                             /\ \A i \in 1..Len(r) : "at" \in DOMAIN r[i]

VARIABLES
  clock,      \* the time
  node,       \* node[w]: what w's executor was built with and remembers
  journal,    \* the node's evidence journal
  recorded,   \* envelopes the evidence recorder has taken
  body        \* body[w]: the cycle w is in

bvars == <<clock, node, journal, recorded, body>>

Pcs == {"asleep", "preflight", "signals", "writing", "learn", "final"}

\* grounded keeps whether what the cycle looked at warrants work (history).
Unworked(pc, stamp, health, grounded, batch) ==
  [pc |-> pc, stamp |-> stamp, health |-> health, status |-> "MONITOR", batch |-> batch,
   next |-> 1, admitted |-> 0, sequence |-> 0, grounded |-> grounded]

Asleep == Unworked("asleep", 0, "HOLD", FALSE, <<>>)

-----------------------------------------------------------------------------
(* What a process may be given: a portfolio snapshot and canary evidence *)

Health(p, sight, seen, t) ==
  LET o == [sight EXCEPT !.at = seen]
  IN  IF p = Core THEN OperationalHealth(o, t) ELSE ProjectHealth(o, t)

Dated(results, tried) == [i \in DOMAIN results |-> [results[i] EXCEPT !.at = tried]]

\* How the portfolio may be assessed at t, perhaps in part, from observations
\* and journey results of t or of the moment before.
Takes(t) ==
  [sight : {f \in [Projects -> UNION {Sightings[p] : p \in Projects}] :
              \A p \in Projects : f[p] \in Sightings[p]},
   trip : {f \in [Projects -> UNION {Journeys[p] : p \in Projects}] :
             \A p \in Projects : f[p] \in Journeys[p]},
   seen : {t - 1, t}, tried : {t - 1, t}, skipped : SUBSET Projects, again : BOOLEAN]

ProjectHealths(take, t) ==
  [p \in Projects \ take.skipped |-> Health(p, take.sight[p], take.seen, t)]

Sentinels(take, t) ==
  [p \in Projects |->
     RegressionSentinel({"golden"}, Dated(take.trip[p], take.tried), Ttl, t)]

\* The snapshot, and what it was made of.
Taken(take, t) ==
  [snapshot |-> PortfolioSnapshot(ProjectHealths(take, t), Sentinels(take, t),
                                  Projects, take.again),
   all |-> {ProjectHealths(take, t)[p] : p \in Projects \ take.skipped} \union
           {Sentinels(take, t)[p] : p \in Projects},
   whole |-> take.skipped = {} /\ ~take.again]

SnapshotsAt(t) == {Taken(take, t) : take \in Takes(t)}

\* Whether each assessment was there, healthy and not yet lapsed at t.
Current(taken, t) ==
  taken.whole /\ \A a \in taken.all : a.status = "HEALTHY" /\ t <= a.fresh_until

Row(report, at) == [status |-> report.status, at |-> at - report.age,
                    evidenced |-> report.evidenced]

\* Every organ's report says, with evidence and of late, that all is well.
AllWell(rows, at) ==
  \A o \in Organs : /\ rows[o].status = "HEALTHY" /\ rows[o].evidenced
                    /\ rows[o].at <= at /\ ~(at - rows[o].at > MaxAge)

\* What the organs report at t, the eyes of a portfolio taken then or before.
OrganRows(taken, reports, t) ==
  [o \in Organs |-> IF o = Eyes THEN EyesProbe(taken.snapshot, t) ELSE Row(reports[o], t)]

\* What a cycle begun at t may find out about the body, and whether what that is
\* made of was well and still is.
Found(t) ==
  {[at |-> t,
    health |-> Homeostasis(registry, OrganRows(taken, reports, t), t, MaxAge),
    grounded |-> AllWell(OrganRows(taken, reports, t), t) /\ Current(taken, t)] :
     taken \in UNION {SnapshotsAt(u) : u \in 1..t}, registry \in Registries,
     reports \in [Organs \ {Eyes} -> OrganReports]}

Findings == UNION {Found(t) : t \in 1..Horizon}

\* No canary has run, or one has, under the name of this node or of another.
Uncollected == [class |-> "UNCLASSIFIED", node |-> "", uid |-> 0, at |-> 0, failed |-> {}]

Evidences(t) ==
  {Uncollected} \union
  {CanaryEvidence(c.name, c.host, at) : c \in Canaries, at \in 1..t}

\* A process is started with a grant and the canary evidence it finds.
Starts == UNION {{[canary |-> e, grant |-> g, replay |-> {}, born |-> t] :
                    e \in Evidences(t), g \in Grants} : t \in 1..Horizon}

BInit ==
  /\ clock = 1
  /\ node \in [Workers -> {s \in Starts : s.born = 1}]
  /\ journal = <<>>
  /\ recorded = {}
  /\ body = [w \in Workers |-> Asleep]

At(w, pc) == body[w].pc = pc
Signal(w) == body[w].batch[body[w].next]
Route(w) == ActionClass(Signal(w), body[w].stamp)

-----------------------------------------------------------------------------
(* A body cycle *)

Sleep(w) == body' = [body EXCEPT ![w] = Asleep]

\* The signal ended with a status; a HOLD ends the batch.
Onward(w, status) ==
  body' = [body EXCEPT
    ![w].status = status,
    ![w].next = @ + 1,
    ![w].admitted = 0,
    ![w].sequence = 0,
    ![w].pc = IF status = "HOLD" \/ body[w].next = Len(body[w].batch)
              THEN "final" ELSE "signals"]

\* Probes, homeostasis and intake.  A body that is held or failed, a probe that
\* raises, or a batch that cannot be loaded ends the cycle and leaves nothing.
Sense(w) ==
  /\ At(w, "asleep")
  /\ \E found \in Findings, batch \in Batches :
       /\ found.at = clock
       /\ found.health \notin {"HOLD", "FAILED"}
       /\ body' = [body EXCEPT ![w] =
            Unworked("preflight", clock, found.health, found.grounded, batch)]
  /\ UNCHANGED <<clock, node, journal, recorded>>

Envelope(w, phase, status) ==
  [phase |-> phase, owner |-> w, stamp |-> body[w].stamp, status |-> status,
   batch |-> body[w].batch]

Record(envelope) ==
  /\ Cardinality(recorded) < MaxRecords
  /\ recorded' = recorded \union {envelope}

\* Mutant: the recorder's answer is not waited for.
PreflightUnread(w) ==
  /\ At(w, "preflight")
  /\ body' = [body EXCEPT ![w].pc = IF body[w].batch = <<>> THEN "final" ELSE "signals"]
  /\ Record(Envelope(w, "PREFLIGHT", "")) \/ UNCHANGED recorded
  /\ UNCHANGED <<clock, node, journal>>

\* The recorder takes the envelope and says so, or the cycle ends, whether the
\* envelope was taken or not.
Preflight(w) ==
  /\ At(w, "preflight")
  /\ \/ /\ Record(Envelope(w, "PREFLIGHT", ""))
        /\ body' = [body EXCEPT ![w].pc =
                      IF body[w].batch = <<>> THEN "final" ELSE "signals"]
     \/ /\ Record(Envelope(w, "PREFLIGHT", "")) \/ UNCHANGED recorded
        /\ Sleep(w)
  /\ UNCHANGED <<clock, node, journal>>

\* What is not work is held, put before a human or left to be watched.
Dispose(w) ==
  /\ At(w, "signals")
  /\ PlanStatus(Route(w)) # "PREPARE_PR"
  /\ Onward(w, IF PlanStatus(Route(w)) = "MONITOR" THEN body[w].status
               ELSE PlanStatus(Route(w)))
  /\ UNCHANGED <<clock, node, journal, recorded>>

\* Bounded work needs a healthy body.
MayWork(w) == body[w].health = "HEALTHY"

Refuse(w) ==
  /\ At(w, "signals")
  /\ PlanStatus(Route(w)) = "PREPARE_PR"
  /\ ~MayWork(w)
  /\ Onward(w, "HOLD")
  /\ UNCHANGED <<clock, node, journal, recorded>>

Decision(w) ==
  BodyExecutorDecision(Signal(w), node[w].canary, node[w].grant, node[w].replay,
                       clock, CanaryMaxAge, JournalReady(journal))

\* Mutant: the line's number is off by one.
DelegateBehind(w) ==
  /\ At(w, "signals")
  /\ PlanStatus(Route(w)) = "PREPARE_PR"
  /\ MayWork(w)
  /\ Len(journal) < MaxRows
  /\ Decision(w) = "EXECUTE"
  /\ body' = [body EXCEPT ![w].pc = "writing", ![w].admitted = clock,
                          ![w].sequence = Len(journal) - 1]
  /\ UNCHANGED <<clock, node, journal, recorded>>

\* The executor decides by its own clock.  If it executes, the handler runs,
\* append verifies the journal once more and numbers its line.
Delegate(w) ==
  /\ At(w, "signals")
  /\ PlanStatus(Route(w)) = "PREPARE_PR"
  /\ MayWork(w)
  /\ Len(journal) < MaxRows
  /\ \/ /\ Decision(w) = "EXECUTE"
        /\ body' = [body EXCEPT ![w].pc = "writing", ![w].admitted = clock,
                                ![w].sequence = Len(journal) + 1]
     \/ /\ Decision(w) = "IDEMPOTENT_NOOP"
        /\ body' = [body EXCEPT ![w].pc = "learn"]
     \/ /\ Decision(w) = "HOLD"
        /\ Onward(w, "HOLD")
  /\ UNCHANGED <<clock, node, journal, recorded>>

Line(w, form) == [form |-> form, sequence |-> body[w].sequence, owner |-> w,
                  signal |-> Signal(w), at |-> body[w].admitted]

\* What a write that is cut short leaves behind.
Remains(w) ==
  {journal} \union {Append(journal, Line(w, f)) : f \in {"torn", "unended", "whole"}}

Remember(w) ==
  node' = [node EXCEPT ![w].replay = @ \union {[id |-> Signal(w), input |-> Signal(w)]}]

\* The line is on disk, and the adapter remembers the action.
AppendWrite(w) ==
  /\ At(w, "writing")
  /\ journal' = Append(journal, Line(w, "whole"))
  /\ Remember(w)
  /\ body' = [body EXCEPT ![w].pc = "learn"]
  /\ UNCHANGED <<clock, recorded>>

\* Mutant: the adapter remembers the action although the append failed.
AppendFailRemembered(w) ==
  /\ At(w, "writing")
  /\ journal' \in Remains(w)
  /\ Remember(w)
  /\ Onward(w, "HOLD")
  /\ UNCHANGED <<clock, recorded>>

\* The write raises, before, in the middle of or after the line.
AppendFail(w) ==
  /\ At(w, "writing")
  /\ journal' \in Remains(w)
  /\ Onward(w, "HOLD")
  /\ UNCHANGED <<clock, node, recorded>>

\* Mutant: work that was done is reported even if a human was asked for.
LearnPrepared(w) ==
  /\ At(w, "learn")
  /\ Onward(w, "PREPARED") \/ Onward(w, "HOLD")
  /\ UNCHANGED <<clock, node, journal, recorded>>

\* The sink takes the lesson as a proposal, or the cycle is held although the
\* work is done.  A review that was asked for stays the cycle's status.
Learn(w) ==
  /\ At(w, "learn")
  /\ \/ Onward(w, IF body[w].status = "HUMAN_REVIEW" THEN "HUMAN_REVIEW" ELSE "PREPARED")
     \/ Onward(w, "HOLD")
  /\ UNCHANGED <<clock, node, journal, recorded>>

\* The final envelope tells the status, if the recorder takes it.
Finish(w) ==
  /\ At(w, "final")
  /\ Record(Envelope(w, "FINAL", body[w].status)) \/ UNCHANGED recorded
  /\ Sleep(w)
  /\ UNCHANGED <<clock, node, journal>>

\* The process dies and another is started, with nothing to remember.  A line it
\* was writing may be on disk, in part or whole.
Crash(w) ==
  /\ Sleep(w)
  /\ \E start \in Starts : start.born = clock /\ node' = [node EXCEPT ![w] = start]
  /\ IF At(w, "writing") THEN journal' \in Remains(w) ELSE UNCHANGED journal
  /\ UNCHANGED <<clock, recorded>>

BodyCycle(w) ==
  \/ Preflight(w) \/ Dispose(w) \/ Refuse(w) \/ Delegate(w)
  \/ AppendWrite(w) \/ AppendFail(w) \/ Learn(w) \/ Finish(w)

Tick ==
  /\ clock < Horizon
  /\ clock' = clock + 1
  /\ UNCHANGED <<node, journal, recorded, body>>

BNext ==
  \/ Tick
  \/ \E w \in Workers : Sense(w) \/ BodyCycle(w) \/ Crash(w)

BSpec == BInit /\ [][BNext]_bvars

-----------------------------------------------------------------------------
(* Properties *)

Rows == [form : {"whole", "unended", "torn"}, sequence : Nat \ {0}, owner : Workers,
         signal : Signals, at : Nat]

Statuses == {"MONITOR", "PREPARED", "HUMAN_REVIEW", "HOLD"}

\* What any process may have found.
Collectable == Evidences(Horizon)

Executors == [canary : Collectable, grant : Grants, born : 1..clock,
              replay : SUBSET [id : Signals, input : Signals]]

Cycle == [pc : Pcs, stamp : Nat, health : {"HEALTHY", "DEGRADED", "HOLD", "FAILED"},
          status : Statuses, batch : Batches \union {<<>>}, next : Nat \ {0},
          admitted : Nat, sequence : Nat, grounded : BOOLEAN]

\* Types: positions, envelopes' owners and journal lines keep theirs; the line
\* numbers that append computes are positive, and a cycle at work has a signal.
BTypeOK ==
  /\ clock \in 1..Horizon
  /\ node \in [Workers -> Executors]
  /\ journal \in Seq(Rows)
  /\ body \in [Workers -> Cycle]
  /\ \A w \in Workers :
       /\ {body[w].stamp, body[w].admitted} \subseteq 0..clock
       /\ body[w].pc \in {"signals", "writing", "learn"} => body[w].next \in DOMAIN body[w].batch
       /\ At(w, "writing") => body[w].sequence > 0

\* Work is delegated only on the truth as it stood when the cycle looked: the
\* body was well in every organ, each of the portfolio's assessments was there,
\* healthy and not yet lapsed, and the signal was valid and no human's affair.
ActedOnCurrentTruth ==
  \A w \in Workers : body[w].pc \in {"writing", "learn"} =>
    /\ body[w].grounded
    /\ SignalValid(Signal(w), body[w].stamp)
    /\ ~Consequential(Signal(w))

\* A process that nobody restarts stops acting: the canary evidence it was built
\* with admits nothing once CanaryMaxAge has passed since it was started.
UnattendedStops ==
  \A w \in Workers : At(w, "writing") =>
    /\ body[w].admitted <= node[w].born + CanaryMaxAge
    /\ node[w].canary.failed = {}

\* "Evidence recording is mandatory before bounded execution": whatever stands
\* in the journal was announced in a preflight envelope of the same process, by
\* a cycle that routed the signal to preparation.
RowsWereAnnounced ==
  \A i \in DOMAIN journal : \E e \in recorded :
    /\ e.phase = "PREFLIGHT"
    /\ e.owner = journal[i].owner
    /\ e.stamp <= journal[i].at
    /\ \E k \in DOMAIN e.batch :
         /\ e.batch[k] = journal[i].signal
         /\ ActionClass(e.batch[k], e.stamp) = "AUTO_PREPARE"

\* A final envelope that says PREPARED is backed by the journal: nothing in the
\* batch was held or a human's, and each piece of work has its whole line, be
\* it of this process's memory only that it was done.
PreparedIsBacked ==
  \A e \in recorded : e.phase = "FINAL" /\ e.status = "PREPARED" =>
    \A k \in DOMAIN e.batch :
      LET class == ActionClass(e.batch[k], e.stamp)
      IN  /\ class \in {"AUTO_PREPARE", "MONITOR"}
          /\ class = "AUTO_PREPARE" =>
               \E i \in DOMAIN journal : /\ journal[i].signal = e.batch[k]
                                         /\ journal[i].form = "whole"

\* Within a cycle a HOLD is final and a call for a human is not taken back.
HumanAskStays ==
  [][\A w \in Workers : ~At(w, "asleep") /\ body'[w].pc # "asleep" =>
       /\ body[w].status = "HOLD" => body'[w].status = "HOLD"
       /\ body[w].status = "HUMAN_REVIEW" => body'[w].status \in {"HUMAN_REVIEW", "HOLD"}]_bvars

=============================================================================
