-------------------------- MODULE MCGovernedChange --------------------------
(* Evidence of the workload ebkl, collected in every way and with one thing *)
(* wrong at a time, three proposals and two consumers.                      *)
EXTENDS GovernedChange, TLC


Count(p, n) == [passed |-> p, total |-> n]

Raw(s) == [workload |-> "ebkl", sha |-> "c1", source |-> s,
           success |-> Count(9, 10), correct |-> Count(10, 10),
           safe |-> Count(100, 100), critical |-> 0, latencies |-> <<30, 10, 20>>]

Custody(raw) ==
    LET m == DeriveMetrics(raw)
    IN  [workload |-> "ebkl", sha |-> "c1", raw |-> raw, metrics |-> m,
         manifest |-> BuildClaim(raw, m), retrievable |-> TRUE,
         collected |-> 0, expires |-> 3]

Counted(raw) ==
    [path |-> "counted", workload |-> "ebkl", sha |-> "c1", source |-> raw.source,
     raw |-> raw, artifact |-> BuildFromSemantics(DeriveMetrics(raw), 0),
     claim |-> BuildClaim(raw, DeriveMetrics(raw)), custody |-> Custody(raw)]

Reported(s, success, safety) ==
    [workload |-> "ebkl", sha |-> "c1", source |-> s, samples |-> 10,
     success |-> success, correctness |-> Million, safety |-> safety, p95 |-> 20,
     kind |-> "ci_artifact", sensitive |-> FALSE, at |-> 0]

FromArtifact(s, success, safety) ==
    [path |-> "artifact", workload |-> "ebkl", sha |-> "c1", source |-> s,
     artifact |-> Reported(s, success, safety)]

FromSource(s, success, safety) ==
    [path |-> "source", workload |-> "ebkl", sha |-> "c1", source |-> s,
     reported |-> Reported(s, success, safety)]

Run == [public |-> FALSE, credential |-> TRUE, sensitive |-> FALSE, sha |-> "c1",
        completed |-> TRUE, succeeded |-> TRUE, at |-> 0]

Measured(s, batch) ==
    [path |-> "measured", workload |-> "ebkl", sha |-> "c1", source |-> s,
     run |-> Run, batch |-> batch]

BundleOf(s) ==
    CASE s = "counted" -> Counted(Raw(s))
      [] s = "healthy" -> Counted([Raw(s) EXCEPT !.success = Count(10, 10)])
      [] s = "critical" -> Counted([Raw(s) EXCEPT !.critical = 1, !.safe = Count(99, 100)])
      [] s = "unsafe" -> Counted([Raw(s) EXCEPT !.safe = Count(98, 100)])
      [] s = "empty" -> [Counted([Raw("counted") EXCEPT !.source = s])
                            EXCEPT !.raw.success = Count(0, 0)]
      [] s = "redrawn" -> [Counted(Raw(s)) EXCEPT !.raw.success = Count(8, 10)]
      [] s = "expired" -> [Counted(Raw(s)) EXCEPT !.custody.expires = 1, !.artifact.at = 1]
      [] s = "edited" -> [Counted(Raw(s)) EXCEPT !.artifact.success = Million]
      [] s = "artifact" -> FromArtifact(s, 950000, 990000)
      [] s = "unsafe artifact" -> FromArtifact(s, 900000, 989999)
      [] s = "source" -> FromSource(s, 950000, Million)
      [] s = "sensitive" -> [FromSource(s, 940000, Million) EXCEPT !.reported.sensitive = TRUE]
      [] s = "measured" -> Measured(s, {Reported("m1", 910000, Million),
                                        Reported("m2", 890000, Million)})
      [] s = "slow" -> Measured(s, {Reported("m1", 940000, Million)})
      [] s = "one unsafe" -> Measured(s, {Reported("m1", 850000, Million),
                                          Reported("m2", 880000, 980000)})
      [] s = "failed run" -> [Measured(s, {Reported("m1", 850000, Million)})
                                 EXCEPT !.run.succeeded = FALSE]

MCSources == {"counted", "healthy", "critical", "unsafe", "empty", "redrawn",
              "expired", "edited", "artifact", "unsafe artifact", "source",
              "sensitive", "measured", "slow", "one unsafe", "failed run"}

MCCollected == [s \in MCSources |-> BundleOf(s)]

Proposal(target, risk, reversible) ==
    [target |-> target, risk |-> risk, reversible |-> reversible, production |-> FALSE]

MCProposals == {Proposal("REFACTOR", "LOW", TRUE), Proposal("DATA_DELETION", "LOW", TRUE),
                Proposal("REFACTOR", "LOW", FALSE)}

Symmetric == Permutations(Consumers) \union Permutations(Keys)

MCTrials == {SandboxNeeds, SandboxNeeds \ {"regression"}}
=============================================================================
