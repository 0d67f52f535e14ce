--------------------------- MODULE MCBodyRuntime ---------------------------
(* Values of BodyRuntime's constants for TLC. *)
EXTENDS BodyRuntime, TLC

CONSTANTS w1, eyes, heart, lom, site

Observed == [sound |-> TRUE, at |-> 0, ttl |-> Ttl, ci_exact |-> TRUE, ci |-> "PASS",
             runtime |-> "HEALTHY", preview |-> "EXACT", policy |-> "LOCKED",
             production |-> "EXACT", database |-> "EXACT"]

Operated == [sound |-> TRUE, at |-> 0, ttl |-> Ttl, cert_at |-> 1, cert_ttl |-> Horizon,
             cert_ok |-> TRUE, queued |-> 0, awaiting |-> 0]

Golden == [sound |-> TRUE, at |-> 0, journey |-> "golden", exact |-> TRUE,
           status |-> "PASS", critical |-> TRUE]

MCSightings ==
  (site :> {Observed, [Observed EXCEPT !.preview = "DRIFT"],
            [Observed EXCEPT !.ci_exact = FALSE]}) @@
  (lom :> {Operated})

MCJourneys ==
  (site :> {<<Golden>>, <<Golden, Golden>>}) @@
  (lom :> {<<Golden>>})

Registered == [mode |-> "NON_PRODUCTION_INTEGRATION", required |-> Organs,
               registered |-> Organs, components_exist |-> TRUE,
               autonomous_ceiling |-> "PREPARE_PR",
               human_only |-> HumanAuthorities, closed_loop |-> ClosedLoop]

MCRegistries == {Registered}

Alive == [status |-> "HEALTHY", age |-> 0, evidenced |-> TRUE]

MCOrganReports == {Alive, [Alive EXCEPT !.status = "DEGRADED"],
                   [Alive EXCEPT !.age = -1], [Alive EXCEPT !.age = MaxAge + 1]}

Ready == [sound |-> TRUE, project |-> "site", type |-> "WORK_READY", severity |-> "LOW",
          observed_at |-> 1, expires_at |-> 3, action |-> "NON_PROD_CODE",
          production |-> FALSE, reversible |-> TRUE, risk |-> "LOW"]

Drift == [Ready EXCEPT !.type = "DRIFT", !.action = "PREPARE_PREVIEW_REFRESH",
                       !.expires_at = 4]

Deploy == [Ready EXCEPT !.type = "AUTHORITY_REQUEST", !.action = "PRODUCTION_DEPLOY"]

MCBatches == {<<Ready, Drift>>, <<Deploy, Drift>>}

Good == [uid |-> 1000, sudo |-> FALSE, docker |-> FALSE, secrets |-> FALSE,
         heartbeat |-> TRUE]

MCCanaries == {[name |-> AuthorizedNode, host |-> Good],
               [name |-> "elsewhere", host |-> [Good EXCEPT !.docker = TRUE]]}

Granted == [capabilities |-> {"factory.plan"}, delegated |-> {"factory.plan"},
            scope |-> [project |-> "site", environment |-> "staging"],
            parent_scope |-> <<>>, budget |-> [timeout |-> 60, retries |-> 0, cost |-> 0]]

MCGrants == {Granted}

=============================================================================
