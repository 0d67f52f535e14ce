------------------------- MODULE SecureTaskHandoff -------------------------
(***************************************************************************)
(* Workers that drain the durable queue: SecureTaskHandoff.run_once claims *)
(* a task, resolves its grant, runs it through VPSBodyExecutorAdapter and  *)
(* execute_node_action, and settles the lease with an ack or a nack.       *)
(*                                                                         *)
(* Between any two of these steps other workers move, the clock moves, the *)
(* lease may lapse and the worker may crash.  Two memories decide whether  *)
(* an action runs again: the adapter's replay_record, which lives in the   *)
(* process, and the node's evidence journal, a file that every worker      *)
(* verifies before it appends.  journal.append verifies, then writes, with *)
(* no lock in between.                                                     *)
(*                                                                         *)
(* Outside src/: the process that calls run_once and wires grant_loader    *)
(* and executor_factory.  It is taken to keep one replay_record per        *)
(* process and one journal per node, the wiring of the adapter's tests.    *)
(***************************************************************************)
EXTENDS SecureTaskIngress

CONSTANTS
  Workers,
  Requests,     \* body requests: an action id and the digest of its input
  RequestOf     \* RequestOf[t]: the body request in t's envelope

ASSUME RequestsAssumption ==
  /\ IsFiniteSet(Workers)
  /\ Requests \subseteq [action : Nat, input : Nat]
  /\ RequestOf \in [Tasks -> Requests]

VARIABLES
  worker,     \* worker[w]: where run_once is, and the claim it works on
  replay,     \* replay[w]: replay_record, as a set of requests
  journal     \* the evidence journal's lines

hvars == <<vars, worker, replay, journal>>

Pcs == {"idle", "claimed", "granted", "verified", "writing",
        "executed", "failed", "refused"}

\* sequence is the number journal.append computed for its record.
Worker == [pc : Pcs, task : Nat, token : Nat, sequence : Nat]
Idle == [pc |-> "idle", task |-> 0, token |-> 0, sequence |-> 0]

\* What was written for one record: all of it, all but the line feed, or a part
\* that does not parse.
Line == [form : {"whole", "unended", "torn"}, sequence : Nat, task : Nat, token : Nat]
Torn == [form |-> "torn", sequence |-> 0, task |-> 0, token |-> 0]

HInit ==
  /\ Init
  /\ worker = [w \in Workers |-> Idle]
  /\ replay = [w \in Workers |-> {}]
  /\ journal = <<>>

At(w, pc) == worker[w].pc = pc
Goto(w, pc) == worker' = [worker EXCEPT ![w].pc = pc]
Request(w) == RequestOf[worker[w].task]

\* journal.verify: raises, HOLD (the chain does not add up) or READY. A record
\* that follows an unended one is on the same line of the file, and that line
\* does not parse. A line numbered i that is the i-th was appended to an intact
\* chain of i - 1 lines, so its previous_digest is right as well.
ParsesAt(j, i) == j[i].form = "whole" \/ (j[i].form = "unended" /\ i = Len(j))

Unreadable(j) == \E i \in DOMAIN j : ~ParsesAt(j, i)

\* Mutant: any line that parses will do.
IntactReadable(j) == ~Unreadable(j)

Intact(j) == \A i \in DOMAIN j : ParsesAt(j, i) /\ j[i].sequence = i

-----------------------------------------------------------------------------
(* run_once, step by step *)

ClaimFor(w, t, s, d) ==
  /\ ClaimNext(t, s, d)
  /\ worker' = [worker EXCEPT ![w] = [Idle EXCEPT
       !.pc = "claimed", !.task = t, !.token = tasks'[t].lease_token]]

Claim(w, s) ==
  /\ At(w, "idle")
  /\ \/ ClaimNothing(s) /\ UNCHANGED worker
     \/ \E t \in Tasks, d \in LeaseDurations : ClaimFor(w, t, s, d)
  /\ UNCHANGED <<replay, journal>>

\* grant_loader finds the authoritative grant of the task's scope, or does not.
LoadGrant(w) ==
  /\ At(w, "claimed")
  /\ Goto(w, "granted") \/ Goto(w, "refused")
  /\ UNCHANGED <<vars, replay, journal>>

\* The activation gate, the request checks, the node's task checks and the
\* ACP, which depend on nothing modelled here, may each refuse the request,
\* and the factory or the clock may raise.
Deny(w) ==
  /\ At(w, "granted")
  /\ Goto(w, "refused") \/ Goto(w, "failed")
  /\ UNCHANGED <<vars, replay, journal>>

Known(w) == \E r \in replay[w] : r.action = Request(w).action

\* An action id in the replay record: a no-op for the same input, else denied.
Replay(w) ==
  /\ At(w, "granted")
  /\ Known(w)
  /\ Goto(w, IF Request(w) \in replay[w] THEN "executed" ELSE "refused")
  /\ UNCHANGED <<vars, replay, journal>>

\* execute_node_action's own verification of the journal.
Verify(w) ==
  /\ At(w, "granted")
  /\ ~Known(w)
  /\ Goto(w, IF Unreadable(journal) THEN "failed"
             ELSE IF Intact(journal) THEN "verified" ELSE "refused")
  /\ UNCHANGED <<vars, replay, journal>>

\* Mutant: the line's number is off by one.
AppendCheckBehind(w) ==
  /\ At(w, "verified")
  /\ worker' = [worker EXCEPT ![w] =
       IF Intact(journal)
       THEN [@ EXCEPT !.pc = "writing", !.sequence = Len(journal) - 1]
       ELSE [@ EXCEPT !.pc = "failed"]]
  /\ UNCHANGED <<vars, replay, journal>>

\* The handler ran; append verifies the journal once more and numbers its line.
AppendCheck(w) ==
  /\ At(w, "verified")
  /\ worker' = [worker EXCEPT ![w] =
       IF Intact(journal)
       THEN [@ EXCEPT !.pc = "writing", !.sequence = Len(journal) + 1]
       ELSE [@ EXCEPT !.pc = "failed"]]
  /\ UNCHANGED <<vars, replay, journal>>

LineOf(w) == [form |-> "whole", sequence |-> worker[w].sequence,
              task |-> worker[w].task, token |-> worker[w].token]

\* What a write that is cut short leaves behind.
Remains(w) ==
  {journal, Append(journal, Torn), Append(journal, LineOf(w)),
   Append(journal, [LineOf(w) EXCEPT !.form = "unended"])}

\* The line is on disk, and __call__ remembers the request.
AppendWrite(w) ==
  /\ At(w, "writing")
  /\ Goto(w, "executed")
  /\ journal' = Append(journal, LineOf(w))
  /\ replay' = [replay EXCEPT ![w] = @ \cup {Request(w)}]
  /\ UNCHANGED vars

\* Mutants: the request is remembered before it is recorded; a failed append is
\* tried again under the same lease.
AppendFailRemembered(w) ==
  /\ At(w, "writing")
  /\ Goto(w, "failed")
  /\ journal' \in Remains(w)
  /\ replay' = [replay EXCEPT ![w] = @ \cup {Request(w)}]
  /\ UNCHANGED vars

AppendFailRetried(w) ==
  /\ At(w, "writing")
  /\ Goto(w, "verified")
  /\ journal' \in Remains(w)
  /\ UNCHANGED <<vars, replay>>

\* The write raises: before anything is written, half way, or at the fsync.
AppendFail(w) ==
  /\ At(w, "writing")
  /\ Goto(w, "failed")
  /\ journal' \in Remains(w)
  /\ UNCHANGED <<vars, replay>>

\* ack or nack under the claim's token. A lease that is gone gets a HOLD answer,
\* which run_once puts in its result and otherwise ignores.
SettleQueue(pc, t, k, s) ==
  \/ pc = "executed" /\ Ack(t, k, s)
  \/ pc = "failed" /\ Nack(t, k, s, FALSE)
  \/ pc = "refused" /\ Nack(t, k, s, TRUE)
  \/ ~HoldsLease(t, k, s) /\ UNCHANGED vars

Settle(w, s) ==
  /\ worker[w].pc \in {"executed", "failed", "refused"}
  /\ SettleQueue(worker[w].pc, worker[w].task, worker[w].token, s)
  /\ worker' = [worker EXCEPT ![w] = Idle]
  /\ UNCHANGED <<replay, journal>>

\* grant_loader, ack or nack raises, and nothing in run_once catches it.
Abandon(w) ==
  /\ worker[w].pc \in {"claimed", "executed", "failed", "refused"}
  /\ worker' = [worker EXCEPT ![w] = Idle]
  /\ UNCHANGED <<vars, replay, journal>>

\* The process dies, at any point, and comes back with an empty replay record.
\* A line it was writing may be on disk, whole or in part.
Crash(w) ==
  /\ worker' = [worker EXCEPT ![w] = Idle]
  /\ replay' = [replay EXCEPT ![w] = {}]
  /\ \/ UNCHANGED journal
     \/ At(w, "writing") /\ journal' \in Remains(w)
  /\ UNCHANGED vars

-----------------------------------------------------------------------------

Execute(w) ==
  \/ LoadGrant(w) \/ Deny(w) \/ Replay(w) \/ Verify(w) \/ AppendCheck(w)
  \/ AppendWrite(w) \/ AppendFail(w) \/ Abandon(w)
  \/ \E s \in Stamps : Settle(w, s)

Elsewhere == UNCHANGED <<worker, replay, journal>>

HTick == Tick /\ Elsewhere

HSubmit ==
  /\ \E t \in Tasks, s \in Stamps : \E expires \in (s + 1)..(s + MaxTtl) :
       Submit(t, s, expires)
  /\ Elsewhere

Poller(w) == \E s \in Stamps : Claim(w, s)

HNext ==
  \/ HTick
  \/ HSubmit
  \/ \E w \in Workers : Poller(w) \/ Execute(w) \/ Crash(w)

HSpec == HInit /\ [][HNext]_hvars

\* Time passes, every worker keeps calling run_once, and no call hangs.
FairHSpec ==
  /\ HSpec
  /\ WF_hvars(HTick)
  /\ \A w \in Workers : WF_hvars(Poller(w)) /\ WF_hvars(Execute(w))

-----------------------------------------------------------------------------
(* Properties *)

HTypeOK ==
  /\ TypeOK
  /\ worker \in [Workers -> Worker]
  /\ \A w \in Workers : ~At(w, "idle") => worker[w].task \in Tasks
  /\ replay \in [Workers -> SUBSET Requests]
  /\ journal \in Seq(Line)

LiveLeaseEndsByHolder ==
  \A t \in Tasks :
    /\ tasks[t].state = "LEASED" /\ tasks[t].lease_expires_at > now
    /\ tasks'[t].lease_token # tasks[t].lease_token
    => \E w \in Workers :
         /\ worker[w].pc \in {"executed", "failed", "refused"}
         /\ worker[w].task = t /\ worker[w].token = tasks[t].lease_token
         /\ tasks'[t].state = "ACKED" <=> At(w, "executed")
         /\ worker'[w] = Idle

\* A lease that is still running by the wall clock is never taken from its
\* holder, and no other worker ends it, not even the one that held an earlier
\* lease of the same task and settles late: the lease of a live task ends by the
\* step in which the very worker it was granted to reports its own outcome.
LiveLeaseKept == [][LiveLeaseEndsByHolder]_hvars

Records(t) == {i \in DOMAIN journal : journal[i].form # "torn" /\ journal[i].task = t}

\* A task is acknowledged only if its request really ran: a record of the very
\* same request is in the journal, although the worker that acknowledges may
\* have run nothing itself and answered from its replay record.
AckedWasExecuted ==
  \A t \in Tasks : tasks[t].state = "ACKED" =>
    \E u \in Tasks : RequestOf[u] = RequestOf[t] /\ Records(u) # {}

\* A task runs at most once under each lease it was ever given, so max_attempts
\* bounds its executions too, stale workers and crashed ones included.
OneRunPerLease ==
  \A t \in Tasks :
    /\ \A i, j \in Records(t) : journal[i].token = journal[j].token => i = j
    /\ \A i \in Records(t) : journal[i].token \in IssuedTokens(t)

\* The longest prefix of the journal that verifies.
IntactLen == CHOOSE n \in 0..Len(journal) :
  /\ \A i \in 1..n : ParsesAt(journal, i) /\ journal[i].sequence = i
  /\ n < Len(journal) => ~ParsesAt(journal, n + 1) \/ journal[n + 1].sequence # n + 1

\* The record is on the same line of the file as the one before it.
SharesLine(i) == i > 1 /\ journal[i - 1].form # "whole"

\* A broken journal stops the node: past the last line that verifies there is
\* at most one line of every worker that was already writing.
BrokenJournalStops ==
  Cardinality({i \in (IntactLen + 1)..Len(journal) : ~SharesLine(i)})
    <= Cardinality(Workers)

\* With one worker on the node, what was acknowledged is also evidenced: its
\* record is in the part of the journal that verifies, unless it was appended
\* to the line of an earlier write that lost its line feed.
AckedIsEvidenced ==
  \A t \in Tasks : tasks[t].state = "ACKED" =>
    \E u \in Tasks : \E i \in Records(u) :
      RequestOf[u] = RequestOf[t] /\ (i <= IntactLen \/ SharesLine(i))

\* Every accepted task settles although workers crash, lose their leases and
\* fail, as long as each of them comes back.
WorkSettles ==
  \A t \in Tasks : tasks[t].state = "PENDING" ~> tasks[t].state \in Settled

\* No worker ever gave t back as failed.
NeverNacked(t) == \A i \in DOMAIN audit[t] : audit[t][i].type # "TASK_NACKED"

\* The node's README: an identical request is not executed again. Requests whose
\* failure was reported to the queue are left aside: those are tried again on
\* purpose.
IdenticalRunsOnce ==
  \A t, u \in Tasks :
    RequestOf[t] = RequestOf[u] /\ NeverNacked(t) /\ NeverNacked(u) =>
      \A i \in Records(t), j \in Records(u) : i = j

=============================================================================
