---------------------------- MODULE TaskDelivery ----------------------------
(***************************************************************************)
(* What the durable ingress queue promises of every task, with its clocks, *)
(* tenants, priorities, tokens and audit trail hidden: a task is accepted  *)
(* once, is leased at most MaxAttempts times, one lease at a time, and     *)
(* settles once, either acknowledged out of a lease or held.               *)
(*                                                                         *)
(* One transaction of the queue may move many tasks (a claim first sweeps  *)
(* every lapsed lease), so a step lets each task take its own transition.  *)
(***************************************************************************)
EXTENDS Naturals

CONSTANTS Tasks, MaxAttempts

VARIABLES
  status,     \* status[t]: where task t is in its life
  attempts    \* attempts[t]: how many leases of t were ever granted

dvars == <<status, attempts>>

Status == {"absent", "waiting", "leased", "acked", "held"}

DInit ==
  /\ status = [t \in Tasks |-> "absent"]
  /\ attempts = [t \in Tasks |-> 0]

Becomes(t, s, n) == status'[t] = s /\ attempts'[t] = n

Accept(t) == status[t] = "absent" /\ Becomes(t, "waiting", attempts[t])

\* Also out of a lapsed lease: it is recovered and granted again in one step.
Lease(t) ==
  /\ status[t] \in {"waiting", "leased"}
  /\ attempts[t] < MaxAttempts
  /\ Becomes(t, "leased", attempts[t] + 1)

Requeue(t) ==
  /\ status[t] = "leased"
  /\ attempts[t] < MaxAttempts
  /\ Becomes(t, "waiting", attempts[t])

Acknowledge(t) == status[t] = "leased" /\ Becomes(t, "acked", attempts[t])

Hold(t) ==
  /\ status[t] \in {"waiting", "leased"}
  /\ Becomes(t, "held", attempts[t])

Stay(t) == Becomes(t, status[t], attempts[t])

TaskStep(t) ==
  Accept(t) \/ Lease(t) \/ Requeue(t) \/ Acknowledge(t) \/ Hold(t) \/ Stay(t)

DNext ==
  /\ status' \in [Tasks -> Status]
  /\ attempts' \in [Tasks -> 0..MaxAttempts]
  /\ \A t \in Tasks : TaskStep(t)

DSpec == DInit /\ [][DNext]_dvars

=============================================================================
