---------------------------- MODULE GovernedRun ----------------------------
(***************************************************************************)
(* What the improvement engine promises of every task, with its processes, *)
(* their file and head, and the steps of an append hidden: an event is     *)
(* answered once; an attempt is started only when the one before it has    *)
(* been with the executor, and goes there once; a task is prepared only    *)
(* on a cleared last attempt; prepared or stopped, it stays what it is.    *)
(* An attempt may still be started, and run, after its task was stopped:   *)
(* the code looks at the task before it appends.                           *)
(***************************************************************************)
EXTENDS Naturals

CONSTANT Events

VARIABLE run    \* run[e]: the task of event e, as an outsider sees it

Fresh == [stage |-> "absent", started |-> 0, ran |-> 0, cleared |-> 0, accepted |-> 0]

GInit == run = [e \in Events |-> Fresh]

Create(e) ==
  /\ run[e].stage = "absent"
  /\ run' = [run EXCEPT ![e].stage = "waiting"]

Begin(e) ==
  /\ run[e].stage = "waiting"
  /\ run' = [run EXCEPT ![e].stage = "working"]

Start(e) ==
  /\ run[e].stage \in {"working", "stopped"}
  /\ run[e].ran = run[e].started
  /\ run' = [run EXCEPT ![e].started = @ + 1]

Execute(e) ==
  /\ run[e].ran < run[e].started
  /\ run' = [run EXCEPT ![e].ran = @ + 1]

Clear(e) ==
  /\ run[e].stage \in {"working", "stopped"}
  /\ run[e].ran = run[e].started /\ run[e].ran > 0
  /\ run' = [run EXCEPT ![e].cleared = run[e].started]

Prepare(e) ==
  /\ run[e].stage = "working"
  /\ run[e].cleared = run[e].started /\ run[e].ran = run[e].started /\ run[e].ran > 0
  /\ run' = [run EXCEPT ![e].stage = "prepared"]

Stop(e) ==
  /\ run[e].stage \in {"waiting", "working"}
  /\ run' = [run EXCEPT ![e].stage = "stopped"]

Answer(e) ==
  /\ run[e].stage # "absent"
  /\ run[e].accepted = 0
  /\ run' = [run EXCEPT ![e].accepted = 1]

RunStep(e) ==
  \/ Create(e) \/ Begin(e) \/ Start(e) \/ Execute(e)
  \/ Clear(e) \/ Prepare(e) \/ Stop(e) \/ Answer(e)

GNext == run' # run /\ \E e \in Events : RunStep(e)

GSpec == GInit /\ [][GNext]_run

=============================================================================
