------------------------ MODULE MCApprovedExecution ------------------------
(* Orchestration on two threads and two tasks, which are as many as governance *)
(* lets be active; three steps over two names and two rounds; up to three      *)
(* votes; and one thread that hands over to two tasks, with room for all.      *)
EXTENDS Orchestration, TLC

Batches == INSTANCE CommandEngines WITH
  Threads <- {"main"}, MaxTasks <- 3, MaxParallel <- 4, Batch <- 2, tasks <- rows

\* Threads, tasks and approval ids are only compared for equality.
Symmetry == Permutations(Threads) \cup Permutations(Tasks) \cup Permutations(Approvals)

MCInit ==
  \/ OrchestrationInit
  \/ part = "batches" /\ Batches!Init /\ Init /\ Plan!Init /\ Polls!Init

MCNext ==
  \/ OrchestrationNext
  \/ part = "batches" /\ Batches!Next /\ UNCHANGED <<part, vars, planVars, pollVars>>

MCSpec == MCInit /\ [][MCNext]_<<part, vars, engineVars, planVars, pollVars>>
=============================================================================
