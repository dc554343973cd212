---------------------------- MODULE Orchestration ----------------------------
(* What decides that a command is run: approvals, what surrounds a command,   *)
(* plans and polls. They share no state here, so that each behaviour is one   *)
(* of ApprovedExecution, CommandEngines, Planning or Consensus.               *)
EXTENDS ApprovedExecution

CONSTANTS
  MaxTasks, MaxParallel, MaxRetries, Batch,  \* CommandEngines
  MaxSteps, MaxRounds,                       \* Planning
  Targets, Quorums, MaxVotes                 \* Consensus

VARIABLES
  part,                                        \* which of them
  rows, stack,                                 \* CommandEngines
  phase, rounds, steps, outputs, met, result,  \* Planning
  records, ballot                              \* Consensus

Engines == INSTANCE CommandEngines WITH tasks <- rows

Plan == INSTANCE Planning WITH Names <- Tasks

Polls == INSTANCE Consensus WITH Voters <- Threads, Polls <- Targets

ASSUME EnginesAssumption == MaxTasks \in Nat /\ MaxRetries \in Nat /\ Batch \in Nat

ASSUME PlanAssumption == MaxSteps \in Nat

ASSUME PollsAssumption == Quorums \subseteq Nat

engineVars == <<rows, stack>>
planVars == <<phase, rounds, steps, outputs, met, result>>
pollVars == <<records, ballot>>

OrchestrationInit ==
  /\ part \in {"execution", "engines", "plan", "polls"}
  /\ Init /\ Engines!Init /\ Plan!Init /\ Polls!Init

OrchestrationNext ==
  \/ part = "execution" /\ Next /\ UNCHANGED <<part, engineVars, planVars, pollVars>>
  \/ part = "engines" /\ Engines!Next /\ UNCHANGED <<part, vars, planVars, pollVars>>
  \/ part = "plan" /\ Plan!Next /\ UNCHANGED <<part, vars, engineVars, pollVars>>
  \/ part = "polls" /\ Polls!Next /\ UNCHANGED <<part, vars, engineVars, planVars>>

OrchestrationSpec ==
  OrchestrationInit /\ [][OrchestrationNext]_<<part, vars, engineVars, planVars, pollVars>>

-----------------------------------------------------------------------------
\* However the healing of several threads overlaps with itself, with commands and
\* with crashes, no task is queued again more often than the limit allows.
RetriesHeld == Engines!RetriesHeld

\* A command that came in over the network changes no task but its own.
RemoteStaysOut == Engines!RemoteStaysOut

\* No step of a plan is run before all it depends on had succeeded, and a plan in
\* an order that can be followed succeeds only if all of its steps did.
PlanHonest == Plan!PlanHonest

\* However votes overwrite each other, a settled poll holds the votes that settle
\* it, and one that has its quorum is not left open.
DecisionBacked == Polls!DecisionBacked
=============================================================================
