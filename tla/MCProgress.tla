----------------------------- MODULE MCProgress -----------------------------
(* One instance for what must come to an end: each behaviour is one of         *)
(* Scheduler, of QueueLeases or of ApprovedExecution, which share no state.    *)
EXTENDS Scheduler, TLC

CONSTANTS s1, c1, c2, n1, q1, l1, l2, k1, a1, a2, None

VARIABLES
  part,                                                         \* which of them
  clock, nodes, queues, leases, leased, operation, writer,      \* QueueLeases
  hour, tasks, approvals, request, runs, abandoned              \* ApprovedExecution

\* One scheduler whose thread may be replaced while it still works.
OneScheduler == [l \in Loops |-> s1]

\* Two connections at one queue, and a task.
Queue == INSTANCE QueueLeases WITH
  Threads <- {c1, c2}, Nodes <- {n1}, Queues <- {q1}, Tasks <- {k1},
  Parent <- k1 :> None, LeaseIds <- {l1, l2}, Caps <- {1, 2}, TTLs <- {1}, NodeTTL <- 1,
  LeaseTTL <- 2, BeatStatuses <- {"ready"}, FinalStatuses <- {}, Timeout <- 0,
  Horizon <- 0, now <- clock, tasks <- leased, req <- operation

\* Two requests that race with two approvals for one task.
Approval == INSTANCE ApprovedExecution WITH
  Threads <- {c1, c2}, Tasks <- {k1}, Approvals <- {a1, a2}, TTL <- 1,
  Outcomes <- {"completed", "failed"}, Horizon <- 1, now <- hour, req <- request

queueVars == <<clock, nodes, queues, leases, leased, operation, writer>>
approvalVars == <<hour, tasks, approvals, request, runs, abandoned>>

MCInit ==
  /\ part \in {"scheduler", "queue", "approval"}
  /\ Init /\ Queue!Init /\ Approval!Init

MCNext ==
  \/ part = "scheduler" /\ Next /\ UNCHANGED <<part, queueVars, approvalVars>>
  \/ part = "queue" /\ Queue!Next /\ UNCHANGED <<part, vars, approvalVars>>
  \/ part = "approval" /\ Approval!Next /\ UNCHANGED <<part, vars, queueVars>>

\* The fairness of the three modules: a thread goes on with what it has begun.
MCFairness ==
  /\ \A l \in Loops : WF_vars(part = "scheduler" /\ Step(l))
  /\ \A c \in {c1, c2} : WF_queueVars(part = "queue" /\ Queue!Proceed(c))
  /\ \A c \in {c1, c2} : WF_approvalVars(part = "approval" /\ Approval!Serve(c))

MCSpec == MCInit /\ [][MCNext]_<<part, vars, queueVars, approvalVars>> /\ MCFairness

-----------------------------------------------------------------------------

\* Every operation of the worker fabric that has begun comes to an end, by its
\* commit or by the busy timeout, even while another connection's transaction is
\* left open.
OperationsEnd == Queue!OperationsEnd

\* A task does not stay "running": the request that marked it writes an outcome,
\* unless its process ends first.
RunningSettles == Approval!RunningSettles
=============================================================================
