------------------------------ MODULE Merging ------------------------------
(* What becomes of a task that hands work to others: how the results of its  *)
(* children are merged, by whom and from what, what operators decide about   *)
(* the merge, which artifacts it links, and who sees the tasks. The modules  *)
(* share no state, so that each behaviour is one of MergeResolution, of      *)
(* WorkerHandoff, of MergeReview, of GatewayTasks or of TaskArtifacts.       *)
EXTENDS MergeResolution

CONSTANTS
  Sessions,                           \* of all but MergeResolution
  Pool, Batch,                        \* WorkerHandoff
  Keys, Kids, Returns(_), Settings,   \* MergeReview
  Callers, DefaultOrg, Ids, ListPage, \* GatewayTasks
  Delegates, Attempts, LinkPage       \* TaskArtifacts

VARIABLES
  part,                                                          \* which of them
  status, delegation, waits, childMerges, nested, child, handoff,    \* WorkerHandoff
  payload, merged, report, review, ever,                         \* MergeReview
  task, context, made, request, settled,                         \* GatewayTasks
  kid, file, artifacts, outcome, sync                            \* TaskArtifacts

Handoff == INSTANCE WorkerHandoff WITH merges <- childMerges, session <- handoff

Review == INSTANCE MergeReview WITH Policies <- Settings, session <- review

Tasks == INSTANCE GatewayTasks WITH
  Threads <- Sessions, Tasks <- Ids, Page <- ListPage, Default <- DefaultOrg

Artifacts == INSTANCE TaskArtifacts WITH
  Children <- Delegates, Page <- LinkPage,
  child <- kid, rows <- artifacts, result <- outcome

\* The text of a batch names one worker at least.
ASSUME BatchAssumption == Pool \in Nat /\ Batch \in Nat \ {0}

\* A policy is always in force.
ASSUME SettingsAssumption == Settings # {}

\* The code's pages are of 200 tasks and of 100 artifacts.
ASSUME PageAssumption == ListPage \in Nat \ {0} /\ LinkPage \in Nat

\* A row or a merge is not None, nor is a child its own parent.
ASSUME RowsAssumption ==
  /\ None \notin Ids \cup Kids \cup Handoff!Statuses
  /\ None \notin [org: Tasks!Orgs, who: Tasks!Whos, parent: Ids \cup {None}]
  /\ None \notin [org: Tasks!Orgs, who: Tasks!Whos]
  /\ None \notin Artifacts!Merge
  /\ Artifacts!Parent \notin Delegates

\* A task is delegated to the workers of its batch, and each child attempted.
ASSUME DelegatesAssumption == IsFiniteSet(Delegates) /\ Attempts \in Nat \ {0}

handoffVars == <<status, delegation, waits, childMerges, nested, child, handoff>>
reviewVars == <<payload, merged, report, review, ever>>
taskVars == <<task, context, made, request, settled>>
artifactVars == <<kid, file, artifacts, outcome, sync>>

\* What MergeResolution starts with in a behaviour of another part.
Still ==
  /\ merges = [k \in Children |-> [worker |-> CHOOSE w \in Workers : TRUE, value |-> None]]
  /\ policy = "last_child_wins"
  /\ override = None

MergingInit ==
  /\ part \in {"resolution", "handoff", "review", "tasks", "artifacts"}
  /\ Init /\ (part = "resolution" \/ Still)
  /\ Handoff!Init
  /\ Review!Init
  /\ Tasks!Init
  /\ Artifacts!Init

MergingNext ==
  \/ /\ part = "resolution" /\ Next
     /\ UNCHANGED <<part, handoffVars, reviewVars, taskVars, artifactVars>>
  \/ /\ part = "handoff" /\ Handoff!Next
     /\ UNCHANGED <<part, vars, reviewVars, taskVars, artifactVars>>
  \/ /\ part = "review" /\ Review!Next
     /\ UNCHANGED <<part, vars, handoffVars, taskVars, artifactVars>>
  \/ /\ part = "tasks" /\ Tasks!Next
     /\ UNCHANGED <<part, vars, handoffVars, reviewVars, artifactVars>>
  \/ /\ part = "artifacts" /\ Artifacts!Next
     /\ UNCHANGED <<part, vars, handoffVars, reviewVars, taskVars>>

MergingSpec ==
  MergingInit /\ [][MergingNext]_<<part, vars, handoffVars, reviewVars, taskVars, artifactVars>>

-----------------------------------------------------------------------------

\* No child's result is merged twice, although a child may be resumed by two
\* sessions at once, each of which merges it (_sync_parent_after_child).
MergedOnce == Handoff!MergedOnce

\* An override only ever names a key and a child of this task's merges, although
\* it is written after it was checked, and other decisions in between.
OverridesAdmitted == Review!OverridesAdmitted

\* The report follows the decisions on record at the end of every operation
\* during which no other wrote, whatever was left behind by those before it.
ReviewFollows == Review!ReviewFollows

\* A child task is of the tenant of its parent, in the row and in its context,
\* whoever asked for it and whatever others do to it while it is being made:
\* unless a process ended before it was done, or its parent was such a child.
ChildrenInTenant == Tasks!ChildrenInTenant

\* A list of tasks read in pages, while tasks are created, adopted, cancelled and
\* reviewed, lacks none that was in the caller's scope throughout, but for one
\* for each that left the scope meanwhile or was counted too late.
ListsComplete == Tasks!ListsComplete

\* Each artifact of a child whose merge the parent's result or a report shows is
\* linked to the parent once, whatever attempts, other children and restored
\* reports do.
LinkedOnce == Artifacts!LinkedOnce

\* The artifacts a merge names as linked are those its link added, as in the store
\* of test_orchestrator_service_integration.py, whose write_artifact returns what
\* it appended.
LinksReported == Artifacts!LinksReported
=============================================================================
