--------------------------- MODULE MCQueueLeases ---------------------------
(* Small instances of QueueLeases for TLC. *)
EXTENDS QueueLeases, TLC

CONSTANTS c1, c2, n1, n2, l1, l2, l3, parent, child

\* One delegated child under one root task.
ChildOfParent == (parent :> None) @@ (child :> parent)

RootOnly == parent :> None

NoTasks == <<>>

\* Threads, nodes and lease ids are only compared for equality.
Symmetry == Permutations(Threads) \cup Permutations(Nodes) \cup Permutations(LeaseIds)
=============================================================================
