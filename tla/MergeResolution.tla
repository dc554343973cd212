-------------------------- MODULE MergeResolution --------------------------
(***************************************************************************)
(* resolve_child_merge_data (task_merge_helpers.py): the results that the  *)
(* children of a task return are merged key by key, in the order in which  *)
(* the children were merged, under a policy and the operator's overrides.  *)
(*                                                                         *)
(* The body of the loop over a child's keys reads and writes the entries   *)
(* of its own key alone, so one key is all there is to model. A step is    *)
(* one child. Values are what the policies tell apart: equal or not, empty *)
(* or not, and their richness (merge_value_richness_score, a pair that is  *)
(* compared lexicographically, as a number of the same order).             *)
(***************************************************************************)
EXTENDS Integers, FiniteSets

CONSTANTS
  N,         \* number of children that are merged
  Workers,   \* the workers' ids
  Values,    \* values a child can return under the key
  Empty,     \* those for which merge_value_is_non_null is false
  Richness,  \* merge_value_richness_score
  Priority,  \* MERGE_WORKER_PRIORITY, 0 for a worker it does not list
  None       \* a child without the key; no override; no source

ASSUME CountAssumption == N \in Nat
ASSUME RankAssumption ==
  Richness \in [Values -> Nat] /\ Priority \in [Workers -> Nat] /\ Empty \subseteq Values
ASSUME NoneAssumption == None \notin Values \cup Workers \cup Nat
ASSUME WorkersAssumption == Workers \cap Nat = {}

VARIABLES
  merges,     \* child_merges: each child's worker and its value of the key
  policy,     \* resolution_policy
  override,   \* the key's entry in resolution_overrides: a worker or a child
  i,          \* children merged so far
  resolved,   \* resolved_data[key]
  source,     \* source_map[key], the child
  conflicts,  \* the incoming children of the recorded conflicts
  applied     \* key \in applied_overrides

input == <<merges, policy, override>>
vars == <<merges, policy, override, i, resolved, source, conflicts, applied>>

Children == 1 .. N

Policies == {"last_child_wins", "first_child_wins", "prefer_non_null",
             "prefer_richer_value", "prefer_worker_priority"}

Merge == [worker: Workers, value: Values \cup {None}]

TypeOK ==
  /\ merges \in [Children -> Merge]
  /\ policy \in Policies
  /\ override \in Workers \cup Children \cup {None}
  /\ i \in 0 .. N
  /\ resolved \in Values \cup {None}
  /\ source \in Children \cup {None}
  /\ conflicts \in SUBSET Children
  /\ applied \in BOOLEAN

Init ==
  /\ merges \in [Children -> Merge]
  /\ policy \in Policies
  /\ override \in Workers \cup Children \cup {None}
  /\ i = 0
  /\ resolved = None
  /\ source = None
  /\ conflicts = {}
  /\ applied = FALSE

-----------------------------------------------------------------------------
\* The policy keeps the value v of child p against the value w of child k.
\* Slip: the worker's priority is compared the other way round.
SlipRetains(p, v, k, w) ==
  CASE policy = "first_child_wins" -> TRUE
    [] policy = "prefer_non_null" -> v \notin Empty /\ w \in Empty
    [] policy = "prefer_richer_value" -> Richness[v] > Richness[w]
    [] policy = "prefer_worker_priority" ->
         Priority[merges[p].worker] < Priority[merges[k].worker]
    [] OTHER -> FALSE

Retains(p, v, k, w) ==
  CASE policy = "first_child_wins" -> TRUE
    [] policy = "prefer_non_null" -> v \notin Empty /\ w \in Empty
    [] policy = "prefer_richer_value" -> Richness[v] > Richness[w]
    [] policy = "prefer_worker_priority" ->
         Priority[merges[p].worker] > Priority[merges[k].worker]
    [] OTHER -> FALSE

\* merge_override_source_matches: a child's id, or its worker's.
Named(k) == override = k \/ override = merges[k].worker

Incoming == merges[i + 1].value

\* A child that returned nothing under the key.
Skip ==
  /\ i < N
  /\ Incoming = None
  /\ i' = i + 1
  /\ UNCHANGED <<input, resolved, source, conflicts, applied>>

\* Slip: a value that is taken over does not take the source with it.
SlipSource ==
  /\ i < N
  /\ Incoming # None
  /\ resolved \in {None, Incoming}
  /\ i' = i + 1
  /\ resolved' = Incoming
  /\ UNCHANGED <<input, source, conflicts, applied>>

\* The first value, or one equal to what there is: it takes the key over.
Take ==
  /\ i < N
  /\ Incoming # None
  /\ resolved \in {None, Incoming}
  /\ i' = i + 1
  /\ resolved' = Incoming
  /\ source' = i + 1
  /\ UNCHANGED <<input, conflicts, applied>>

\* A different value: a conflict, which the override decides if it names
\* either side (the previous one first), and the policy if it does not.
\* Slip: the override is only asked about the incoming child.
SlipResolve ==
  LET k == i + 1 IN
  /\ i < N
  /\ Incoming # None
  /\ resolved \notin {None, Incoming}
  /\ i' = k
  /\ conflicts' = conflicts \cup {k}
  /\ applied' = (applied \/ Named(k))
  /\ IF ~Named(k) /\ Retains(source, resolved, k, Incoming)
     THEN UNCHANGED <<resolved, source>>
     ELSE resolved' = Incoming /\ source' = k
  /\ UNCHANGED input

\* Slip: a conflict the policy settles by keeping the value is not recorded.
SlipRecord ==
  LET k == i + 1
      keeps == Named(source) \/ (~Named(k) /\ Retains(source, resolved, k, Incoming))
  IN
  /\ i < N
  /\ Incoming # None
  /\ resolved \notin {None, Incoming}
  /\ i' = k
  /\ applied' = (applied \/ Named(source) \/ Named(k))
  /\ IF keeps THEN UNCHANGED <<resolved, source, conflicts>>
     ELSE resolved' = Incoming /\ source' = k /\ conflicts' = conflicts \cup {k}
  /\ UNCHANGED input

Resolve ==
  LET k == i + 1
      keeps == Named(source) \/ (~Named(k) /\ Retains(source, resolved, k, Incoming))
  IN
  /\ i < N
  /\ Incoming # None
  /\ resolved \notin {None, Incoming}
  /\ i' = k
  /\ conflicts' = conflicts \cup {k}
  /\ applied' = (applied \/ Named(source) \/ Named(k))
  /\ IF keeps THEN UNCHANGED <<resolved, source>>
     ELSE resolved' = Incoming /\ source' = k
  /\ UNCHANGED input

Next == Skip \/ Take \/ Resolve

Spec == Init /\ [][Next]_vars

-----------------------------------------------------------------------------
(* Reference definitions, over the children merged so far.                 *)

Seen == {k \in 1 .. i : k \in Children /\ merges[k].value # None}

\* No two children agree.
AllDiffer == \A j, k \in Seen : merges[j].value = merges[k].value => j = k

\* review_status of the merge.
ReviewStatus ==
  IF conflicts = {} THEN "clean" ELSE IF applied THEN "overridden" ELSE "needs_attention"

-----------------------------------------------------------------------------
(* Properties.                                                             *)

\* The merge report names the child a value came from: source_map and
\* resolved_data agree, whichever rule moved which of them.
SourceTruthful ==
  IF source = None THEN resolved = None /\ Seen = {}
  ELSE source \in Seen /\ merges[source].value = resolved

\* A merge is reported "clean" exactly when all children that returned the key
\* returned the same value, although every child is compared with the current
\* choice alone and not with the others.
CleanMeansAgreed ==
  (ReviewStatus = "clean") <=> \A j, k \in Seen : merges[j].value = merges[k].value

\* Without an override each policy picks what its description promises
\* (constants.py: MERGE_REVIEW_PRESETS): the last value, the first, the last of
\* the non-empty ones, the last of the richest; and where no two agree, one of a
\* child whose worker none of the others outranks. (Where two agree, the later of
\* them lends the value its own priority, whatever the earlier one's was.)
PolicyHonoured ==
  (override = None /\ Seen # {}) =>
    /\ policy = "last_child_wins" => \A k \in Seen :
         (\A j \in Seen : j <= k) => resolved = merges[k].value
    /\ policy = "first_child_wins" => \A k \in Seen :
         (\A j \in Seen : k <= j) => resolved = merges[k].value
    /\ policy = "prefer_non_null" => \A k \in Seen :
         (/\ merges[k].value \notin Empty
          /\ \A j \in Seen : j > k => merges[j].value \in Empty) => resolved = merges[k].value
    /\ policy = "prefer_richer_value" => \A k \in Seen :
         (\A j \in Seen : \/ Richness[merges[j].value] < Richness[merges[k].value]
                          \/ Richness[merges[j].value] = Richness[merges[k].value] /\ j <= k)
           => resolved = merges[k].value
    /\ (policy = "prefer_worker_priority" /\ AllDiffer) => \A k \in Seen :
         Priority[merges[k].worker] <= Priority[merges[source].worker]

\* Where no two children agree, an override that names a child or a worker
\* that returned the key prevails over every policy, at whatever place the
\* named child comes in the order of the merges.
OverridePrevails ==
  (/\ AllDiffer
   /\ \E k \in Seen : Named(k)) => Named(source)
=============================================================================
