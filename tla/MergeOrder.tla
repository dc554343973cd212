----------------------------- MODULE MergeOrder -----------------------------
(* The order of a parent's merges, which WorkerHandoff and TaskArtifacts     *)
(* share: a child that is merged again leaves its earlier place.             *)
EXTENDS Naturals, FiniteSets, SequencesExt

\* prior_merges but for those of child c (_sync_parent_after_child), by their
\* places: the n-th that is kept has n - 1 kept ones before it.
Kept(s, c) == {m \in DOMAIN s : s[m] # c}

Nth(s, c, n) ==
  CHOOSE m \in Kept(s, c) : Cardinality({l \in Kept(s, c) : l <= m}) = n

Without(s, c) == [n \in 1 .. Cardinality(Kept(s, c)) |-> s[Nth(s, c, n)]]
=============================================================================
