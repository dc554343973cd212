----------------------------- MODULE MCMerging -----------------------------
(* Merging on an instance: three children merged under every policy; two     *)
(* sessions over two children, two keys, two tasks and three callers.        *)
EXTENDS Merging, TLC

CONSTANTS
  reviewer, designer, null, text, list, table,
  s1, s2, k1, k2, c1, c2, p1,
  ann, bob, root, red, blue

\* Four values of three degrees of richness, of which one is empty, and workers
\* of different priority.
MCWorkers == {reviewer, designer}
MCValues == {null, text, list, table}
MCEmpty == {null}
MCRichness == [v \in MCValues |-> CASE v = null -> 0 [] v = text -> 1 [] OTHER -> 2]
MCPriority == [w \in MCWorkers |-> IF w = reviewer THEN 50 ELSE 10]

MCSessions == {s1, s2}

\* One key both children return, one that is the second child's own.
MCKeys == {k1, k2}
MCKids == {c1, c2}
MCReturns(c) == IF c = c1 THEN {k1} ELSE {k1, k2}
MCSettings == {p1}

\* A user and an administrator of one tenant, and the system, which is of the
\* tenant tasks are inserted with.
MCCallers == {[who |-> ann, org |-> red, role |-> "user"],
              [who |-> bob, org |-> red, role |-> "admin"],
              [who |-> root, org |-> blue, role |-> "system"]}

\* A parent and a child.
MCIds == {k1, k2}

\* Two children, all of whose artifacts fit on a page.
MCDelegates == {1, 2}

MCSymmetry == Permutations(MCSessions)
=============================================================================
