----------------------------- MODULE MCGateway -----------------------------
(* Gateway on two threads: a principal, two keys, two tenants and the        *)
(* system, and one request a window.                                         *)
EXTENDS Gateway, TLC

CONSTANTS t1, t2, ann, bob, root, key1, key2, east, west, red, blue, n1, q1, q2, l1, k1, here

MCThreads == {t1, t2}
MCPrincipals == {ann}
MCApiKeys == {key1, key2}
MCOrgs == {east, west}
MCRoles == {"admin", "system"}

\* An administrator of one tenant, a worker of another, and the system.
MCCallers == {[who |-> ann, org |-> red, role |-> "admin"],
              [who |-> bob, org |-> blue, role |-> "worker"],
              [who |-> root, org |-> blue, role |-> "system"]}
MCTaskOrg(k) == red
MCQueues == {q1, q2}

MCWho(k) == ann

MCSymmetry ==
  Permutations(MCThreads) \cup Permutations(MCOrgs) \cup Permutations(MCApiKeys)
    \cup Permutations(MCQueues)
=============================================================================
