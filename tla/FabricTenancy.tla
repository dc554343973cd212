---------------------------- MODULE FabricTenancy ----------------------------
(***************************************************************************)
(* The worker fabric as a gateway's callers reach it, through the          *)
(* authorization proxy of the task store (gateway/app_context.py and the   *)
(* modules that replace its methods).  A request establishes who calls,    *)
(* looks at what it is going to touch, and then calls the store, which     *)
(* knows nothing of tenants except in register_worker_node.  Requests of   *)
(* several tenants, and of the system, run at once.  Capacities, states    *)
(* and times are in QueueLeases; here is only who may touch what.          *)
(***************************************************************************)
EXTENDS Naturals

CONSTANTS
  Threads,
  Callers,     \* [who, org, role], the claims of a verified token
  Nodes,
  Queues,
  Leases,
  Tasks,
  TaskOrg(_),  \* tasks.org_id
  None

VARIABLES
  node,     \* worker_nodes: org_id and owner_principal of the metadata, queue_name
  queue,    \* execution_queues: the org_id of the metadata
  lease,    \* queue_leases: org_id and principal of the metadata, and what it is for
  request,  \* what each thread is in the middle of
  moved     \* history: the nodes and queues the system wrote over

vars == <<node, queue, lease, request, moved>>

Whos == {c.who : c \in Callers}
Tenants == {c.org : c \in Callers}

Node == [org: Tenants, owner: Whos, queue: Queues]

Lease == [org: Tenants, holder: Whos, node: Nodes, queue: Queues, task: Tasks \cup {None},
          active: BOOLEAN, system: BOOLEAN]

Idle == [op |-> "idle"]

Request ==
  {Idle}
  \cup [op: {"register"}, caller: Callers, node: Nodes, queue: Queues, org: Tenants, owner: Whos]
  \cup [op: {"beat"}, caller: Callers, node: Nodes, org: Tenants, owner: Whos]
  \cup [op: {"acquire"}, caller: Callers, node: Nodes, queue: Queues, task: Tasks \cup {None}]
  \cup [op: {"release"}, caller: Callers, lease: Leases]

TypeOK ==
  /\ node \in [Nodes -> Node \cup {None}]
  /\ queue \in [Queues -> Tenants \cup {None}]
  /\ lease \in [Leases -> Lease \cup {None}]
  /\ request \in [Threads -> Request]
  /\ moved \in SUBSET (Nodes \cup Queues)

Init ==
  /\ node = [n \in Nodes |-> None]
  /\ queue = [q \in Queues |-> None]
  /\ lease = [l \in Leases |-> None]
  /\ request = [t \in Threads |-> Idle]
  /\ moved = {}

-----------------------------------------------------------------------------
(* Who is who.                                                             *)

System(c) == c.role = "system"

\* _is_system_or_admin, and _require_worker_control, which all three pass.
Administers(c) == c.role \in {"admin", "system"}

\* _require_same_org
SameOrg(c, org) == System(c) \/ org = c.org

Check(t, pending) ==
  /\ request[t] = Idle
  /\ request' = [request EXCEPT ![t] = pending]
  /\ UNCHANGED <<node, queue, lease, moved>>

Done(t) == request' = [request EXCEPT ![t] = Idle]

-----------------------------------------------------------------------------
(* The handlers: what is checked, and what is written.                     *)

\* register_worker_node looks at the node and the queue, if they are there.  The
\* system may name the org, anyone else registers for his own.
RegisterCheck(t) ==
  \E c \in Callers, n \in Nodes, q \in Queues, org \in Tenants :
    /\ Administers(c)
    /\ SameOrg(c, org)
    /\ node[n] # None => SameOrg(c, node[n].org)
    /\ queue[q] # None => SameOrg(c, queue[q])
    /\ Check(t, [op |-> "register", caller |-> c, node |-> n, queue |-> q, org |-> org,
                 owner |-> IF node[n] = None THEN c.who ELSE node[n].owner])

Registered(r, owner) ==
  /\ node' = [node EXCEPT ![r.node] = [org |-> r.org, owner |-> owner, queue |-> r.queue]]
  /\ queue' = [queue EXCEPT ![r.queue] = r.org]
  /\ moved' = IF System(r.caller)
              THEN moved \cup {x \in {r.node} : node[x] # None}
                         \cup {x \in {r.queue} : queue[x] # None}
              ELSE moved

\* Slip: the transaction relies on what was read before it.
SlipRegister(t) ==
  LET r == request[t] IN
  /\ r.op = "register"
  /\ Registered(r, r.owner)
  /\ Done(t)
  /\ UNCHANGED lease

\* The store's transaction looks again, unless the caller is the system.
Register(t) ==
  LET r == request[t]
      c == r.caller
  IN
  /\ r.op = "register"
  /\ IF System(c)
     THEN Registered(r, r.owner)
     ELSE IF /\ node[r.node] # None => node[r.node].org = c.org
             /\ queue[r.queue] # None => queue[r.queue] = c.org
          THEN Registered(r, IF node[r.node] = None THEN r.owner ELSE node[r.node].owner)
          ELSE UNCHANGED <<node, queue, moved>>
  /\ Done(t)
  /\ UNCHANGED lease

\* heartbeat_worker_node and drain_worker_node, of any caller of the node's org
\* who administers it or to whom it belongs.
BeatCheck(t) ==
  \E c \in Callers, n \in Nodes :
    /\ node[n] # None
    /\ Administers(c) \/ (node[n].owner = c.who /\ node[n].org = c.org)
    /\ SameOrg(c, node[n].org)
    /\ Check(t, [op |-> "beat", caller |-> c, node |-> n,
                 org |-> node[n].org, owner |-> node[n].owner])

\* _preserve_node_identity: the metadata that was looked at is written back.
Beat(t) ==
  LET r == request[t] IN
  /\ r.op = "beat"
  /\ node' = [node EXCEPT ![r.node].org = r.org, ![r.node].owner = r.owner]
  /\ Done(t)
  /\ UNCHANGED <<queue, lease, moved>>

\* acquire_queue_lease: node, queue and task must be the caller's.
AcquireCheck(t) ==
  \E c \in Callers, n \in Nodes, k \in Tasks \cup {None} :
    /\ node[n] # None
    /\ SameOrg(c, node[n].org) /\ SameOrg(c, queue[node[n].queue])
    /\ Administers(c) \/ node[n].owner = c.who
    /\ k # None => SameOrg(c, TaskOrg(k))
    /\ Check(t, [op |-> "acquire", caller |-> c, node |-> n, queue |-> node[n].queue, task |-> k])

\* The store looks whether the node still is in that queue; the lease is marked
\* with the caller and his org.
Acquire(t) ==
  LET r == request[t] IN
  /\ r.op = "acquire"
  /\ \/ /\ node[r.node].queue = r.queue
        /\ \E l \in Leases :
             /\ lease[l] = None
             /\ lease' = [lease EXCEPT ![l] =
                  [org |-> r.caller.org, holder |-> r.caller.who, node |-> r.node,
                   queue |-> r.queue, task |-> r.task, active |-> TRUE,
                   system |-> System(r.caller)]]
     \/ UNCHANGED lease
  /\ Done(t)
  /\ UNCHANGED <<node, queue, moved>>

\* release_queue_lease, and renew_queue_lease, which changes nothing of this.
\* Of two checks the inner one knows no system, so that it must be the holder.
ReleaseCheck(t) ==
  \E c \in Callers, l \in Leases :
    /\ lease[l] # None
    /\ SameOrg(c, lease[l].org)
    /\ c.role = "admin" \/ lease[l].holder = c.who
    /\ Check(t, [op |-> "release", caller |-> c, lease |-> l])

Release(t) ==
  LET r == request[t] IN
  /\ r.op = "release"
  /\ lease' = [lease EXCEPT ![r.lease].active = FALSE]
  /\ Done(t)
  /\ UNCHANGED <<node, queue, moved>>

\* The request fails, or its process ends, between the two.
Abort(t) ==
  /\ request[t] # Idle
  /\ Done(t)
  /\ UNCHANGED <<node, queue, lease, moved>>

Next == \E t \in Threads :
  \/ RegisterCheck(t) \/ Register(t)
  \/ BeatCheck(t) \/ Beat(t)
  \/ AcquireCheck(t) \/ Acquire(t)
  \/ ReleaseCheck(t) \/ Release(t)
  \/ Abort(t)

Spec == Init /\ [][Next]_vars

-----------------------------------------------------------------------------
(* Properties.                                                             *)

\* No request of a tenant writes a node, a queue or a lease of another tenant,
\* whatever has happened since it looked.
OwnTenantOnly ==
  [][\A t \in Threads :
       LET r == request[t] IN
       (r # Idle /\ request'[t] = Idle /\ ~System(r.caller)) =>
         /\ \A n \in Nodes \ moved : node'[n] # node[n] /\ node[n] # None => node[n].org = r.caller.org
         /\ \A q \in Queues \ moved : queue'[q] # queue[q] => queue[q] = None
         /\ \A l \in Leases :
              lease'[l] # lease[l] /\ lease[l] # None => lease[l].org = r.caller.org]_vars
=============================================================================
