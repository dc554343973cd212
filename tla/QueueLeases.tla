---------------------------- MODULE QueueLeases ----------------------------
(***************************************************************************)
(* The worker fabric of the task store (botboy/tasks.py): worker nodes     *)
(* register, send heartbeats and are drained; workers acquire, renew and   *)
(* release leases on execution queues; stale worker tasks are recovered.   *)
(*                                                                         *)
(* Threads stands for database connections: the store keeps one SQLite     *)
(* connection per thread (db_mixin.py), so two operations on two threads   *)
(* interleave at every statement that is not inside one write transaction. *)
(* An operation is therefore split where it reads in autocommit mode and   *)
(* writes later; everything from its first UPDATE or INSERT to its commit  *)
(* is one step, taken while no other connection holds the write lock.      *)
(***************************************************************************)
EXTENDS Integers, FiniteSets

CONSTANTS
  Threads,    \* database connections that issue operations
  Nodes,      \* worker node ids
  Queues,     \* execution queue names
  Tasks,      \* task ids
  Parent,     \* the parent of each task, None for a root task
  LeaseIds,   \* lease ids that can still be drawn (bounds the grants)
  Caps,       \* values a registration gives max_parallelism
  TTLs,       \* lease lifetimes a worker may ask for
  NodeTTL,    \* lifetime of a heartbeat
  LeaseTTL,   \* lifetime start_task stamps on a delegated task
  BeatStatuses,   \* node_status values a heartbeat may carry
  FinalStatuses,  \* statuses a task may be ended with
  Timeout,    \* age at which recovery takes a running worker task as stale
  Horizon,    \* last instant of the clock (bounds the behaviours)
  None        \* no task, no node, no queue, no lock holder

ASSUME CapsAssumption == Caps \subseteq Nat \ {0}
ASSUME TTLAssumption == /\ TTLs \subseteq Nat \ {0}
                        /\ NodeTTL \in Nat \ {0} /\ LeaseTTL \in Nat \ {0}
ASSUME StatusAssumption == /\ BeatStatuses \subseteq {"ready", "draining"}
                           /\ FinalStatuses \subseteq {"completed", "failed", "cancelled"}
ASSUME TimeAssumption == Timeout \in Nat /\ Horizon \in Nat
ASSUME LeaseIdsFinite == IsFiniteSet(LeaseIds)
ASSUME ParentAssumption == Parent \in [Tasks -> Tasks \cup {None}]
ASSUME NoneAssumption == None \notin Threads \cup Nodes \cup Queues \cup Tasks

VARIABLES
  now,      \* the wall clock
  nodes,    \* table worker_nodes
  queues,   \* table execution_queues
  leases,   \* table queue_leases
  tasks,    \* the columns of table tasks that leases touch
  req,      \* the operation each thread is in the middle of
  writer    \* the thread whose open transaction holds the write lock

vars == <<now, nodes, queues, leases, tasks, req, writer>>

-----------------------------------------------------------------------------
(* Rows. A missing node has no queue, a missing queue has capacity 0, a    *)
(* lease id not drawn yet is "unused"; an empty timestamp is 0.            *)

Time == 0 .. Horizon
Expiry == Nat

NodeRow == [queue: Queues \cup {None}, status: {"ready", "draining"},
            drain: {"active", "draining"}, seenUntil: Expiry]

QueueRow == [status: {"ready", "draining"}, cap: Caps \cup {0}]

LeaseRow == [st: {"unused", "active", "expired", "released"},
             queue: Queues \cup {None}, node: Nodes \cup {None},
             task: Tasks \cup {None}, exp: Expiry]

\* anchor is heartbeat_at, or updated_at where heartbeat_at is empty (~beat).
TaskRow == [status: {"queued", "running", "blocked", "completed", "failed",
                     "cancelled"},
            delegation: {"none", "delegated", "leased", "blocked_on_child"},
            worker: BOOLEAN, exp: Expiry, beat: BOOLEAN, anchor: Time]

\* What a thread remembers between a read and the write that uses it.
Request == [pc: {"idle", "read_node", "grant", "beat", "drain", "recover",
                 "recover_parent", "start", "start_delegated"},
            node: Nodes \cup {None}, queue: Queues \cup {None},
            task: Tasks \cup {None}, cap: Caps \cup {0}, since: Time]

Idle == [pc |-> "idle", node |-> None, queue |-> None, task |-> None, cap |-> 0,
         since |-> 0]

TypeOK ==
  /\ now \in Time
  /\ nodes \in [Nodes -> NodeRow]
  /\ queues \in [Queues -> QueueRow]
  /\ leases \in [LeaseIds -> LeaseRow]
  /\ tasks \in [Tasks -> TaskRow]
  /\ req \in [Threads -> Request]
  /\ writer \in Threads \cup {None}

\* create_task for a root task, create_child_task for a delegated child.
NewTask(t) ==
  [status |-> "queued",
   delegation |-> IF Parent[t] = None THEN "none" ELSE "delegated",
   worker |-> Parent[t] # None, exp |-> 0, beat |-> FALSE, anchor |-> 0]

Init ==
  /\ now = 0
  /\ nodes = [n \in Nodes |-> [queue |-> None, status |-> "ready",
                               drain |-> "active", seenUntil |-> 0]]
  /\ queues = [q \in Queues |-> [status |-> "ready", cap |-> 0]]
  /\ leases = [l \in LeaseIds |-> [st |-> "unused", queue |-> None,
                                   node |-> None, task |-> None, exp |-> 0]]
  /\ tasks = [t \in Tasks |-> NewTask(t)]
  /\ req = [c \in Threads |-> Idle]
  /\ writer = None

-----------------------------------------------------------------------------
(* Reading the tables.                                                     *)

\* WorkerNodeRecord.to_dict: drained and draining win over stale.
Draining(n) == nodes[n].drain = "draining" \/ nodes[n].status = "draining"

NodeAvailable(n, q) ==
  /\ nodes[n].queue = q
  /\ ~Draining(n)
  /\ nodes[n].seenUntil >= now

\* _expire_queue_leases: active leases that are past their expiry.
Swept ==
  [l \in LeaseIds |->
     IF leases[l].st = "active" /\ leases[l].exp <= now
     THEN [leases[l] EXCEPT !.st = "expired"]
     ELSE leases[l]]

ActiveOn(table, q) == {l \in LeaseIds : table[l].st = "active" /\ table[l].queue = q}

\* _active_queue_lease_count, which expires before it counts.
ActiveCount(q) == Cardinality(ActiveOn(Swept, q))

\* _lease_snapshot: is_recoverable.
Recoverable(t) ==
  /\ Parent[t] # None
  /\ tasks[t].worker
  /\ tasks[t].status = "running"
  /\ now - tasks[t].anchor > Timeout

\* A write waits for the lock of any other connection's open transaction.
CanWrite(c) == writer \in {None, c}

\* commit() also ends a transaction the thread had left open.
Commit == writer' = None

\* updated_at is set by every write of a task; it moves the anchor only while
\* there is no heartbeat.
Touched(t, at) == [tasks[t] EXCEPT !.anchor = IF tasks[t].beat THEN @ ELSE at]

Start(c, r) == req[c] = Idle /\ req' = [req EXCEPT ![c] = r]
Finish(c) == req' = [req EXCEPT ![c] = Idle]

-----------------------------------------------------------------------------
(* acquire_queue_lease                                                     *)

Acquiring == {c \in Threads : req[c].pc \in {"read_node", "grant"}}
Unused == {l \in LeaseIds : leases[l].st = "unused"}

\* The queue row is read first. A missing or draining queue refuses the
\* request without a write, which is no step at all.
AcquireReadQueue(c, q, n, t) ==
  /\ Cardinality(Unused) > Cardinality(Acquiring)   \* bound: LeaseIds
  /\ queues[q].cap # 0
  /\ queues[q].status = "ready"
  /\ Start(c, [Idle EXCEPT !.pc = "read_node", !.node = n, !.queue = q,
                           !.task = t, !.cap = queues[q].cap])
  /\ UNCHANGED <<now, nodes, queues, leases, tasks, writer>>

AcquireReadNode(c) ==
  /\ req[c].pc = "read_node"
  /\ IF NodeAvailable(req[c].node, req[c].queue)
     THEN req' = [req EXCEPT ![c].pc = "grant"]
     ELSE Finish(c)
  /\ UNCHANGED <<now, nodes, queues, leases, tasks, writer>>

\* The count at the capacity that was read: the sweep is committed.
AcquireFull(c) ==
  /\ req[c].pc = "grant"
  /\ CanWrite(c)
  /\ ActiveCount(req[c].queue) >= req[c].cap
  /\ leases' = Swept
  /\ Finish(c)
  /\ Commit
  /\ UNCHANGED <<now, nodes, queues, tasks>>

\* Slip: the migration that installs the trigger was not applied.
SlipNoTrigger(q) == FALSE

\* The condition of trg_queue_leases_capacity, evaluated by the INSERT on the
\* capacity of that moment.
CapacityTrigger(q) == ActiveCount(q) >= queues[q].cap

LeaseTask(t, exp) ==
  [tasks EXCEPT ![t] = [@ EXCEPT !.status = "running", !.delegation = "leased",
                                 !.worker = TRUE, !.exp = exp, !.beat = TRUE,
                                 !.anchor = now]]

AcquireGrant(c) ==
  /\ req[c].pc = "grant"
  /\ CanWrite(c)
  /\ ActiveCount(req[c].queue) < req[c].cap
  /\ ~CapacityTrigger(req[c].queue)
  /\ \E l \in Unused, ttl \in TTLs :
       /\ leases' = [Swept EXCEPT ![l] =
            [st |-> "active", queue |-> req[c].queue, node |-> req[c].node,
             task |-> req[c].task, exp |-> now + ttl]]
       /\ tasks' = IF req[c].task = None THEN tasks
                   ELSE LeaseTask(req[c].task, now + ttl)
  /\ Finish(c)
  /\ Commit
  /\ UNCHANGED <<now, nodes, queues>>

\* The trigger aborts the INSERT. Its IntegrityError leaves the method with
\* neither commit nor rollback, so the transaction the sweep opened stays
\* open. (Its expired marks only restate what every reader derives from the
\* clock, so they are shown at once.)
AcquireAborted(c) ==
  /\ req[c].pc = "grant"
  /\ CanWrite(c)
  /\ ActiveCount(req[c].queue) < req[c].cap
  /\ CapacityTrigger(req[c].queue)
  /\ leases' = Swept
  /\ writer' = c
  /\ Finish(c)
  /\ UNCHANGED <<now, nodes, queues, tasks>>

-----------------------------------------------------------------------------
(* renew_queue_lease, release_queue_lease, list_queue_leases               *)

\* Slip: the renewal trusts the stored status instead of sweeping first.
SlipRenewUnswept(c, l, ttl) ==
  /\ req[c] = Idle
  /\ CanWrite(c)
  /\ leases[l].st = "active"
  /\ leases' = [leases EXCEPT ![l].exp = now + ttl]
  /\ tasks' = IF leases[l].task = None THEN tasks
              ELSE [tasks EXCEPT ![leases[l].task].exp = now + ttl]
  /\ Commit
  /\ UNCHANGED <<now, nodes, queues, req>>

RenewLease(c, l, ttl) ==
  /\ req[c] = Idle
  /\ CanWrite(c)
  /\ Swept[l].st = "active"
  /\ leases' = [Swept EXCEPT ![l].exp = now + ttl]
  /\ tasks' = IF leases[l].task = None THEN tasks
              ELSE [tasks EXCEPT ![leases[l].task] =
                      [@ EXCEPT !.exp = now + ttl, !.beat = TRUE, !.anchor = now]]
  /\ Commit
  /\ UNCHANGED <<now, nodes, queues, req>>

\* A refused renewal, list_queue_leases and queue_summary: sweep and commit.
SweepLeases(c) ==
  /\ req[c] = Idle
  /\ CanWrite(c)
  /\ leases' = Swept
  /\ Commit
  /\ UNCHANGED <<now, nodes, queues, tasks, req>>

\* Slip: the release forgets the task's lease_expires_at.
SlipReleaseKeepsStamp(c, l) ==
  /\ req[c] = Idle
  /\ CanWrite(c)
  /\ leases[l].st # "unused"
  /\ leases' = [leases EXCEPT ![l].st = "released"]
  /\ tasks' = IF leases[l].task = None THEN tasks
              ELSE [tasks EXCEPT ![leases[l].task].delegation = "delegated"]
  /\ Commit
  /\ UNCHANGED <<now, nodes, queues, req>>

\* Whatever the lease's status is; the task is cleared with it.
ReleaseLease(c, l) ==
  /\ req[c] = Idle
  /\ CanWrite(c)
  /\ leases[l].st # "unused"
  /\ leases' = [leases EXCEPT ![l].st = "released"]
  /\ tasks' = IF leases[l].task = None THEN tasks
              ELSE [tasks EXCEPT ![leases[l].task] =
                      [@ EXCEPT !.delegation = "delegated", !.exp = 0,
                                !.beat = FALSE, !.anchor = now]]
  /\ Commit
  /\ UNCHANGED <<now, nodes, queues, req>>

-----------------------------------------------------------------------------
(* register_worker_node, heartbeat_worker_node, drain_worker_node          *)

\* BEGIN IMMEDIATE: node and queue are written in one transaction.
RegisterNode(c, n, q, cap) ==
  /\ req[c] = Idle
  /\ writer = None
  /\ queues' = [queues EXCEPT ![q] = [status |-> "ready", cap |-> cap]]
  /\ nodes' = [nodes EXCEPT ![n] = [queue |-> q, status |-> "ready",
                                    drain |-> "active",
                                    seenUntil |-> now + NodeTTL]]
  /\ UNCHANGED <<now, leases, tasks, req, writer>>

\* On a connection with an open transaction BEGIN IMMEDIATE fails, and the
\* handler's rollback ends that transaction.
RegisterRollsBack(c) ==
  /\ req[c] = Idle
  /\ writer = c
  /\ writer' = None
  /\ UNCHANGED <<now, nodes, queues, leases, tasks, req>>

HeartbeatRead(c, n) ==
  /\ nodes[n].queue # None
  /\ Start(c, [Idle EXCEPT !.pc = "beat", !.node = n, !.queue = nodes[n].queue])
  /\ UNCHANGED <<now, nodes, queues, leases, tasks, writer>>

\* Slip: a heartbeat puts the node back into rotation.
SlipHeartbeatUndrains(c, status) ==
  /\ req[c].pc = "beat"
  /\ CanWrite(c)
  /\ nodes' = [nodes EXCEPT ![req[c].node] =
                 [@ EXCEPT !.status = status, !.drain = "active",
                           !.seenUntil = now + NodeTTL]]
  /\ queues' = [queues EXCEPT ![req[c].queue].status = "ready"]
  /\ Finish(c)
  /\ Commit
  /\ UNCHANGED <<now, leases, tasks>>

\* drain_state is left alone; the queue that was read is marked ready.
HeartbeatWrite(c, status) ==
  /\ req[c].pc = "beat"
  /\ CanWrite(c)
  /\ nodes' = [nodes EXCEPT ![req[c].node] =
                 [@ EXCEPT !.status = status, !.seenUntil = now + NodeTTL]]
  /\ queues' = [queues EXCEPT ![req[c].queue].status = "ready"]
  /\ Finish(c)
  /\ Commit
  /\ UNCHANGED <<now, leases, tasks>>

DrainRead(c, n) ==
  /\ nodes[n].queue # None
  /\ Start(c, [Idle EXCEPT !.pc = "drain", !.node = n, !.queue = nodes[n].queue])
  /\ UNCHANGED <<now, nodes, queues, leases, tasks, writer>>

DrainWrite(c) ==
  /\ req[c].pc = "drain"
  /\ CanWrite(c)
  /\ nodes' = [nodes EXCEPT ![req[c].node] =
                 [@ EXCEPT !.status = "draining", !.drain = "draining"]]
  /\ queues' = [queues EXCEPT ![req[c].queue].status = "draining"]
  /\ Finish(c)
  /\ Commit
  /\ UNCHANGED <<now, leases, tasks>>

-----------------------------------------------------------------------------
(* recover_stale_worker_task, and a task's start, reassignment and end     *)

RecoverRead(c, t) ==
  /\ Recoverable(t)
  /\ Start(c, [Idle EXCEPT !.pc = "recover", !.task = t])
  /\ UNCHANGED <<now, nodes, queues, leases, tasks, writer>>

\* Slip: the recovery forgets lease_expires_at.
SlipRecoverKeepsStamp(c) ==
  /\ req[c].pc = "recover"
  /\ CanWrite(c)
  /\ tasks' = [tasks EXCEPT ![req[c].task] =
                 [@ EXCEPT !.status = "queued", !.delegation = "delegated",
                           !.beat = FALSE, !.anchor = now]]
  /\ req' = [req EXCEPT ![c].pc = "recover_parent"]
  /\ Commit
  /\ UNCHANGED <<now, nodes, queues, leases>>

RecoverWrite(c) ==
  /\ req[c].pc = "recover"
  /\ CanWrite(c)
  /\ tasks' = [tasks EXCEPT ![req[c].task] =
                 [@ EXCEPT !.status = "queued", !.delegation = "delegated",
                           !.exp = 0, !.beat = FALSE, !.anchor = now]]
  /\ req' = [req EXCEPT ![c].pc = "recover_parent"]
  /\ Commit
  /\ UNCHANGED <<now, nodes, queues, leases>>

\* A transaction of its own, whatever the parent's status has become.
RecoverParent(c) ==
  /\ req[c].pc = "recover_parent"
  /\ CanWrite(c)
  /\ tasks' = [tasks EXCEPT ![Parent[req[c].task]] =
                 [Touched(Parent[req[c].task], now) EXCEPT
                    !.status = "blocked", !.delegation = "blocked_on_child"]]
  /\ Finish(c)
  /\ Commit
  /\ UNCHANGED <<now, nodes, queues, leases>>

\* start_task takes its timestamp, then reads whether the task is delegated.
StartRead(c, t) ==
  /\ Start(c, [Idle EXCEPT !.pc = IF tasks[t].worker THEN "start_delegated" ELSE "start",
                           !.task = t, !.since = now])
  /\ UNCHANGED <<now, nodes, queues, leases, tasks, writer>>

\* Whatever the status has become; a delegated task is stamped as leased
\* although no queue lease is involved.
StartWrite(c) ==
  /\ req[c].pc \in {"start", "start_delegated"}
  /\ CanWrite(c)
  /\ tasks' = [tasks EXCEPT ![req[c].task] =
       IF req[c].pc = "start"
       THEN [Touched(req[c].task, req[c].since) EXCEPT !.status = "running"]
       ELSE [@ EXCEPT !.status = "running", !.delegation = "leased", !.beat = TRUE,
                      !.exp = req[c].since + LeaseTTL, !.anchor = req[c].since]]
  /\ Finish(c)
  /\ Commit
  /\ UNCHANGED <<now, nodes, queues, leases>>

\* reassign_task: leases and stamps of the previous worker are left alone.
ReassignTask(c, t) ==
  /\ req[c] = Idle
  /\ CanWrite(c)
  /\ tasks' = [tasks EXCEPT ![t] = [Touched(t, now) EXCEPT !.worker = TRUE,
                                                         !.delegation = "delegated"]]
  /\ Commit
  /\ UNCHANGED <<now, nodes, queues, leases, req>>

\* finish_task and cancel_task: a blind write of the final status.
EndTask(c, t, status) ==
  /\ req[c] = Idle
  /\ CanWrite(c)
  /\ tasks' = [tasks EXCEPT ![t] = [Touched(t, now) EXCEPT !.status = status]]
  /\ Commit
  /\ UNCHANGED <<now, nodes, queues, leases, req>>

-----------------------------------------------------------------------------
(* The environment.                                                        *)

\* Slip: connections opened with an unlimited busy timeout.
SlipWaitForever(c) == FALSE /\ UNCHANGED vars

\* SQLite's busy timeout: the waiting operation fails, having written nothing.
BusyTimeout(c) ==
  /\ req[c].pc \in {"grant", "beat", "drain", "recover", "recover_parent",
                    "start", "start_delegated"}
  /\ ~CanWrite(c)
  /\ Finish(c)
  /\ UNCHANGED <<now, nodes, queues, leases, tasks, writer>>

\* The thread's process ends: its operation is lost, its transaction undone.
ProcessEnds(c) ==
  /\ req[c] # Idle \/ writer = c
  /\ Finish(c)
  /\ writer' = IF writer = c THEN None ELSE writer
  /\ UNCHANGED <<now, nodes, queues, leases, tasks>>

Tick ==
  /\ now < Horizon                                  \* bound: Horizon
  /\ now' = now + 1
  /\ UNCHANGED <<nodes, queues, leases, tasks, req, writer>>

-----------------------------------------------------------------------------
\* The remaining steps of an operation that has begun.
Proceed(c) ==
  \/ AcquireReadNode(c)
  \/ AcquireFull(c)
  \/ AcquireGrant(c)
  \/ AcquireAborted(c)
  \/ \E status \in BeatStatuses : HeartbeatWrite(c, status)
  \/ DrainWrite(c)
  \/ RecoverWrite(c)
  \/ RecoverParent(c)
  \/ StartWrite(c)
  \/ BusyTimeout(c)

Begin(c) ==
  \/ \E q \in Queues, n \in Nodes, t \in Tasks \cup {None} : AcquireReadQueue(c, q, n, t)
  \/ \E l \in LeaseIds, ttl \in TTLs : RenewLease(c, l, ttl)
  \/ \E l \in LeaseIds : ReleaseLease(c, l)
  \/ SweepLeases(c)
  \/ \E n \in Nodes, q \in Queues, cap \in Caps : RegisterNode(c, n, q, cap)
  \/ RegisterRollsBack(c)
  \/ \E n \in Nodes : HeartbeatRead(c, n)
  \/ \E n \in Nodes : DrainRead(c, n)
  \/ \E t \in Tasks : RecoverRead(c, t) \/ StartRead(c, t) \/ ReassignTask(c, t)
  \/ \E t \in Tasks, status \in FinalStatuses : EndTask(c, t, status)

Next ==
  \/ \E c \in Threads : Begin(c) \/ Proceed(c) \/ ProcessEnds(c)
  \/ Tick

Spec == Init /\ [][Next]_vars

\* A thread inside an operation keeps running it; nobody must start one.
FairSpec == Spec /\ \A c \in Threads : WF_vars(Proceed(c))

-----------------------------------------------------------------------------
(* Properties.                                                             *)

\* A lease whose holder has lost it: released, marked expired, or past its
\* expiry although no sweep has marked it yet.
Lapsed(l) ==
  \/ leases[l].st \in {"expired", "released"}
  \/ leases[l].st = "active" /\ leases[l].exp <= now

\* No step hands out a lease that takes its queue above the max_parallelism
\* in force at that moment, although acquire_queue_lease compares its count
\* with a capacity it read before its transaction began.
GrantsRespectCapacity ==
  [][\A q \in Queues :
       ~(ActiveOn(leases', q) \subseteq ActiveOn(leases, q))
         => Cardinality(ActiveOn(leases', q)) <= queues[q].cap]_vars

\* A holder never gets a lapsed lease back: a late renewal is refused even
\* when no sweep has marked the lease, and no other operation revives it.
LapsedStaysLapsed == [][\A l \in LeaseIds : Lapsed(l) => Lapsed(l)']_vars

\* A task row that shows a holder until some future instant is right: an
\* active lease on the task expires at exactly that instant, or the stamp is
\* the one start_task gave the task when it was started; and the row has the
\* heartbeat that staleness is measured from. Whatever order workers
\* acquire, renew, release, recover and start in, no stamp outlives its lease.
StampBacked ==
  \A t \in Tasks : tasks[t].exp > now =>
    /\ tasks[t].beat
    /\ \/ tasks[t].exp = tasks[t].anchor + LeaseTTL
       \/ \E l \in LeaseIds : /\ leases[l].st = "active"
                              /\ leases[l].task = t
                              /\ leases[l].exp = tasks[t].exp

\* A drain is undone by a new registration only: neither the heartbeats the
\* draining node keeps sending nor one that was already under way when the
\* drain was written make it available again.
DrainHolds ==
  [][\A n \in Nodes :
       nodes[n].drain = "draining" /\ ~Draining(n)'
         => \E c \in Threads, q \in Queues, cap \in Caps : RegisterNode(c, n, q, cap)]_vars

\* Every operation that has begun comes to an end, by its commit or by the
\* busy timeout, even while another connection's transaction is left open.
OperationsEnd == \A c \in Threads : (req[c] # Idle) ~> (req[c] = Idle)

\* "drain prevents assignment": no lease is granted to a node that is
\* draining when the grant is written. (The code reads the node before the
\* transaction that grants.)
DrainPreventsAssignment ==
  [][\A l \in LeaseIds :
       leases[l].st = "unused" /\ leases'[l].st = "active"
         => ~Draining(leases'[l].node)]_vars

\* "task ownership and node assignment stay consistent": a task is held by
\* one live lease at a time. (acquire_queue_lease looks at the task only to
\* overwrite it.)
OneHolderPerTask ==
  \A l, m \in LeaseIds :
    /\ leases[l].st = "active" /\ leases[l].exp > now
    /\ leases[m].st = "active" /\ leases[m].exp > now
    /\ leases[l].task = leases[m].task /\ leases[l].task # None
    => l = m
=============================================================================
