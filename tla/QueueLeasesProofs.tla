------------------------- MODULE QueueLeasesProofs -------------------------
(***************************************************************************)
(* Proofs about QueueLeases, for any number of threads, nodes, queues,     *)
(* tasks and leases.                                                       *)
(***************************************************************************)
EXTENDS QueueLeases, FiniteSetTheorems, TLAPS

\* Sweeping keeps every lease row a lease row.
LEMMA SweptType ==
  ASSUME TypeOK
  PROVE  Swept \in [LeaseIds -> LeaseRow]
BY DEF Swept, TypeOK, LeaseRow

\* Moving the anchor keeps a task row a task row, and its stamp and heartbeat.
LEMMA TouchedType ==
  ASSUME TypeOK, NEW t \in Tasks, NEW at \in Time
  PROVE  /\ Touched(t, at) \in TaskRow
         /\ Touched(t, at).exp = tasks[t].exp
         /\ Touched(t, at).beat = tasks[t].beat
         /\ tasks[t].beat => Touched(t, at).anchor = tasks[t].anchor
BY DEF Touched, TaskRow, TypeOK

LEMMA IdleType == Idle \in Request
BY TimeAssumption DEF Idle, Request, Time

\* A started operation is a well-formed request.
LEMMA StartType ==
  ASSUME TypeOK, NEW c \in Threads, NEW r \in Request, Start(c, r)
  PROVE  req' \in [Threads -> Request]
BY DEF Start, TypeOK

\* So is the idle one a finished operation leaves behind.
LEMMA FinishType ==
  ASSUME TypeOK, NEW c \in Threads, Finish(c)
  PROVE  req' \in [Threads -> Request]
BY IdleType DEF Finish, TypeOK

LEMMA InitType == Init => TypeOK
<1> SUFFICES ASSUME Init PROVE TypeOK
  OBVIOUS
<1>1. now \in Time /\ writer \in Threads \cup {None}
  BY TimeAssumption DEF Init, Time
<1>2. nodes \in [Nodes -> NodeRow] /\ queues \in [Queues -> QueueRow]
  BY DEF Init, NodeRow, QueueRow, Expiry
<1>3. leases \in [LeaseIds -> LeaseRow]
  BY DEF Init, LeaseRow, Expiry
<1>4. tasks \in [Tasks -> TaskRow]
  BY TimeAssumption DEF Init, NewTask, TaskRow, Expiry, Time
<1>5. req \in [Threads -> Request]
  BY IdleType DEF Init
<1> QED
  BY <1>1, <1>2, <1>3, <1>4, <1>5 DEF TypeOK

\* The operations on leases keep the tables well-typed.
LEMMA BeginType ==
  ASSUME TypeOK, NEW c \in Threads, Begin(c)
  PROVE  TypeOK'
<1> USE DEF Expiry, Time
<1>1. ASSUME NEW q \in Queues, NEW n \in Nodes, NEW t \in Tasks \cup {None},
             AcquireReadQueue(c, q, n, t)
      PROVE  TypeOK'
  <2>1. queues[q].cap \in Caps \cup {0}
    BY DEF TypeOK, QueueRow
  <2>2. [Idle EXCEPT !.pc = "read_node", !.node = n, !.queue = q, !.task = t,
                     !.cap = queues[q].cap] \in Request
    BY <2>1, IdleType DEF Request
  <2>3. req' \in [Threads -> Request]
    BY <1>1, <2>2, StartType DEF AcquireReadQueue
  <2> QED
    BY <1>1, <2>3 DEF AcquireReadQueue, TypeOK
<1>2. ASSUME NEW l \in LeaseIds, NEW ttl \in TTLs, RenewLease(c, l, ttl)
      PROVE  TypeOK'
  <2>1. now \in Nat /\ now + ttl \in Nat
    BY TimeAssumption, TTLAssumption DEF TypeOK
  <2>2. leases' \in [LeaseIds -> LeaseRow]
    BY <1>2, <2>1, SweptType DEF RenewLease, LeaseRow
  <2>3. tasks' \in [Tasks -> TaskRow]
    <3>1. CASE leases[l].task = None
      BY <1>2, <3>1 DEF RenewLease, TypeOK
    <3>2. CASE leases[l].task # None
      <4>1. leases[l].task \in Tasks /\ now \in Time
        BY <3>2 DEF TypeOK, LeaseRow
      <4>2. [tasks[leases[l].task] EXCEPT !.exp = now + ttl, !.beat = TRUE,
                                          !.anchor = now] \in TaskRow
        BY <2>1, <4>1 DEF TaskRow, TypeOK
      <4>3. tasks' = [tasks EXCEPT ![leases[l].task] =
                        [@ EXCEPT !.exp = now + ttl, !.beat = TRUE, !.anchor = now]]
        BY <1>2, <3>2 DEF RenewLease
      <4> QED
        BY <4>1, <4>2, <4>3 DEF TypeOK
    <3> QED
      BY <3>1, <3>2
  <2> QED
    BY <1>2, <2>2, <2>3 DEF RenewLease, Commit, TypeOK
<1>3. ASSUME NEW l \in LeaseIds, ReleaseLease(c, l)
      PROVE  TypeOK'
  <2>1. leases' \in [LeaseIds -> LeaseRow]
    BY <1>3 DEF ReleaseLease, LeaseRow, TypeOK
  <2>2. tasks' \in [Tasks -> TaskRow]
    <3>1. ASSUME NEW t \in Tasks
          PROVE  [tasks[t] EXCEPT !.delegation = "delegated", !.exp = 0,
                                  !.beat = FALSE, !.anchor = now] \in TaskRow
      BY DEF TaskRow, TypeOK
    <3> QED
      BY <1>3, <3>1 DEF ReleaseLease, TypeOK
  <2> QED
    BY <1>3, <2>1, <2>2 DEF ReleaseLease, Commit, TypeOK
<1>4. CASE SweepLeases(c)
  BY <1>4, SweptType DEF SweepLeases, Commit, TypeOK
<1>5. ASSUME NEW n \in Nodes, NEW q \in Queues, NEW cap \in Caps,
             RegisterNode(c, n, q, cap)
      PROVE  TypeOK'
  <2>1. now + NodeTTL \in Nat
    BY TimeAssumption, TTLAssumption DEF TypeOK
  <2>2. nodes' \in [Nodes -> NodeRow] /\ queues' \in [Queues -> QueueRow]
    BY <1>5, <2>1 DEF RegisterNode, NodeRow, QueueRow, TypeOK
  <2> QED
    BY <1>5, <2>2 DEF RegisterNode, TypeOK
<1>6. CASE RegisterRollsBack(c)
  BY <1>6 DEF RegisterRollsBack, TypeOK
<1>7. ASSUME NEW n \in Nodes, HeartbeatRead(c, n)
      PROVE  TypeOK'
  <2>1. [Idle EXCEPT !.pc = "beat", !.node = n, !.queue = nodes[n].queue] \in Request
    BY IdleType DEF Request, TypeOK, NodeRow
  <2>2. req' \in [Threads -> Request]
    BY <1>7, <2>1, StartType DEF HeartbeatRead
  <2> QED
    BY <1>7, <2>2 DEF HeartbeatRead, TypeOK
<1>8. ASSUME NEW n \in Nodes, DrainRead(c, n)
      PROVE  TypeOK'
  <2>1. [Idle EXCEPT !.pc = "drain", !.node = n, !.queue = nodes[n].queue] \in Request
    BY IdleType DEF Request, TypeOK, NodeRow
  <2>2. req' \in [Threads -> Request]
    BY <1>8, <2>1, StartType DEF DrainRead
  <2> QED
    BY <1>8, <2>2 DEF DrainRead, TypeOK
<1>9. ASSUME NEW t \in Tasks, RecoverRead(c, t)
      PROVE  TypeOK'
  <2>1. [Idle EXCEPT !.pc = "recover", !.task = t] \in Request
    BY IdleType DEF Request
  <2>2. req' \in [Threads -> Request]
    BY <1>9, <2>1, StartType DEF RecoverRead
  <2> QED
    BY <1>9, <2>2 DEF RecoverRead, TypeOK
<1>10. ASSUME NEW t \in Tasks, NEW status \in FinalStatuses, EndTask(c, t, status)
       PROVE  TypeOK'
  <2>1. [Touched(t, now) EXCEPT !.status = status] \in TaskRow
    BY TouchedType, StatusAssumption DEF TaskRow, TypeOK
  <2>2. tasks' \in [Tasks -> TaskRow]
    BY <1>10, <2>1 DEF EndTask, TypeOK
  <2> QED
    BY <1>10, <2>2 DEF EndTask, Commit, TypeOK
<1>11. ASSUME NEW t \in Tasks, StartRead(c, t)
       PROVE  TypeOK'
  <2>1. [Idle EXCEPT !.pc = IF tasks[t].worker THEN "start_delegated" ELSE "start",
                     !.task = t, !.since = now] \in Request
    BY IdleType DEF Request, TypeOK
  <2>2. req' \in [Threads -> Request]
    BY <1>11, <2>1, StartType DEF StartRead
  <2> QED
    BY <1>11, <2>2 DEF StartRead, TypeOK
<1>12. ASSUME NEW t \in Tasks, ReassignTask(c, t)
       PROVE  TypeOK'
  <2>1. ASSUME NEW row \in TaskRow
        PROVE  [row EXCEPT !.worker = TRUE, !.delegation = "delegated"] \in TaskRow
    BY DEF TaskRow
  <2>2. tasks' \in [Tasks -> TaskRow]
    BY <1>12, <2>1, TouchedType DEF ReassignTask, TypeOK
  <2> QED
    BY <1>12, <2>2 DEF ReassignTask, Commit, TypeOK
<1> QED
  BY <1>1, <1>2, <1>3, <1>4, <1>5, <1>6, <1>7, <1>8, <1>9, <1>10, <1>11, <1>12
     DEF Begin

\* So do the later steps of the operations.
LEMMA ProceedType ==
  ASSUME TypeOK, NEW c \in Threads, Proceed(c)
  PROVE  TypeOK'
<1> USE DEF Expiry, Time
<1>1. CASE AcquireReadNode(c)
  <2>1. CASE Finish(c)
    BY <1>1, <2>1, FinishType DEF AcquireReadNode, TypeOK
  <2>2. CASE req' = [req EXCEPT ![c].pc = "grant"]
    <3>1. req' \in [Threads -> Request]
      BY <2>2 DEF Request, TypeOK
    <3> QED
      BY <1>1, <3>1 DEF AcquireReadNode, TypeOK
  <2> QED
    BY <1>1, <2>1, <2>2 DEF AcquireReadNode
<1>2. CASE AcquireFull(c)
  BY <1>2, SweptType, FinishType DEF AcquireFull, Commit, TypeOK
<1>3. CASE AcquireGrant(c)
  <2>1. PICK l \in Unused, ttl \in TTLs :
          /\ leases' = [Swept EXCEPT ![l] =
               [st |-> "active", queue |-> req[c].queue, node |-> req[c].node,
                task |-> req[c].task, exp |-> now + ttl]]
          /\ tasks' = IF req[c].task = None THEN tasks
                      ELSE LeaseTask(req[c].task, now + ttl)
    BY <1>3 DEF AcquireGrant
  <2>2. now + ttl \in Nat
    BY TimeAssumption, TTLAssumption DEF TypeOK
  <2>3. req[c] \in Request
    BY DEF TypeOK
  <2>4. leases' \in [LeaseIds -> LeaseRow]
    BY <2>1, <2>2, <2>3, SweptType DEF LeaseRow, Request
  <2>5. tasks' \in [Tasks -> TaskRow]
    <3>1. ASSUME NEW t \in Tasks
          PROVE  [tasks[t] EXCEPT !.status = "running", !.delegation = "leased",
                                  !.worker = TRUE, !.exp = now + ttl, !.beat = TRUE,
                                  !.anchor = now] \in TaskRow
      BY <2>2 DEF TaskRow, TypeOK
    <3> QED
      BY <2>1, <3>1 DEF LeaseTask, TypeOK
  <2> QED
    BY <1>3, <2>4, <2>5, FinishType DEF AcquireGrant, Commit, TypeOK
<1>4. CASE AcquireAborted(c)
  BY <1>4, SweptType, FinishType DEF AcquireAborted, TypeOK
<1>5. ASSUME NEW status \in BeatStatuses, HeartbeatWrite(c, status)
      PROVE  TypeOK'
  <2>1. now + NodeTTL \in Nat
    BY TimeAssumption, TTLAssumption DEF TypeOK
  <2>2. nodes' \in [Nodes -> NodeRow]
    <3>1. ASSUME NEW n \in Nodes
          PROVE  [nodes[n] EXCEPT !.status = status,
                                  !.seenUntil = now + NodeTTL] \in NodeRow
      BY <2>1, StatusAssumption DEF NodeRow, TypeOK
    <3> QED
      BY <1>5, <3>1 DEF HeartbeatWrite, TypeOK
  <2>3. queues' \in [Queues -> QueueRow]
    BY <1>5 DEF HeartbeatWrite, QueueRow, TypeOK
  <2> QED
    BY <1>5, <2>2, <2>3, FinishType DEF HeartbeatWrite, Commit, TypeOK
<1>6. CASE DrainWrite(c)
  <2>1. nodes' \in [Nodes -> NodeRow]
    <3>1. ASSUME NEW n \in Nodes
          PROVE  [nodes[n] EXCEPT !.status = "draining",
                                  !.drain = "draining"] \in NodeRow
      BY DEF NodeRow, TypeOK
    <3> QED
      BY <1>6, <3>1 DEF DrainWrite, TypeOK
  <2>2. queues' \in [Queues -> QueueRow]
    BY <1>6 DEF DrainWrite, QueueRow, TypeOK
  <2> QED
    BY <1>6, <2>1, <2>2, FinishType DEF DrainWrite, Commit, TypeOK
<1>7. CASE RecoverWrite(c)
  <2>1. tasks' \in [Tasks -> TaskRow]
    <3>1. ASSUME NEW t \in Tasks
          PROVE  [tasks[t] EXCEPT !.status = "queued", !.delegation = "delegated",
                                  !.exp = 0, !.beat = FALSE, !.anchor = now] \in TaskRow
      BY DEF TaskRow, TypeOK
    <3> QED
      BY <1>7, <3>1 DEF RecoverWrite, TypeOK
  <2>2. req' \in [Threads -> Request]
    BY <1>7 DEF RecoverWrite, Request, TypeOK
  <2> QED
    BY <1>7, <2>1, <2>2 DEF RecoverWrite, Commit, TypeOK
<1>8. CASE RecoverParent(c)
  <2>1. tasks' \in [Tasks -> TaskRow]
    <3>1. ASSUME NEW row \in TaskRow
          PROVE  [row EXCEPT !.status = "blocked",
                             !.delegation = "blocked_on_child"] \in TaskRow
      BY DEF TaskRow
    <3> QED
      BY <1>8, <3>1, TouchedType DEF RecoverParent, TypeOK
  <2> QED
    BY <1>8, <2>1, FinishType DEF RecoverParent, Commit, TypeOK
<1>9. CASE BusyTimeout(c)
  BY <1>9, FinishType DEF BusyTimeout, TypeOK
<1>10. CASE StartWrite(c)
  <2>1. req[c].since \in Time /\ req[c].since + LeaseTTL \in Nat
    BY TimeAssumption, TTLAssumption DEF TypeOK, Request
  <2>2. tasks' \in [Tasks -> TaskRow]
    <3>1. CASE req[c].pc = "start"
      <4>1. ASSUME NEW t \in Tasks
            PROVE  [Touched(t, req[c].since) EXCEPT !.status = "running"] \in TaskRow
        BY <2>1, TouchedType DEF TaskRow, TypeOK
      <4> QED
        BY <1>10, <3>1, <4>1 DEF StartWrite, TypeOK
    <3>2. CASE req[c].pc # "start"
      <4>1. ASSUME NEW t \in Tasks
            PROVE  [tasks[t] EXCEPT !.status = "running", !.delegation = "leased",
                                    !.beat = TRUE, !.exp = req[c].since + LeaseTTL,
                                    !.anchor = req[c].since] \in TaskRow
        BY <2>1 DEF TaskRow, TypeOK
      <4> QED
        BY <1>10, <3>2, <4>1 DEF StartWrite, TypeOK
    <3> QED
      BY <3>1, <3>2
  <2> QED
    BY <1>10, <2>2, FinishType DEF StartWrite, Commit, TypeOK
<1> QED
  BY <1>1, <1>2, <1>3, <1>4, <1>5, <1>6, <1>7, <1>8, <1>9, <1>10 DEF Proceed

LEMMA NextType == TypeOK /\ [Next]_vars => TypeOK'
<1> SUFFICES ASSUME TypeOK, [Next]_vars PROVE TypeOK'
  OBVIOUS
<1>1. CASE \E c \in Threads : Begin(c)
  BY <1>1, BeginType
<1>2. CASE \E c \in Threads : Proceed(c)
  BY <1>2, ProceedType
<1>3. ASSUME NEW c \in Threads, ProcessEnds(c)
      PROVE  TypeOK'
  BY <1>3, FinishType DEF ProcessEnds, TypeOK
<1>4. CASE Tick
  BY <1>4, TimeAssumption DEF Tick, Time, TypeOK
<1>5. CASE UNCHANGED vars
  BY <1>5 DEF vars, TypeOK
<1> QED
  BY <1>1, <1>2, <1>3, <1>4, <1>5 DEF Next

\* The tables and the threads' memories stay well-typed: the worker-fabric
\* operations write only the statuses and timestamps their columns know.
THEOREM TypeCorrect == Spec => []TypeOK
BY InitType, NextType, PTL DEF Spec

-----------------------------------------------------------------------------
(* A lapsed lease stays lapsed.                                            *)

\* The lease table changes in these ways only: not at all, by a sweep, by a
\* new lease on top of a sweep and within the trigger's capacity, by the
\* extension of a lease the sweep has left active, or by a release.
LEMMA LeaseStep ==
  ASSUME TypeOK, [Next]_vars
  PROVE  \/ leases' = leases
         \/ leases' = Swept
         \/ \E c \in Threads, l \in Unused, ttl \in TTLs :
              /\ ~CapacityTrigger(req[c].queue)
              /\ queues' = queues
              /\ leases' = [Swept EXCEPT ![l] =
                   [st |-> "active", queue |-> req[c].queue, node |-> req[c].node,
                    task |-> req[c].task, exp |-> now + ttl]]
         \/ \E l \in LeaseIds, ttl \in TTLs :
              Swept[l].st = "active" /\ leases' = [Swept EXCEPT ![l].exp = now + ttl]
         \/ \E l \in LeaseIds :
              leases[l].st # "unused" /\ leases' = [leases EXCEPT ![l].st = "released"]
<1>1. ASSUME NEW c \in Threads, Begin(c)
      PROVE  \/ leases' = leases
             \/ leases' = Swept
             \/ \E l \in LeaseIds, ttl \in TTLs :
                  Swept[l].st = "active" /\ leases' = [Swept EXCEPT ![l].exp = now + ttl]
             \/ \E l \in LeaseIds :
                  leases[l].st # "unused" /\ leases' = [leases EXCEPT ![l].st = "released"]
  BY <1>1 DEF Begin, AcquireReadQueue, RenewLease, ReleaseLease, SweepLeases,
              RegisterNode, RegisterRollsBack, HeartbeatRead, DrainRead,
              RecoverRead, StartRead, ReassignTask, EndTask
<1>2. ASSUME NEW c \in Threads, AcquireGrant(c)
      PROVE  \E l \in Unused, ttl \in TTLs :
               /\ ~CapacityTrigger(req[c].queue)
               /\ queues' = queues
               /\ leases' = [Swept EXCEPT ![l] =
                    [st |-> "active", queue |-> req[c].queue, node |-> req[c].node,
                     task |-> req[c].task, exp |-> now + ttl]]
  BY <1>2 DEF AcquireGrant
<1>3. ASSUME NEW c \in Threads, Proceed(c), ~AcquireGrant(c)
      PROVE  leases' = leases \/ leases' = Swept
  BY <1>3 DEF Proceed, AcquireReadNode, AcquireFull, AcquireAborted,
              HeartbeatWrite, DrainWrite, RecoverWrite, RecoverParent,
              StartWrite, BusyTimeout
<1>4. ASSUME (\E c \in Threads : ProcessEnds(c)) \/ Tick \/ UNCHANGED vars
      PROVE  leases' = leases
  BY <1>4 DEF ProcessEnds, Tick, vars
<1> QED
  BY <1>1, <1>2, <1>3, <1>4 DEF Next

\* The clock never runs backwards.
LEMMA ClockStep ==
  ASSUME TypeOK, [Next]_vars
  PROVE  now \in Nat /\ now' \in Nat /\ now <= now'
<1>1. now \in Nat
  BY TimeAssumption DEF TypeOK, Time
<1>2. now' = now \/ now' = now + 1
  BY DEF Next, Begin, Proceed, ProcessEnds, Tick, vars, AcquireReadQueue,
         RenewLease, ReleaseLease, SweepLeases, RegisterNode, RegisterRollsBack,
         HeartbeatRead, DrainRead, RecoverRead, StartRead, ReassignTask, EndTask, AcquireReadNode,
         AcquireFull, AcquireGrant, AcquireAborted, HeartbeatWrite, DrainWrite,
         RecoverWrite, RecoverParent, StartWrite, BusyTimeout
<1> QED
  BY <1>1, <1>2

LEMMA LapseStep ==
  ASSUME TypeOK, [Next]_vars, NEW l \in LeaseIds, Lapsed(l)
  PROVE  Lapsed(l)'
<1>1. now \in Nat /\ now' \in Nat /\ now <= now'
  BY ClockStep
<1>2. leases[l] \in LeaseRow /\ leases[l].exp \in Nat
  BY DEF TypeOK, LeaseRow, Expiry
<1>3. CASE leases' = leases
  BY <1>1, <1>2, <1>3 DEF Lapsed
<1>4. Swept[l].st \in {"expired", "released"} /\ l \notin Unused
  BY <1>2 DEF Swept, Lapsed, Unused, LeaseRow
<1>5. CASE leases' = Swept
  BY <1>4, <1>5 DEF Lapsed
<1>6. ASSUME NEW m \in LeaseIds, m # l \/ m \in Unused, NEW row,
             leases' = [Swept EXCEPT ![m] = row]
      PROVE  Lapsed(l)'
  BY <1>4, <1>6 DEF Lapsed, Swept
<1>7. ASSUME NEW m \in LeaseIds, NEW ttl \in TTLs, Swept[m].st = "active",
             leases' = [Swept EXCEPT ![m].exp = now + ttl]
      PROVE  Lapsed(l)'
  BY <1>4, <1>7 DEF Lapsed, Swept
<1>8. ASSUME NEW m \in LeaseIds, leases' = [leases EXCEPT ![m].st = "released"]
      PROVE  Lapsed(l)'
  <2>1. CASE m = l
    BY <1>2, <1>8, <2>1 DEF Lapsed, TypeOK, LeaseRow
  <2>2. CASE m # l
    BY <1>1, <1>2, <1>8, <2>2 DEF Lapsed, TypeOK
  <2> QED
    BY <2>1, <2>2
<1> QED
  BY LeaseStep, <1>3, <1>5, <1>6, <1>7, <1>8 DEF Unused

\* Once a lease has lapsed no operation gives it back to its holder, for any
\* number of workers renewing and releasing late.
THEOREM LapseIsFinal == Spec => LapsedStaysLapsed
<1>1. TypeOK /\ [Next]_vars => [\A l \in LeaseIds : Lapsed(l) => Lapsed(l)']_vars
  BY LapseStep
<1> QED
  BY <1>1, TypeCorrect, PTL DEF Spec, LapsedStaysLapsed

-----------------------------------------------------------------------------
(* Grants respect the capacity.                                            *)

LEMMA CapacityStep ==
  ASSUME TypeOK, [Next]_vars, NEW q \in Queues,
         ~(ActiveOn(leases', q) \subseteq ActiveOn(leases, q))
  PROVE  Cardinality(ActiveOn(leases', q)) <= queues[q].cap
<1>1. ActiveOn(Swept, q) \subseteq ActiveOn(leases, q)
  BY DEF ActiveOn, Swept
<1>2. leases' # leases /\ leases' # Swept
  BY <1>1
<1>3. ASSUME NEW l \in LeaseIds, NEW ttl \in TTLs, Swept[l].st = "active",
             leases' = [Swept EXCEPT ![l].exp = now + ttl]
      PROVE  FALSE
  <2>1. ASSUME NEW m \in LeaseIds
        PROVE  leases'[m].st = Swept[m].st /\ leases'[m].queue = Swept[m].queue
    BY <1>3, SweptType DEF LeaseRow
  <2> QED
    BY <1>1, <2>1 DEF ActiveOn
<1>4. ASSUME NEW l \in LeaseIds, leases' = [leases EXCEPT ![l].st = "released"]
      PROVE  FALSE
  <2>1. ASSUME NEW m \in LeaseIds, leases'[m].st = "active"
        PROVE  leases'[m] = leases[m]
    BY <1>4, <2>1 DEF TypeOK, LeaseRow
  <2> QED
    BY <2>1 DEF ActiveOn
<1>5. PICK c \in Threads, l \in Unused, ttl \in TTLs :
        /\ ~CapacityTrigger(req[c].queue)
        /\ leases' = [Swept EXCEPT ![l] =
             [st |-> "active", queue |-> req[c].queue, node |-> req[c].node,
              task |-> req[c].task, exp |-> now + ttl]]
  BY <1>2, <1>3, <1>4, LeaseStep
<1>6. /\ l \in LeaseIds /\ l \notin ActiveOn(Swept, q)
      /\ leases'[l].queue = req[c].queue
      /\ \A m \in LeaseIds : m # l => leases'[m] = Swept[m]
  BY <1>5, SweptType DEF Unused, ActiveOn, Swept
<1>7. ActiveOn(leases', q) \subseteq ActiveOn(Swept, q) \cup {l}
  BY <1>6 DEF ActiveOn
<1>8. req[c].queue = q
  BY <1>1, <1>6 DEF ActiveOn
<1>9. IsFiniteSet(ActiveOn(Swept, q)) /\ IsFiniteSet(ActiveOn(Swept, q) \cup {l})
  BY LeaseIdsFinite, FS_Subset, FS_AddElement DEF ActiveOn
<1>10. Cardinality(ActiveOn(leases', q)) <= Cardinality(ActiveOn(Swept, q)) + 1
  <2>1. Cardinality(ActiveOn(Swept, q) \cup {l}) = Cardinality(ActiveOn(Swept, q)) + 1
    BY <1>6, <1>9, FS_AddElement
  <2> QED
    BY <1>7, <1>9, <2>1, FS_Subset
<1>11. ~(Cardinality(ActiveOn(Swept, q)) >= queues[q].cap)
  BY <1>5, <1>8 DEF CapacityTrigger, ActiveCount
<1>12. queues[q].cap \in Nat /\ Cardinality(ActiveOn(Swept, q)) \in Nat
  <2>1. queues[q].cap \in Caps \cup {0}
    BY DEF TypeOK, QueueRow
  <2>2. queues[q].cap \in Nat
    BY <2>1, CapsAssumption
  <2> QED
    BY <1>9, <2>2, FS_CardinalityType
<1>13. Cardinality(ActiveOn(leases', q)) \in Nat
  BY <1>7, <1>9, FS_Subset, FS_CardinalityType
<1> QED
  BY <1>10, <1>11, <1>12, <1>13

\* The check before the transaction and the trigger inside it keep every grant
\* within the capacity of its moment, however many connections acquire,
\* renew, release and register at once.
THEOREM CapacityHeld == Spec => GrantsRespectCapacity
<1>1. TypeOK /\ [Next]_vars
        => [\A q \in Queues :
              ~(ActiveOn(leases', q) \subseteq ActiveOn(leases, q))
                => Cardinality(ActiveOn(leases', q)) <= queues[q].cap]_vars
  BY CapacityStep
<1> QED
  BY <1>1, TypeCorrect, PTL DEF Spec, GrantsRespectCapacity

-----------------------------------------------------------------------------
(* The stamp on a task row is backed.                                      *)

\* The stamp of one task; StampBacked asks it of all.
Stamp(t) ==
  /\ tasks[t].beat
  /\ \/ tasks[t].exp = tasks[t].anchor + LeaseTTL
     \/ \E l \in LeaseIds : /\ leases[l].st = "active"
                            /\ leases[l].task = t
                            /\ leases[l].exp = tasks[t].exp

\* A step that leaves the stamp and the heartbeat of t alone.
SameStamp(t) ==
  /\ tasks'[t].exp = tasks[t].exp
  /\ tasks'[t].beat = tasks[t].beat
  /\ tasks[t].beat => tasks'[t].anchor = tasks[t].anchor

\* A write that only touches updated_at is such a step for every task.
LEMMA TouchedStamp ==
  ASSUME TypeOK, NEW t \in Tasks, NEW u, NEW at \in Time, NEW row,
         tasks' = [tasks EXCEPT ![u] = row],
         row.exp = Touched(u, at).exp, row.beat = Touched(u, at).beat,
         row.anchor = Touched(u, at).anchor
  PROVE  SameStamp(t)
<1>1. CASE u = t
  BY <1>1, TouchedType DEF SameStamp, TypeOK
<1>2. CASE u # t
  BY <1>2 DEF SameStamp, TypeOK
<1> QED
  BY <1>1, <1>2

\* Setting other columns leaves the stamp's alone.
LEMMA OtherColumns ==
  ASSUME NEW row \in TaskRow, NEW status, NEW delegation
  PROVE  \A r \in {[row EXCEPT !.status = status],
                   [row EXCEPT !.status = status, !.delegation = delegation],
                   [row EXCEPT !.worker = TRUE, !.delegation = delegation]} :
           r.exp = row.exp /\ r.beat = row.beat /\ r.anchor = row.anchor
BY DEF TaskRow

\* An operation that leaves the stamp alone keeps it backed, provided it keeps
\* the task's leases that have not lapsed.
LEMMA StampKept ==
  ASSUME TypeOK, StampBacked, NEW t \in Tasks, tasks[t].exp > now,
         SameStamp(t),
         \A l \in LeaseIds :
           Swept[l].st = "active" /\ Swept[l].task = t => leases'[l] = Swept[l]
  PROVE  Stamp(t)'
<1>0. tasks[t].beat /\ tasks'[t].beat /\ tasks'[t].anchor = tasks[t].anchor
  BY DEF StampBacked, SameStamp
<1>1. CASE tasks[t].exp = tasks[t].anchor + LeaseTTL
  BY <1>0, <1>1 DEF Stamp, SameStamp
<1>2. CASE \E l \in LeaseIds : /\ leases[l].st = "active"
                              /\ leases[l].task = t
                              /\ leases[l].exp = tasks[t].exp
  <2>1. PICK l \in LeaseIds : /\ leases[l].st = "active"
                             /\ leases[l].task = t
                             /\ leases[l].exp = tasks[t].exp
    BY <1>2
  <2>2. tasks[t].exp \in Nat /\ now \in Nat
    BY TimeAssumption DEF TypeOK, TaskRow, Expiry, Time
  <2>3. Swept[l] = leases[l]
    BY <2>1, <2>2 DEF Swept
  <2>4. leases'[l] = leases[l]
    BY <2>1, <2>3
  <2> QED
    BY <1>0, <2>1, <2>4 DEF Stamp, SameStamp
<1> QED
  BY <1>1, <1>2 DEF StampBacked

LEMMA StampStep ==
  ASSUME TypeOK, StampBacked, [Next]_vars, NEW t \in Tasks, tasks'[t].exp > now'
  PROVE  Stamp(t)'
<1>0. now \in Time
  BY DEF TypeOK
<1>1. now \in Nat /\ now' \in Nat /\ now <= now'
  BY ClockStep
<1>2. tasks[t] \in TaskRow /\ tasks[t].exp \in Nat
  BY DEF TypeOK, TaskRow, Expiry
\* The table of leases is as it was, or swept.
<1>3. ASSUME leases' = leases \/ leases' = Swept, SameStamp(t)
      PROVE  Stamp(t)'
  <2>1. \A l \in LeaseIds : Swept[l].st = "active" => leases'[l] = Swept[l]
    BY <1>3 DEF Swept
  <2> QED
    BY <1>1, <1>2, <1>3, <2>1, StampKept DEF SameStamp
<1>4. ASSUME tasks' = tasks, leases' = leases \/ leases' = Swept
      PROVE  Stamp(t)'
  BY <1>3, <1>4 DEF SameStamp
<1>5. ASSUME NEW c \in Threads, NEW l \in LeaseIds, NEW ttl \in TTLs,
             RenewLease(c, l, ttl)
      PROVE  Stamp(t)'
  <2>1. /\ leases' = [Swept EXCEPT ![l].exp = now + ttl]
        /\ Swept[l].st = "active"
    BY <1>5 DEF RenewLease
  <2>2. leases[l].task = Swept[l].task /\ Swept[l] \in LeaseRow
    BY SweptType DEF Swept
  <2>3. CASE leases[l].task = t
    <3>1. tasks'[t].exp = now + ttl /\ tasks'[t].beat
      BY <1>2, <1>5, <2>3, NoneAssumption DEF RenewLease, TypeOK, TaskRow
    <3>2. leases'[l].st = "active" /\ leases'[l].task = t /\ leases'[l].exp = now + ttl
      BY <2>1, <2>2, <2>3, SweptType DEF LeaseRow
    <3> QED
      BY <3>1, <3>2 DEF Stamp
  <2>4. CASE leases[l].task # t
    <3>1. tasks'[t] = tasks[t]
      BY <1>5, <2>4 DEF RenewLease, TypeOK
    <3>2. \A m \in LeaseIds : Swept[m].task = t => leases'[m] = Swept[m]
      BY <2>1, <2>2, <2>4, SweptType
    <3> QED
      BY <1>1, <1>2, <3>1, <3>2, StampKept DEF SameStamp
  <2> QED
    BY <2>3, <2>4
<1>6. ASSUME NEW c \in Threads, NEW l \in LeaseIds, ReleaseLease(c, l)
      PROVE  Stamp(t)'
  <2>1. CASE leases[l].task = t
    <3>1. tasks'[t].exp = 0
      BY <1>2, <1>6, <2>1, NoneAssumption DEF ReleaseLease, TypeOK, TaskRow
    <3> QED
      BY <1>1, <3>1
  <2>2. CASE leases[l].task # t
    <3>1. tasks'[t] = tasks[t]
      BY <1>6, <2>2 DEF ReleaseLease, TypeOK
    <3>2. \A m \in LeaseIds :
            Swept[m].st = "active" /\ Swept[m].task = t => leases'[m] = Swept[m]
      BY <1>6, <2>2 DEF ReleaseLease, Swept, TypeOK
    <3> QED
      BY <1>1, <1>2, <3>1, <3>2, StampKept DEF SameStamp
  <2> QED
    BY <2>1, <2>2
<1>7. ASSUME NEW c \in Threads, Begin(c)
      PROVE  Stamp(t)'
  <2>1. ASSUME NEW u \in Tasks, NEW status \in FinalStatuses, EndTask(c, u, status)
        PROVE  Stamp(t)'
    <3>1. SameStamp(t)
      <4>1. PICK row : /\ tasks' = [tasks EXCEPT ![u] = row]
                        /\ row = [Touched(u, now) EXCEPT !.status = status]
        BY <2>1 DEF EndTask
      <4>2. Touched(u, now) \in TaskRow
        BY <1>0, TouchedType
      <4>3. /\ row.exp = Touched(u, now).exp
            /\ row.beat = Touched(u, now).beat
            /\ row.anchor = Touched(u, now).anchor
        BY <4>1, <4>2, OtherColumns
      <4> QED
        BY <4>1, <4>3, <1>0, TouchedStamp
    <3> QED
      BY <1>3, <2>1, <3>1 DEF EndTask
  <2>2. ASSUME NEW u \in Tasks, ReassignTask(c, u)
        PROVE  Stamp(t)'
    <3>1. SameStamp(t)
      <4>1. PICK row : /\ tasks' = [tasks EXCEPT ![u] = row]
                        /\ row = [Touched(u, now) EXCEPT !.worker = TRUE, !.delegation = "delegated"]
        BY <2>2 DEF ReassignTask
      <4>2. Touched(u, now) \in TaskRow
        BY <1>0, TouchedType
      <4>3. /\ row.exp = Touched(u, now).exp
            /\ row.beat = Touched(u, now).beat
            /\ row.anchor = Touched(u, now).anchor
        BY <4>1, <4>2, OtherColumns
      <4> QED
        BY <4>1, <4>3, <1>0, TouchedStamp
    <3> QED
      BY <1>3, <2>2, <3>1 DEF ReassignTask
  <2>3. ASSUME ~(\E l \in LeaseIds, ttl \in TTLs : RenewLease(c, l, ttl)),
               ~(\E l \in LeaseIds : ReleaseLease(c, l)),
               ~(\E u \in Tasks : ReassignTask(c, u)),
               ~(\E u \in Tasks, status \in FinalStatuses : EndTask(c, u, status))
        PROVE  tasks' = tasks /\ (leases' = leases \/ leases' = Swept)
    BY <1>7, <2>3 DEF Begin, AcquireReadQueue, SweepLeases, RegisterNode,
                      RegisterRollsBack, HeartbeatRead, DrainRead, RecoverRead,
                      StartRead
  <2> QED
    BY <1>4, <1>5, <1>6, <2>1, <2>2, <2>3
<1>8. ASSUME NEW c \in Threads, AcquireGrant(c)
      PROVE  Stamp(t)'
  <2>1. PICK l \in Unused, ttl \in TTLs :
          /\ leases' = [Swept EXCEPT ![l] =
               [st |-> "active", queue |-> req[c].queue, node |-> req[c].node,
                task |-> req[c].task, exp |-> now + ttl]]
          /\ tasks' = IF req[c].task = None THEN tasks
                      ELSE LeaseTask(req[c].task, now + ttl)
    BY <1>8 DEF AcquireGrant
  <2>2. l \in LeaseIds /\ Swept[l].st = "unused"
    BY <2>1 DEF Unused, Swept
  <2>3. CASE req[c].task = t
    <3>1. tasks'[t].exp = now + ttl /\ tasks'[t].beat
      BY <1>2, <2>1, <2>3, NoneAssumption DEF LeaseTask, TypeOK, TaskRow
    <3>2. leases'[l].st = "active" /\ leases'[l].task = t /\ leases'[l].exp = now + ttl
      BY <2>1, <2>2, <2>3, SweptType
    <3> QED
      BY <2>2, <3>1, <3>2 DEF Stamp
  <2>4. CASE req[c].task # t
    <3>1. tasks'[t] = tasks[t]
      BY <2>1, <2>4 DEF LeaseTask, TypeOK
    <3>2. \A m \in LeaseIds : Swept[m].st = "active" => leases'[m] = Swept[m]
      BY <2>1, <2>2, SweptType
    <3> QED
      BY <1>1, <1>2, <3>1, <3>2, StampKept DEF SameStamp
  <2> QED
    BY <2>3, <2>4
<1>9. ASSUME NEW c \in Threads, RecoverWrite(c) \/ RecoverParent(c) \/ StartWrite(c)
      PROVE  Stamp(t)'
  <2>1. leases' = leases
    BY <1>9 DEF RecoverWrite, RecoverParent, StartWrite
  <2>2. \/ SameStamp(t)
        \/ tasks'[t].exp = 0
        \/ tasks'[t].beat /\ tasks'[t].exp = tasks'[t].anchor + LeaseTTL
    <3>1. CASE RecoverWrite(c)
      <4>1. CASE req[c].task = t
        BY <1>2, <3>1, <4>1 DEF RecoverWrite, TypeOK, TaskRow
      <4>2. CASE req[c].task # t
        BY <3>1, <4>2 DEF RecoverWrite, SameStamp, TypeOK
      <4> QED
        BY <4>1, <4>2
    <3>2. CASE RecoverParent(c)
      <4>1. CASE Parent[req[c].task] = t
        <5>1. PICK row : /\ tasks' = [tasks EXCEPT ![t] = row]
                          /\ row = [Touched(t, now) EXCEPT !.status = "blocked", !.delegation = "blocked_on_child"]
          BY <3>2, <4>1 DEF RecoverParent
        <5>2. Touched(t, now) \in TaskRow
          BY <1>0, TouchedType
        <5>3. /\ row.exp = Touched(t, now).exp
              /\ row.beat = Touched(t, now).beat
              /\ row.anchor = Touched(t, now).anchor
          BY <5>1, <5>2, OtherColumns
        <5> QED
          BY <5>1, <5>3, <1>0, TouchedStamp
      <4>2. CASE Parent[req[c].task] # t
        BY <3>2, <4>2 DEF RecoverParent, SameStamp, TypeOK
      <4> QED
        BY <4>1, <4>2
    <3>3. CASE StartWrite(c) /\ req[c].pc = "start"
      <4>1. req[c].since \in Time
        BY DEF TypeOK, Request
      <4>2. CASE req[c].task = t
        <5>1. PICK row : /\ tasks' = [tasks EXCEPT ![t] = row]
                          /\ row = [Touched(t, req[c].since) EXCEPT !.status = "running"]
          BY <3>3, <4>2 DEF StartWrite
        <5>2. Touched(t, req[c].since) \in TaskRow
          BY <4>1, TouchedType
        <5>3. /\ row.exp = Touched(t, req[c].since).exp
              /\ row.beat = Touched(t, req[c].since).beat
              /\ row.anchor = Touched(t, req[c].since).anchor
          BY <5>1, <5>2, OtherColumns
        <5> QED
          BY <5>1, <5>3, <4>1, TouchedStamp
      <4>3. CASE req[c].task # t
        BY <3>3, <4>3 DEF StartWrite, SameStamp, TypeOK
      <4> QED
        BY <4>2, <4>3
    <3>4. CASE StartWrite(c) /\ req[c].pc # "start"
      <4>1. CASE req[c].task = t
        BY <1>2, <3>4, <4>1 DEF StartWrite, TypeOK, TaskRow
      <4>2. CASE req[c].task # t
        BY <3>4, <4>2 DEF StartWrite, SameStamp, TypeOK
      <4> QED
        BY <4>1, <4>2
    <3> QED
      BY <1>9, <3>1, <3>2, <3>3, <3>4
  <2>3. tasks'[t].exp # 0
    BY <1>1
  <2> QED
    BY <1>3, <2>1, <2>2, <2>3 DEF Stamp
<1>10. ASSUME NEW c \in Threads, Proceed(c)
       PROVE  Stamp(t)'
  <2>1. ASSUME ~AcquireGrant(c), ~RecoverWrite(c), ~RecoverParent(c), ~StartWrite(c)
        PROVE  tasks' = tasks /\ (leases' = leases \/ leases' = Swept)
    BY <1>10, <2>1 DEF Proceed, AcquireReadNode, AcquireFull, AcquireAborted,
                       HeartbeatWrite, DrainWrite, BusyTimeout
  <2> QED
    BY <1>4, <1>8, <1>9, <2>1
<1>11. ASSUME (\E c \in Threads : ProcessEnds(c)) \/ Tick \/ UNCHANGED vars
       PROVE  Stamp(t)'
  BY <1>4, <1>11 DEF ProcessEnds, Tick, vars
<1> QED
  BY <1>7, <1>10, <1>11 DEF Next

\* No stamp on a task row outlives the lease or the start it came from, for any
\* number of leases on the same task and any order of their operations.
THEOREM StampsAreBacked == Spec => []StampBacked
<1>1. Init => StampBacked
  <2>1. Init => now = 0 /\ \A t \in Tasks : tasks[t].exp = 0
    BY DEF Init, NewTask
  <2> QED
    BY <2>1 DEF StampBacked
<1>2. TypeOK /\ StampBacked /\ [Next]_vars => StampBacked'
  BY StampStep DEF StampBacked, Stamp
<1> QED
  BY <1>1, <1>2, TypeCorrect, PTL DEF Spec

-----------------------------------------------------------------------------
(* A drain holds until the next registration.                              *)

LEMMA DrainStep ==
  ASSUME TypeOK, [Next]_vars, NEW n \in Nodes,
         nodes[n].drain = "draining", nodes'[n].drain # "draining"
  PROVE  \E c \in Threads, q \in Queues, cap \in Caps : RegisterNode(c, n, q, cap)
<1>1. nodes' # nodes /\ nodes[n] \in NodeRow
  BY DEF TypeOK
<1>2. ASSUME NEW c \in Threads, NEW m \in Nodes, NEW q \in Queues, NEW cap \in Caps,
             RegisterNode(c, m, q, cap)
      PROVE  m = n
  BY <1>2 DEF RegisterNode, TypeOK
<1>3. ASSUME NEW c \in Threads, Begin(c)
      PROVE  \E m \in Nodes, q \in Queues, cap \in Caps : RegisterNode(c, m, q, cap)
  BY <1>1, <1>3 DEF Begin, AcquireReadQueue, RenewLease, ReleaseLease, SweepLeases,
                    RegisterRollsBack, HeartbeatRead, DrainRead, RecoverRead,
                    StartRead, ReassignTask, EndTask
<1>4. ASSUME NEW c \in Threads, NEW status \in BeatStatuses, HeartbeatWrite(c, status)
      PROVE  FALSE
  BY <1>1, <1>4 DEF HeartbeatWrite, TypeOK, NodeRow
<1>5. ASSUME NEW c \in Threads, DrainWrite(c)
      PROVE  FALSE
  BY <1>1, <1>5 DEF DrainWrite, TypeOK, NodeRow
<1>6. ASSUME NEW c \in Threads, Proceed(c)
      PROVE  FALSE
  BY <1>1, <1>4, <1>5, <1>6
     DEF Proceed, AcquireReadNode, AcquireFull, AcquireGrant, AcquireAborted,
         RecoverWrite, RecoverParent, StartWrite, BusyTimeout
<1>7. ~((\E c \in Threads : ProcessEnds(c)) \/ Tick \/ UNCHANGED vars)
  BY <1>1 DEF ProcessEnds, Tick, vars
<1> QED
  BY <1>2, <1>3, <1>6, <1>7 DEF Next

\* Nothing but a new registration makes a drained node available again, however
\* many heartbeats are under way when it is drained.
THEOREM DrainIsHeld == Spec => DrainHolds
<1>1. TypeOK /\ [Next]_vars
        => [\A n \in Nodes :
              nodes[n].drain = "draining" /\ ~Draining(n)'
                => \E c \in Threads, q \in Queues, cap \in Caps :
                     RegisterNode(c, n, q, cap)]_vars
  BY DrainStep DEF Draining
<1> QED
  BY <1>1, TypeCorrect, PTL DEF Spec, DrainHolds
=============================================================================
