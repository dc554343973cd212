---------------------------- MODULE CommandEngines ----------------------------
(***************************************************************************)
(* What surrounds every command (BotBoy.process_command): governance counts *)
(* the tasks of the tenant the command is charged to, and may turn it away; *)
(* behind a command that is trusted, self-healing queues again what has run *)
(* for too long, so many times, and the DAG engine sets running what is     *)
(* queued in the command's tree and waits for no child.  A command handed   *)
(* over runs inside of its parent's, in the same envelope.                  *)
(*                                                                          *)
(* All rows are of one tenant.  A plain command, which has neither a task   *)
(* nor a security context yet, is charged to another one, without rows.     *)
(***************************************************************************)
EXTENDS Naturals, FiniteSets, Sequences, FiniteSetsExt

CONSTANTS
  Threads,      \* event loops and threads commands run in
  MaxTasks,     \* bound on the tasks created
  MaxParallel,  \* max_parallel_tasks, 5 in the code
  MaxRetries,   \* max_retries, 3 in the code
  Batch         \* bound on the children of one handoff

VARIABLES
  tasks,  \* the rows, in the order they were created
  stack   \* of each thread its command, and on top of it the child's it waits for

vars == <<tasks, stack>>

Ids == 1 .. MaxTasks
Kinds == {"plain", "charged", "remote"}

\* old: its last update is an hour ago.
Row == [status: {"queued", "running", "completed", "failed", "blocked"}, parent: 0 .. MaxTasks,
        retries: 0 .. MaxRetries, old: BOOLEAN]

Frame == [pc: {"check", "create", "begin", "run", "call", "sync", "end", "heal", "retry", "write", "fan"},
          kind: Kinds, task: 0 .. MaxTasks, todo: SUBSET Ids, seen: 0 .. MaxRetries]

TypeOK ==
  /\ tasks \in Seq(Row) /\ Len(tasks) <= MaxTasks
  /\ stack \in [Threads -> Seq(Frame)]

Init == tasks = <<>> /\ stack = [th \in Threads |-> <<>>]

NewRow(parent) == [status |-> "queued", parent |-> parent, retries |-> 0, old |-> FALSE]

\* update_status, update_task: updated_at is now.
Updated(row, status) == [row EXCEPT !.status = status, !.old = FALSE]

Children(t) == {c \in DOMAIN tasks : tasks[c].parent = t}
RootOf(t) == IF tasks[t].parent = 0 THEN t ELSE tasks[t].parent

At(th, pc) == stack[th] # <<>> /\ Head(stack[th]).pc = pc
Top(th) == Head(stack[th])

Push(th, kind, t) ==
  stack' = [stack EXCEPT ![th] =
    <<[pc |-> "check", kind |-> kind, task |-> t, todo |-> {}, seen |-> 0]>> \o @]
Return(th) == stack' = [stack EXCEPT ![th] = Tail(@)]
Goto(th, pc) == stack' = [stack EXCEPT ![th] = <<[Head(@) EXCEPT !.pc = pc]>> \o Tail(@)]
Do(th, pc, todo) ==
  stack' = [stack EXCEPT ![th] = <<[Head(@) EXCEPT !.pc = pc, !.todo = todo, !.seen = 0]>> \o Tail(@)]

-----------------------------------------------------------------------------
\* A command of the command line or the gateway, which has no task yet.
Arrive(th, kind) ==
  /\ stack[th] = <<>> /\ kind \in {"plain", "remote"}
  /\ Push(th, kind, 0) /\ UNCHANGED tasks

\* A job that is due: its task is there before governance is asked.
RunScheduled(th) ==
  /\ stack[th] = <<>> /\ Len(tasks) < MaxTasks
  /\ tasks' = Append(tasks, NewRow(0))
  /\ Push(th, "charged", Len(tasks) + 1)

\* A task taken up again, by a local command or over HTTP.
Resume(th, t, kind) ==
  /\ stack[th] = <<>> /\ kind \in {"charged", "remote"}
  /\ t \in DOMAIN tasks /\ tasks[t].status \in {"failed", "blocked"}
  /\ Push(th, kind, t) /\ UNCHANGED tasks

-----------------------------------------------------------------------------
Active == {t \in DOMAIN tasks : tasks[t].status \in {"queued", "running"}}

\* enforce_pre_execution: turned away, a command returns without an update of its
\* task and without the engines behind it.
Check(th) ==
  /\ At(th, "check") /\ UNCHANGED tasks
  /\ IF Top(th).kind # "plain" /\ Cardinality(Active) >= MaxParallel THEN Return(th)
     ELSE Goto(th, IF Top(th).task = 0 THEN "create" ELSE "begin")

Create(th) ==
  /\ At(th, "create") /\ Len(tasks) < MaxTasks
  /\ tasks' = Append(tasks, NewRow(0))
  /\ stack' = [stack EXCEPT ![th] = <<[Head(@) EXCEPT !.pc = "begin", !.task = Len(tasks) + 1]>> \o Tail(@)]

Begin(th) ==
  /\ At(th, "begin")
  /\ tasks' = [tasks EXCEPT ![Top(th).task] = Updated(@, "running")]
  /\ Goto(th, "run")

\* A slip for TLC: every command goes on to the engines.
SlipBehind(th) == Goto(th, "heal")

\* Only what is trusted goes on to them.
Behind(th) == IF Top(th).kind = "remote" THEN Return(th) ELSE Goto(th, "heal")

Finish(th, status) ==
  /\ At(th, "run") /\ status \in {"completed", "failed", "blocked"}
  /\ tasks' = [tasks EXCEPT ![Top(th).task] = Updated(@, status)]
  /\ Behind(th)

-----------------------------------------------------------------------------
\* A handoff, or a batch of them: all children are created before one runs.
\* Remote commands cannot hand over (_require_remote_command_surface).
Handoff(th, n) ==
  LET t == Top(th).task
      kids == Len(tasks) + 1 .. Len(tasks) + n IN
  /\ At(th, "run") /\ Top(th).kind # "remote"
  /\ tasks[t].parent = 0 /\ Len(tasks) + n <= MaxTasks  \* bounds: children hand nothing over
  /\ tasks' = [c \in 1 .. Len(tasks) + n |->
                 IF c \in kids THEN NewRow(t)
                 ELSE IF c = t THEN Updated(tasks[c], "running") ELSE tasks[c]]
  /\ Do(th, "call", kids)

\* _execute_worker_child_task: the next child, as a command of its own,
Call(th) ==
  /\ At(th, "call")
  /\ stack' = [stack EXCEPT ![th] =
       <<[pc |-> "check", kind |-> "charged", task |-> Min(Top(th).todo), todo |-> {}, seen |-> 0],
         [Head(@) EXCEPT !.pc = "sync"]>> \o Tail(@)]
  /\ UNCHANGED tasks

\* and what its status makes of its parent's (_sync_parent_after_child).
Sync(th) ==
  LET f == Top(th)
      child == Min(f.todo)
      waits == \E c \in Children(f.task) \ {child} : tasks[c].status \in {"queued", "running", "blocked"}
      status == IF tasks[child].status = "completed" /\ ~waits THEN "completed" ELSE "blocked" IN
  /\ At(th, "sync")
  /\ tasks' = [tasks EXCEPT ![f.task] = Updated(@, status)]
  /\ Do(th, IF f.todo = {child} THEN "end" ELSE "call", f.todo \ {child})

\* The command ends as the children left its task.
End(th) ==
  /\ At(th, "end")
  /\ tasks' = [tasks EXCEPT ![Top(th).task] = Updated(@, @.status)]
  /\ Behind(th)

-----------------------------------------------------------------------------
\* scan_for_stale_tasks: what runs and was updated an hour ago,
Scan(th) ==
  /\ At(th, "heal")
  /\ Do(th, "retry", {t \in DOMAIN tasks : tasks[t].status = "running" /\ tasks[t].old})
  /\ UNCHANGED tasks

\* of which execute_auto_retry reads one row after the other,
ReadRetry(th) ==
  /\ At(th, "retry") /\ Top(th).todo # {}
  /\ stack' = [stack EXCEPT ![th] =
       <<[Head(@) EXCEPT !.pc = "write", !.seen = tasks[Min(Top(th).todo)].retries]>> \o Tail(@)]
  /\ UNCHANGED tasks

\* A slip for TLC: the limit may be passed by one.
SlipRetry(th) ==
  LET t == Min(Top(th).todo) IN
  /\ At(th, "write")
  /\ tasks' = [tasks EXCEPT ![t] =
       IF Top(th).seen > MaxRetries THEN Updated(@, "failed")
       ELSE [Updated(@, "queued") EXCEPT !.retries = Top(th).seen + 1]]
  /\ Do(th, "retry", Top(th).todo \ {t})

\* and writes it whatever has become of it meanwhile.
Retry(th) ==
  LET t == Min(Top(th).todo) IN
  /\ At(th, "write")
  /\ tasks' = [tasks EXCEPT ![t] =
       IF Top(th).seen >= MaxRetries THEN Updated(@, "failed")
       ELSE [Updated(@, "queued") EXCEPT !.retries = Top(th).seen + 1]]
  /\ Do(th, "retry", Top(th).todo \ {t})

\* get_executable_fringe, of the tree of the command's task.
Fringe(root) ==
  {t \in DOMAIN tasks : /\ RootOf(t) = root /\ tasks[t].status = "queued"
                         /\ \A c \in Children(t) : tasks[c].status = "completed"}

ReadFringe(th) ==
  /\ At(th, "retry") /\ Top(th).todo = {}
  /\ Do(th, "fan", Fringe(RootOf(Top(th).task)))
  /\ UNCHANGED tasks

\* execute_fringe, in one transaction that passes over what is not queued any more.
FanOut(th) ==
  /\ At(th, "fan")
  /\ tasks' = [t \in DOMAIN tasks |->
       IF t \in Top(th).todo /\ tasks[t].status = "queued"
       THEN Updated(tasks[t], "running") ELSE tasks[t]]
  /\ Return(th)

-----------------------------------------------------------------------------
\* An hour passes in which nothing is updated.
Hour ==
  /\ \E t \in DOMAIN tasks : ~tasks[t].old
  /\ tasks' = [t \in DOMAIN tasks |-> [tasks[t] EXCEPT !.old = TRUE]]
  /\ UNCHANGED stack

\* The process of a thread ends; what it was at stays as it was.
ProcessEnds(th) ==
  /\ stack[th] # <<>>
  /\ stack' = [stack EXCEPT ![th] = <<>>] /\ UNCHANGED tasks

Next ==
  \/ \E th \in Threads :
       \/ \E kind \in Kinds : Arrive(th, kind) \/ (\E t \in Ids : Resume(th, t, kind))
       \/ RunScheduled(th) \/ Check(th) \/ Create(th) \/ Begin(th)
       \/ \E status \in {"completed", "failed", "blocked"} : Finish(th, status)
       \/ \E n \in 1 .. Batch : Handoff(th, n)
       \/ Call(th) \/ Sync(th) \/ End(th)
       \/ Scan(th) \/ ReadRetry(th) \/ Retry(th) \/ ReadFringe(th) \/ FanOut(th)
       \/ ProcessEnds(th)
  \/ Hour

Spec == Init /\ [][Next]_vars

-----------------------------------------------------------------------------
\* However the healing of several threads overlaps with itself, with commands and
\* with crashes, no task is queued again more often than the limit allows
\* (execute_auto_retry reads the count and writes it back in two statements).
RetriesHeld == \A t \in DOMAIN tasks : tasks[t].retries <= MaxRetries

\* A command that came in over the network changes no task but its own, and those
\* only if it is a new one or was taken up by it ("A remote command must not retry
\* or fan out unrelated tenant work", BotBoy.process_command).
RemoteStaysOut ==
  [][\A th \in DOMAIN stack, t \in DOMAIN tasks :
       (stack[th] # <<>> /\ Top(th).kind = "remote" /\ stack'[th] # stack[th] /\ tasks'[t] # tasks[t])
         => t = Top(th).task]_vars

\* A queued task is set running only if some command runs it, or is about to: the
\* engine "fans out execution leases" and "workers scoop them via leasing"
\* (MassEscalationEngine.execute_fringe).
FannedOutRuns ==
  [][\A t \in DOMAIN tasks :
       (tasks[t].status = "queued" /\ tasks'[t].status = "running") =>
         \E th \in Threads : \E i \in DOMAIN stack[th] :
           \/ stack[th][i].task = t
           \/ t \in stack[th][i].todo /\ stack[th][i].pc \in {"call", "sync"}]_vars
=============================================================================
