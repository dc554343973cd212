------------------------- MODULE ApprovedExecution -------------------------
(***************************************************************************)
(* Commands that need an approval: they are submitted and refused, an      *)
(* approval is issued (approval_store.py), the task is resumed with it and *)
(* process_command (command_execution_service.py) carries it to the final  *)
(* boundary, where the run is claimed and the command is routed.           *)
(*                                                                         *)
(* Every request runs on a thread of its own (gateway/simple_server.py) or *)
(* is interleaved with others at an await (gateway/routes_tasks.py); each  *)
(* statement on the task database is one step, so a request acts on rows   *)
(* it read some steps earlier. The bindings an approval is checked for     *)
(* (task, principal, tenant, capability, command, version) stand or fall   *)
(* together here: an approval matches the one task it was issued for.      *)
(***************************************************************************)
EXTENDS Integers, FiniteSets

CONSTANTS
  Threads,     \* threads that serve requests
  Tasks,       \* tasks whose command needs an approval
  Approvals,   \* approval ids that can still be drawn (bounds the issues)
  TTL,         \* lifetime of an approval
  Outcomes,    \* statuses _infer_task_status may give a routed command
  Horizon,     \* last instant of the clock (bounds the behaviours)
  None         \* no task, no approval

ASSUME ApprovalsFinite == IsFiniteSet(Approvals)
ASSUME TimeAssumption == TTL \in Nat \ {0} /\ Horizon \in Nat
ASSUME OutcomesAssumption ==
  Outcomes \subseteq {"completed", "waiting_approval", "blocked", "failed", "cancelled"}
ASSUME NoneAssumption == None \notin Tasks \cup Approvals

VARIABLES
  now,        \* the wall clock
  tasks,      \* status column of table tasks, "absent" before the insert
  approvals,  \* table task_approvals
  req,        \* the request each thread is serving
  runs,       \* how often each task's command was routed (a history)
  abandoned   \* tasks whose request ended with its process (a history)

vars == <<now, tasks, approvals, req, runs, abandoned>>

Time == 0 .. Horizon

Resumable == {"waiting_approval", "blocked", "failed"}

Status == Resumable \cup {"absent", "queued", "running", "completed", "cancelled"}

\* consumed_at and executed_at, which is only ever set on a consumed row.
ApprovalRow == [st: {"none", "issued", "consumed", "executed"},
                task: Tasks \cup {None}, exp: Nat]

\* since: the clock when the thread took the step before this one.
Request == [pc: {"idle", "issue", "consume", "mark", "mark_again", "check",
                 "claim", "route", "conclude", "deny"},
            task: Tasks \cup {None}, approval: Approvals \cup {None}, since: Time]

Idle == [pc |-> "idle", task |-> None, approval |-> None, since |-> 0]

TypeOK ==
  /\ now \in Time
  /\ tasks \in [Tasks -> Status]
  /\ approvals \in [Approvals -> ApprovalRow]
  /\ req \in [Threads -> Request]
  /\ runs \in [Tasks -> Nat]
  /\ abandoned \in SUBSET Tasks

Init ==
  /\ now = 0
  /\ tasks = [t \in Tasks |-> "absent"]
  /\ approvals = [a \in Approvals |-> [st |-> "none", task |-> None, exp |-> 0]]
  /\ req = [c \in Threads |-> Idle]
  /\ runs = [t \in Tasks |-> 0]
  /\ abandoned = {}

-----------------------------------------------------------------------------
\* A request begins, goes on to its next statement, or is answered.
Begin(c, pc, t, a) ==
  /\ req[c] = Idle
  /\ req' = [req EXCEPT ![c] = [pc |-> pc, task |-> t, approval |-> a, since |-> now]]

GoTo(c, pc) == req' = [req EXCEPT ![c] = [@ EXCEPT !.pc = pc, !.since = now]]

Answer(c) == req' = [req EXCEPT ![c] = Idle]

SetStatus(t, status) == tasks' = [tasks EXCEPT ![t] = status]

-----------------------------------------------------------------------------
(* Requests.                                                               *)

\* process_command without a task: the task is created and then run.
Submit(c, t) ==
  /\ tasks[t] = "absent"
  /\ SetStatus(t, "queued")
  /\ Begin(c, "mark", t, None)
  /\ UNCHANGED <<now, approvals, runs, abandoned>>

\* /approve, issue_task_approval: the task is read, the approval issued later.
ApproveRead(c, t) ==
  /\ tasks[t] \in Resumable
  /\ Begin(c, "issue", t, None)
  /\ UNCHANGED <<now, tasks, approvals, runs, abandoned>>

\* Its timestamp was taken before the INSERT, which may have waited for
\* another connection since.
Issue(c) ==
  /\ req[c].pc = "issue"
  /\ \E a \in Approvals, at \in req[c].since .. now :   \* bound: Approvals
       /\ approvals[a].st = "none"
       /\ approvals' = [approvals EXCEPT ![a] =
            [st |-> "issued", task |-> req[c].task, exp |-> at + TTL]]
  /\ Answer(c)
  /\ UNCHANGED <<now, tasks, runs, abandoned>>

\* The caller's credentials are not those of the task: no approval is issued,
\* or process_command answers before it marks the task. (Also what ends a
\* request for an approval when no id is left to draw.)
Refuse(c) ==
  /\ req[c].pc = "issue" \/ (req[c].pc = "mark" /\ req[c].approval # None)
  /\ Answer(c)
  /\ UNCHANGED <<now, tasks, approvals, runs, abandoned>>

\* /resume with the approval id a, of this task or of another.
ResumeRead(c, t, a) ==
  /\ tasks[t] \in Resumable
  /\ Begin(c, "consume", t, a)
  /\ UNCHANGED <<now, tasks, approvals, runs, abandoned>>

\* The command "task resume", which carries no server approval.
ResumeByCommand(c, t) ==
  /\ tasks[t] \in Resumable
  /\ Begin(c, "mark", t, None)
  /\ UNCHANGED <<now, tasks, approvals, runs, abandoned>>

\* finish_task and cancel_task: a blind write, at any moment.
Cancel(c, t) ==
  /\ req[c] = Idle
  /\ tasks[t] # "absent"
  /\ SetStatus(t, "cancelled")
  /\ UNCHANGED <<now, approvals, req, runs, abandoned>>

-----------------------------------------------------------------------------
(* The steps of a request.                                                 *)

\* One conditional UPDATE, which may have waited as well.
Consume(c) ==
  /\ req[c].pc = "consume"
  /\ \E at \in req[c].since .. now, a \in Approvals :
       /\ a = req[c].approval
       /\ IF approvals[a].st = "issued" /\ approvals[a].task = req[c].task
             /\ approvals[a].exp > at
          THEN /\ approvals' = [approvals EXCEPT ![a].st = "consumed"]
               /\ GoTo(c, "mark")
          ELSE Answer(c) /\ UNCHANGED approvals
  /\ UNCHANGED <<now, tasks, runs, abandoned>>

\* _mark_task_running, called before and after the trace run is started.
MarkRunning(c) ==
  /\ req[c].pc \in {"mark", "mark_again"}
  /\ SetStatus(req[c].task, "running")
  /\ GoTo(c, IF req[c].pc = "mark" THEN "mark_again" ELSE "check")
  /\ UNCHANGED <<now, approvals, runs, abandoned>>

\* The validator turns the command down.
Invalid(c) ==
  /\ req[c].pc = "check"
  /\ GoTo(c, "deny")
  /\ UNCHANGED <<now, tasks, approvals, runs, abandoned>>

\* get_consumed_if_valid, which does not look at executed_at.
Redeemed(a, t) ==
  /\ approvals[a].st \in {"consumed", "executed"}
  /\ approvals[a].task = t
  /\ approvals[a].exp > now

\* Slip: a "task resume" counts as granted.
SlipCheckTrustsResume(c) ==
  /\ req[c].pc = "check"
  /\ IF req[c].approval = None THEN GoTo(c, "route")
     ELSE GoTo(c, IF Redeemed(req[c].approval, req[c].task) THEN "claim" ELSE "deny")
  /\ UNCHANGED <<now, tasks, approvals, runs, abandoned>>

\* _has_server_approval, then the read half of claim_execution_if_valid.
CheckApproval(c) ==
  /\ req[c].pc = "check"
  /\ GoTo(c, IF req[c].approval # None /\ Redeemed(req[c].approval, req[c].task)
             THEN "claim" ELSE "deny")
  /\ UNCHANGED <<now, tasks, approvals, runs, abandoned>>

\* Slip: the final boundary checks the approval again but does not claim it.
SlipBoundaryReads(c) ==
  /\ req[c].pc = "claim"
  /\ GoTo(c, IF Redeemed(req[c].approval, req[c].task) THEN "route" ELSE "deny")
  /\ UNCHANGED <<now, tasks, approvals, runs, abandoned>>

\* The conditional UPDATE of claim_execution_if_valid.
ClaimExecution(c) ==
  /\ req[c].pc = "claim"
  /\ \E at \in req[c].since .. now, a \in Approvals :
       /\ a = req[c].approval
       /\ IF approvals[a].st = "consumed" /\ approvals[a].exp > at
          THEN /\ approvals' = [approvals EXCEPT ![a].st = "executed"]
               /\ GoTo(c, "route")
          ELSE GoTo(c, "deny") /\ UNCHANGED approvals
  /\ UNCHANGED <<now, tasks, runs, abandoned>>

\* bot._route starts the command.
Route(c) ==
  /\ req[c].pc = "route"
  /\ runs' = [runs EXCEPT ![req[c].task] = @ + 1]
  /\ GoTo(c, "conclude")
  /\ UNCHANGED <<now, tasks, approvals, abandoned>>

\* Slip: a handler that raised leaves the status to someone else.
SlipConcludeSilently(c) ==
  /\ req[c].pc = "conclude"
  /\ tasks' = tasks \/ SetStatus(req[c].task, "completed")
  /\ Answer(c)
  /\ UNCHANGED <<now, approvals, runs, abandoned>>

\* The command returned or raised; its outcome is written over whatever the
\* status has become.
Conclude(c) ==
  /\ req[c].pc = "conclude"
  /\ \E status \in Outcomes : SetStatus(req[c].task, status)
  /\ Answer(c)
  /\ UNCHANGED <<now, approvals, runs, abandoned>>

\* _validation_failure and _authorization_failure.
Deny(c) ==
  /\ req[c].pc = "deny"
  /\ SetStatus(req[c].task, "failed")
  /\ Answer(c)
  /\ UNCHANGED <<now, approvals, runs, abandoned>>

-----------------------------------------------------------------------------
\* The process ends under a request: nothing resumes it.
ProcessEnds(c) ==
  /\ req[c] # Idle
  /\ Answer(c)
  /\ abandoned' = abandoned \cup {req[c].task}
  /\ UNCHANGED <<now, tasks, approvals, runs>>

Tick ==
  /\ now < Horizon                                  \* bound: Horizon
  /\ now' = now + 1
  /\ UNCHANGED <<tasks, approvals, req, runs, abandoned>>

Serve(c) ==
  \/ Issue(c)
  \/ Refuse(c)
  \/ Consume(c)
  \/ MarkRunning(c)
  \/ Invalid(c)
  \/ CheckApproval(c)
  \/ ClaimExecution(c)
  \/ Route(c)
  \/ Conclude(c)
  \/ Deny(c)

Accept(c) ==
  \E t \in Tasks :
    \/ Submit(c, t)
    \/ ApproveRead(c, t)
    \/ \E a \in Approvals : ResumeRead(c, t, a)
    \/ ResumeByCommand(c, t)
    \/ Cancel(c, t)

Next ==
  \/ \E c \in Threads : Accept(c) \/ Serve(c) \/ ProcessEnds(c)
  \/ Tick

Spec == Init /\ [][Next]_vars

\* A thread goes on serving its request; a routed handler returns or raises.
FairSpec == Spec /\ \A c \in Threads : WF_vars(Serve(c))

-----------------------------------------------------------------------------
(* Properties.                                                             *)

\* The approval a thread has claimed and not yet used.
Holding(c, a) == req[c].pc = "route" /\ req[c].approval = a

StageOf(a) ==
  IF approvals[a].st # "executed" THEN approvals[a].st
  ELSE IF \E c \in Threads : Holding(c, a) THEN "claimed" ELSE "burned"

OneShot == INSTANCE OneShotApproval WITH
  stage <- [a \in Approvals |-> StageOf(a)],
  bound <- [a \in Approvals |-> approvals[a].task]

\* "An approval allows at most one final execution attempt", and a retry needs
\* a new one: every run of a command spends an approval of that very task,
\* which was consumed and claimed before, whatever requests race for it and
\* wherever a process ends in between.
OneShotSpec == OneShot!Spec

\* A task's command never runs more often than approvals issued for it were
\* spent: neither "task resume" nor a request with another task's approval
\* gets a run for nothing.
RunsPaidFor ==
  \A t \in Tasks :
    runs[t] <= Cardinality({a \in Approvals : /\ StageOf(a) = "burned"
                                              /\ approvals[a].task = t})

\* A claimed approval belongs to one thread, for the task it was issued for.
ClaimsExclusive ==
  \A c \in Threads : req[c].pc = "route" =>
    /\ req[c].approval \in Approvals
    /\ approvals[req[c].approval].st = "executed"
    /\ approvals[req[c].approval].task = req[c].task
    /\ \A d \in Threads : Holding(d, req[c].approval) => d = c

\* A task does not stay "running": the request that marked it writes an
\* outcome, unless its process ends first.
RunningSettles ==
  \A t \in Tasks :
    (tasks[t] = "running") ~> (tasks[t] # "running" \/ t \in abandoned)
=============================================================================
