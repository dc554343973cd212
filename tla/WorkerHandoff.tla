--------------------------- MODULE WorkerHandoff ---------------------------
(***************************************************************************)
(* A task that hands work to workers (worker_handoff_service.py): it       *)
(* creates a child task for each, waits for them, and merges what they     *)
(* return into its own result.                                             *)
(*                                                                         *)
(* A session is a command in progress: the task's own "handoff" or         *)
(* "handoff batch", a "task resume" of a child (async_command_support.py), *)
(* or a resume of a child by the gateway, which leaves the parent alone.   *)
(* The gateway's threads and the command line's processes share the store, *)
(* so every read and every write of it is a step, and a session can end at *)
(* any step. Of a result the model keeps the children whose results are    *)
(* merged in it, and whether the merge is the result itself or, once the   *)
(* command's own outcome is stored over it, nested in that.                *)
(***************************************************************************)
EXTENDS MergeOrder

CONSTANTS
  Sessions,
  Pool,      \* number of children that are created at most
  Batch,     \* number of workers a batch names
  None

Children == 1 .. Pool

Resumable == {"waiting_approval", "blocked", "failed"}
Active == {"queued", "running", "waiting_approval", "blocked"}
\* A child that a policy blocks is resumed and waited for as one that waits for
\* an approval.
Outcomes == {"completed", "failed", "waiting_approval"}
Statuses == Active \cup Outcomes \cup {"cancelled"}

\* What the parent's record says.
VARIABLES
  status,      \* tasks.status
  delegation,  \* delegation_status
  waits,       \* blocked_by_task_id
  merges,      \* result.child_merges, the children in the order of their merges
  nested       \* the merge is under result.data.merge

VARIABLES
  child,       \* the children's statuses
  session      \* what each session has left to do, and what it read

parent == <<status, delegation, waits, merges, nested>>
vars == <<parent, child, session>>

Kinds == {"handoff", "batch", "resume", "gateway"}
Points == {"idle", "spawn", "run", "work", "read", "sync", "list", "write", "end", "store"}

Session == [pc: Points, kind: Kinds, todo: Seq(Children),
            seen: Statuses \cup {None},      \* a status it read
            prior: Seq(Children),            \* the merges it read
            active: SUBSET Children]         \* the active siblings it read

Idle == [pc |-> "idle", kind |-> "resume", todo |-> <<>>, seen |-> None,
         prior |-> <<>>, active |-> {}]

Created == {c \in Children : child[c] # None}

TypeOK ==
  /\ status \in Statuses
  /\ delegation \in {"none", "blocked_on_child", "awaiting_merge"}
  /\ waits \in Children \cup {None}
  /\ merges \in Seq(Children)
  /\ nested \in BOOLEAN
  /\ child \in [Children -> Statuses \cup {None}]
  /\ session \in [Sessions -> Session]

Init ==
  /\ status = "queued"
  /\ delegation = "none"
  /\ waits = None
  /\ merges = <<>>
  /\ nested = FALSE
  /\ child = [c \in Children |-> None]
  /\ session = [s \in Sessions |-> Idle]

-----------------------------------------------------------------------------
(* The parent's command.                                                   *)

Size(kind) == IF kind = "batch" THEN Batch ELSE 1

\* The parent is first run, or resumed while it waits.
Start(s) ==
  /\ session[s].pc = "idle"
  /\ status \in Resumable \cup {"queued"}
  /\ \E kind \in {"handoff", "batch"} :
       /\ \A c \in Children : c > Pool - Size(kind) => child[c] = None
       /\ session' = [session EXCEPT ![s] = [Idle EXCEPT !.pc = "spawn", !.kind = kind]]
  /\ status' = "running"
  /\ UNCHANGED <<delegation, waits, merges, nested, child>>

\* _create_worker_child_task: the next child, queued and leased to its worker.
Spawn(s) ==
  /\ session[s].pc = "spawn"
  /\ Len(session[s].todo) < Size(session[s].kind)
  /\ \E c \in Children \ Created :
       /\ \A d \in Children \ Created : c <= d
       /\ child' = [child EXCEPT ![c] = "queued"]
       /\ session' = [session EXCEPT ![s].todo = Append(@, c)]
  /\ UNCHANGED parent

\* The next worker is unknown: the children created so far stay behind.
SpawnFails(s) ==
  /\ session[s].pc = "spawn"
  /\ Len(session[s].todo) < Size(session[s].kind)
  /\ session' = [session EXCEPT ![s] = [Idle EXCEPT !.pc = "store", !.seen = "failed"]]
  /\ UNCHANGED <<parent, child>>

\* The parent waits for the first of them.
Wait(s) ==
  /\ session[s].pc = "spawn"
  /\ Len(session[s].todo) = Size(session[s].kind)
  /\ session' = [session EXCEPT ![s].pc = "run"]
  /\ status' = "running"
  /\ delegation' = "blocked_on_child"
  /\ waits' = Head(session[s].todo)
  /\ UNCHANGED <<merges, nested, child>>

\* _infer_task_status: a parent that another session set running counts as failed.
Inferred == IF status \in {"queued", "running"} THEN "failed" ELSE status

\* What the command returns: of a batch, the parent's status and result; of a
\* single handoff, those only if its child completed. A merge that is nested
\* already is not found again.
End(s) ==
  LET own == session[s].kind = "handoff"
      good == own => session[s].seen = "completed"
  IN
  /\ session[s].pc = "end"
  /\ session' = [session EXCEPT ![s] =
       [Idle EXCEPT !.pc = "store",
                    !.seen = IF own THEN IF good THEN "completed" ELSE "blocked" ELSE Inferred,
                    !.prior = IF good /\ ~nested THEN merges ELSE <<>>]]
  /\ UNCHANGED <<parent, child>>

\* process_command stores the command's outcome as the parent's result.
Store(s) ==
  /\ session[s].pc = "store"
  /\ status' = session[s].seen
  /\ merges' = session[s].prior
  /\ nested' = TRUE
  /\ session' = [session EXCEPT ![s] = Idle]
  /\ UNCHANGED <<delegation, waits, child>>

-----------------------------------------------------------------------------
(* A child's execution, by its parent's command or by a resume of its own.  *)

\* "task resume" (which then synchronises the parent) and the gateway's.
Resume(s, c) ==
  /\ session[s].pc = "idle"
  /\ child[c] \in Resumable
  /\ \E kind \in {"resume", "gateway"} :
       session' = [session EXCEPT ![s] = [Idle EXCEPT !.pc = "run", !.kind = kind, !.todo = <<c>>]]
  /\ UNCHANGED <<parent, child>>

Begin(s) ==
  /\ session[s].pc = "run"
  /\ child' = [child EXCEPT ![Head(session[s].todo)] = "running"]
  /\ session' = [session EXCEPT ![s].pc = "work"]
  /\ UNCHANGED parent

\* process_command stores the outcome, whatever became of the child meanwhile.
Finish(s) ==
  LET c == Head(session[s].todo) IN
  /\ session[s].pc = "work"
  /\ \E o \in Outcomes : child' = [child EXCEPT ![c] = o]
  /\ session' = [session EXCEPT ![s] = IF @.kind = "gateway" THEN Idle ELSE [@ EXCEPT !.pc = "read"]]
  /\ UNCHANGED parent

\* The child's record is read again.
Reread(s) ==
  /\ session[s].pc = "read"
  /\ session' = [session EXCEPT ![s].pc = "sync", ![s].seen = child[Head(session[s].todo)]]
  /\ UNCHANGED <<parent, child>>

-----------------------------------------------------------------------------
(* _sync_parent_after_child.                                               *)

\* The session after a child: the next child, or the command's end.
Then(s) ==
  session' = [session EXCEPT ![s] =
    CASE @.kind = "resume" -> Idle
      [] @.kind = "batch" /\ Len(@.todo) > 1 ->
           [Idle EXCEPT !.pc = "run", !.kind = "batch", !.todo = Tail(session[s].todo)]
      [] OTHER -> [@ EXCEPT !.pc = "end", !.prior = <<>>, !.active = {}]]

\* A child that did not complete blocks its parent.
SyncBlock(s) ==
  /\ session[s].pc = "sync"
  /\ session[s].seen # "completed"
  /\ status' = "blocked"
  /\ delegation' = "blocked_on_child"
  /\ waits' = Head(session[s].todo)
  /\ Then(s)
  /\ UNCHANGED <<merges, nested, child>>

\* The parent's record is read, of its result only a merge that is not nested.
SyncRead(s) ==
  /\ session[s].pc = "sync"
  /\ session[s].seen = "completed"
  /\ session' = [session EXCEPT ![s].pc = "list", ![s].prior = IF nested THEN <<>> ELSE merges]
  /\ UNCHANGED <<parent, child>>

\* The children are listed, for those that are still active.
SyncList(s) ==
  /\ session[s].pc = "list"
  /\ session' = [session EXCEPT ![s].pc = "write",
       ![s].active = {c \in Children \ {Head(session[s].todo)} : child[c] \in Active}]
  /\ UNCHANGED <<parent, child>>

\* The child's result takes its place at the end of the merges that were read,
\* and the parent completes if no other child was active.
\* Slip: an earlier result of the child is not taken out.
SlipAppend(s) ==
  LET c == Head(session[s].todo)
      active == session[s].active
  IN
  /\ session[s].pc = "write"
  /\ merges' = Append(session[s].prior, c)
  /\ nested' = FALSE
  /\ IF active = {}
     THEN status' = "completed" /\ delegation' = "awaiting_merge" /\ waits' = None
     ELSE status' = "blocked" /\ delegation' = "blocked_on_child" /\ waits' \in active
  /\ Then(s)
  /\ UNCHANGED <<child>>

SyncWrite(s) ==
  LET c == Head(session[s].todo)
      active == session[s].active
  IN
  /\ session[s].pc = "write"
  /\ merges' = Append(Without(session[s].prior, c), c)
  /\ nested' = FALSE
  /\ IF active = {}
     THEN status' = "completed" /\ delegation' = "awaiting_merge" /\ waits' = None
     ELSE status' = "blocked" /\ delegation' = "blocked_on_child" /\ waits' \in active
  /\ Then(s)
  /\ UNCHANGED <<child>>

-----------------------------------------------------------------------------
(* What else happens to the parent and its children.                       *)

\* "task cancel", in whatever status.
CancelChild(c) ==
  /\ child[c] # None
  /\ child' = [child EXCEPT ![c] = "cancelled"]
  /\ UNCHANGED <<parent, session>>

CancelParent ==
  /\ status' = "cancelled"
  /\ UNCHANGED <<delegation, waits, merges, nested, child, session>>

\* The process of a session ends.
Crash(s) ==
  /\ session[s].pc # "idle"
  /\ session' = [session EXCEPT ![s] = Idle]
  /\ UNCHANGED <<parent, child>>

Step(s) ==
  \/ Start(s) \/ Spawn(s) \/ SpawnFails(s) \/ Wait(s) \/ End(s) \/ Store(s)
  \/ \E c \in Children : Resume(s, c)
  \/ Begin(s) \/ Finish(s) \/ Reread(s)
  \/ SyncBlock(s) \/ SyncRead(s) \/ SyncList(s) \/ SyncWrite(s)
  \/ Crash(s)

Next ==
  \/ \E s \in Sessions : Step(s)
  \/ \E c \in Children : CancelChild(c)
  \/ CancelParent

Spec == Init /\ [][Next]_vars

-----------------------------------------------------------------------------
(* Properties.                                                             *)

\* No child's result is merged twice, although a child may be resumed by two
\* sessions at once, each of which merges it.
MergedOnce == IsInjective(merges)

\* "multi_child_sequential_accumulator": when a child is merged, the results
\* of the children that were merged before it stay.
MergesAccumulate ==
  [][\A s \in Sessions :
       (session[s].pc = "write" /\ session'[s].pc \in {"idle", "run", "end"} /\ merges' # merges)
         => Range(merges) \subseteq Range(merges')]_vars
=============================================================================
