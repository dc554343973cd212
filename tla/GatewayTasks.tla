----------------------------- MODULE GatewayTasks -----------------------------
(***************************************************************************)
(* Tasks as a gateway's callers see and change them (gateway/routes_tasks, *)
(* simple_task_*_handlers, task_support, and the modules that replace the   *)
(* methods of the authorization proxy), over the task store, which knows    *)
(* nothing of callers.  A request looks a task up, is refused or goes on,   *)
(* and calls the store by the task's id.  A child task is inserted without  *)
(* its tenant, which a later statement sets.  Long lists are read in pages. *)
(***************************************************************************)
EXTENDS Naturals, FiniteSets

CONSTANTS
  Threads,
  Callers,   \* [who, org, role], the claims of a verified token
  Default,   \* the tenant a task is inserted with when none is given
  Tasks,
  Page,      \* rows of a page, 200 in the code
  None

VARIABLES
  task,     \* tasks: org_id, principal, parent_task_id
  context,  \* task_security_contexts: the tenant and the principal
  made,     \* created_at, 0 for no row
  request,  \* what each thread is in the middle of
  settled   \* history: the tasks whose creation, and whose parent's, came to its end

vars == <<task, context, made, request, settled>>

Orgs == {c.org : c \in Callers} \cup {Default}
Whos == {c.who : c \in Callers}

Live == {k \in Tasks : task[k] # None}

Idle == [op |-> "idle"]
Operations == {"cancel", "review"}
Creations == {"parent", "child", "save"}

Request ==
  {Idle}
  \cup [op: Operations, caller: Callers, task: Tasks]
  \cup [op: Creations, task: Tasks \cup {None}, parent: Tasks \cup {None}, org: Orgs,
        who: Whos, sound: BOOLEAN]
  \cup [op: {"list", "count"}, caller: Callers, offset: Nat, total: Nat,
        due: SUBSET Tasks,  \* in scope ever since, and on no page so far
        slips: Nat]         \* history, see Slipped
  \cup [op: {"listed"}, due: SUBSET Tasks, slips: Nat]

TypeOK ==
  /\ task \in [Tasks -> [org: Orgs, who: Whos, parent: Tasks \cup {None}] \cup {None}]
  /\ context \in [Tasks -> [org: Orgs, who: Whos] \cup {None}]
  /\ made \in [Tasks -> Nat]
  /\ request \in [Threads -> Request]
  /\ settled \in SUBSET Live

Init ==
  /\ task = [k \in Tasks |-> None]
  /\ context = [k \in Tasks |-> None]
  /\ made = [k \in Tasks |-> 0]
  /\ request = [t \in Threads |-> Idle]
  /\ settled = {}

-----------------------------------------------------------------------------
(* Who may see what.                                                       *)

\* _authorized
Authorized(c, record) ==
  \/ c.role = "system"
  \/ record.org = c.org /\ (c.role = "admin" \/ record.who = c.who)

\* get_task of the proxy
Visible(c, k) == k \in Live /\ Authorized(c, task[k])

Children(k) == {x \in Live : task[x].parent = k}

\* The tasks that can be reached from k by way of children, k among them.
Family(k) ==
  LET Closed(S) == k \in S /\ \A x \in S : Children(x) \subseteq S
  IN  {x \in Tasks : \A S \in SUBSET Tasks : Closed(S) => x \in S}

\* _family_authorized, before a merge is changed
FamilyAuthorized(c, k) == \A x \in Family(k) : Visible(c, x)

\* list_tasks of the proxy: the caller's scope is part of the query.
InScope(c, table) == {k \in Tasks : table[k] # None /\ Authorized(c, table[k])}

\* The place of a row of the scope, ORDER BY created_at DESC
Place(scope, k) == Cardinality({x \in scope : made[x] >= made[k]})

\* What a change of the table costs the lists being read: a row that leaves the
\* scope, or that enters between the count and the page, moves the rows after it.
Slipped(new) ==
  [t \in Threads |->
     LET r == request[t] IN
     IF r.op \notin {"list", "count"} THEN r
     ELSE LET old == InScope(r.caller, task)
              now == InScope(r.caller, new)
          IN [r EXCEPT !.due = @ \cap now,
                       !.slips = @ + Cardinality(old \ now)
                                   + (IF r.op = "count" THEN Cardinality(now \ old) ELSE 0)]]

-----------------------------------------------------------------------------
(* Creation.                                                               *)

\* create_task: a row later than all others
Inserted(k, row) ==
  /\ task' = [task EXCEPT ![k] = row]
  /\ made' = [made EXCEPT ![k] = Cardinality(Live) + 1]

\* create_task_context: the row has its tenant from the start.
CreateTask(t, c, k) ==
  /\ request[t] = Idle /\ k \notin Live
  /\ Inserted(k, [org |-> c.org, who |-> c.who, parent |-> None])
  /\ settled' = settled \cup {k}
  /\ request' = [Slipped(task') EXCEPT ![t] =
       [op |-> "save", task |-> k, parent |-> None, org |-> c.org, who |-> c.who, sound |-> TRUE]]
  /\ UNCHANGED context

\* Mutant: the child is of the tenant of whoever asks for it.
AskChildMine(t, c, p) ==
  /\ request[t] = Idle /\ Visible(c, p)
  /\ request' = [request EXCEPT ![t] =
       [op |-> "parent", task |-> None, parent |-> p, org |-> c.org, who |-> c.who,
        sound |-> p \in settled]]
  /\ UNCHANGED <<task, context, made, settled>>

\* The child will be of its parent's tenant and principal, whoever asks for it.
AskChild(t, c, p) ==
  /\ request[t] = Idle /\ Visible(c, p)
  /\ LET source == IF context[p] # None THEN context[p] ELSE task[p]
     IN request' = [request EXCEPT ![t] =
          [op |-> "parent", task |-> None, parent |-> p, org |-> source.org,
           who |-> source.who, sound |-> p \in settled]]
  /\ UNCHANGED <<task, context, made, settled>>

\* _create_worker_child_task, which knows no tenant
InsertChild(t, k) ==
  LET r == request[t] IN
  /\ r.op = "parent" /\ k \notin Live
  /\ Inserted(k, [org |-> Default, who |-> r.who, parent |-> r.parent])
  /\ request' = [Slipped(task') EXCEPT ![t].op = "child", ![t].task = k]
  /\ UNCHANGED <<context, settled>>

\* update_task(child.task_id, org_id=effective_org)
AdoptChild(t) ==
  /\ request[t].op = "child"
  /\ task' = [task EXCEPT ![request[t].task].org = request[t].org]
  /\ request' = [Slipped(task') EXCEPT ![t].op = "save"]
  /\ UNCHANGED <<context, made, settled>>

\* security_store.save
SaveContext(t) ==
  LET r == request[t] IN
  /\ r.op = "save"
  /\ context' = [context EXCEPT ![r.task] = [org |-> r.org, who |-> r.who]]
  /\ settled' = IF r.sound THEN settled \cup {r.task} ELSE settled
  /\ request' = [request EXCEPT ![t] = Idle]
  /\ UNCHANGED <<task, made>>

-----------------------------------------------------------------------------
(* Requests about one task: a handler looks it up through the proxy; what   *)
(* follows is by its id.                                                    *)

Begin(t, c, k, op) ==
  /\ request[t] = Idle /\ Visible(c, k)
  /\ request' = [request EXCEPT ![t] = [op |-> op, caller |-> c, task |-> k]]
  /\ UNCHANGED <<task, context, made, settled>>

AskCancel(t, c, k) == Begin(t, c, k, "cancel")
AskReview(t, c, k) == Begin(t, c, k, "review")

\* The store's finish_task, and the settling of a merge, write the principal.
Written(t) ==
  /\ task' = [task EXCEPT ![request[t].task].who = request[t].caller.who]
  /\ request' = [Slipped(task') EXCEPT ![t] = Idle]
  /\ UNCHANGED <<context, made, settled>>

\* cancel of the boundary looks again.
Cancel(t) ==
  /\ request[t].op = "cancel" /\ Visible(request[t].caller, request[t].task)
  /\ Written(t)

\* apply_task_merge_review_action, guarded by the family
Review(t) ==
  /\ request[t].op = "review" /\ FamilyAuthorized(request[t].caller, request[t].task)
  /\ Written(t)

-----------------------------------------------------------------------------
(* collect_task_records                                                    *)

List(t, c) ==
  /\ request[t] = Idle
  /\ request' = [request EXCEPT ![t] =
       [op |-> "list", caller |-> c, offset |-> 0, total |-> 0,
        due |-> InScope(c, task), slips |-> 0]]
  /\ UNCHANGED <<task, context, made, settled>>

\* SELECT COUNT(*)
CountRows(t) ==
  /\ request[t].op = "list"
  /\ request' = [request EXCEPT ![t].op = "count",
                                ![t].total = Cardinality(InScope(request[t].caller, task))]
  /\ UNCHANGED <<task, context, made, settled>>

\* Mutant: the last page is given up.
ReadPageShort(t) ==
  LET r == request[t]
      scope == InScope(r.caller, task)
      batch == {k \in scope : Place(scope, k) \in r.offset + 1 .. r.offset + Page}
      offset == r.offset + Cardinality(batch)
      due == r.due \ batch
  IN /\ r.op = "count"
     /\ request' = [request EXCEPT ![t] =
          IF batch = {} \/ offset + Page >= r.total
          THEN [op |-> "listed", due |-> due, slips |-> r.slips]
          ELSE [r EXCEPT !.op = "list", !.due = due, !.offset = offset]]
     /\ UNCHANGED <<task, context, made, settled>>

\* SELECT * ... LIMIT ? OFFSET ?, until a page is empty or the total is reached
ReadPage(t) ==
  LET r == request[t]
      scope == InScope(r.caller, task)
      batch == {k \in scope : Place(scope, k) \in r.offset + 1 .. r.offset + Page}
      offset == r.offset + Cardinality(batch)
      due == r.due \ batch
  IN /\ r.op = "count"
     /\ request' = [request EXCEPT ![t] =
          IF batch = {} \/ offset >= r.total
          THEN [op |-> "listed", due |-> due, slips |-> r.slips]
          ELSE [r EXCEPT !.op = "list", !.due = due, !.offset = offset]]
     /\ UNCHANGED <<task, context, made, settled>>

-----------------------------------------------------------------------------

\* The list is sent, or the request has been refused, or its process ended.
Leave(t) ==
  /\ request[t] # Idle
  /\ request' = [request EXCEPT ![t] = Idle]
  /\ UNCHANGED <<task, context, made, settled>>

Next ==
  \E t \in Threads :
    \/ \E c \in Callers :
         \/ List(t, c)
         \/ \E k \in Tasks :
              \/ CreateTask(t, c, k)
              \/ AskChild(t, c, k)
              \/ AskCancel(t, c, k) \/ AskReview(t, c, k)
    \/ \E k \in Tasks : InsertChild(t, k)
    \/ AdoptChild(t) \/ SaveContext(t)
    \/ Cancel(t) \/ Review(t)
    \/ CountRows(t) \/ ReadPage(t)
    \/ Leave(t)

Spec == Init /\ [][Next]_vars

-----------------------------------------------------------------------------

\* A child is of the tenant of its parent, in the row and in its context, even
\* if a caller of another tenant asked for it, although three statements make
\* it and others may see, cancel and review it in between: unless a process
\* ended among the three, or the child's parent was itself such a child.
ChildrenInTenant ==
  \A k \in settled : task[k].parent # None =>
    /\ task[k].parent \in settled
    /\ task[k].org = task[task[k].parent].org
    /\ task[k].org = context[k].org

\* A list read in pages, while tasks are created, adopted and handed over, lacks
\* no task that was in the caller's scope throughout, but for one for each that
\* left the scope meanwhile or was counted too late.
ListsComplete ==
  \A t \in Threads : request[t].op = "listed" =>
    Cardinality(request[t].due) <= request[t].slips
=============================================================================
