------------------------------ MODULE McpServer ------------------------------
(***************************************************************************)
(* The MCP servers (botboy_mcp_server.py): one on standard input, which is  *)
(* its user's own, and others over HTTP, each for the principal and tenant  *)
(* it is configured with.  They are processes of their own that share the   *)
(* databases of one state directory, and each serves one call at a time.  A *)
(* call that is refused, and a calculation on standard input, change        *)
(* nothing and are left out.                                                *)
(***************************************************************************)
EXTENDS Naturals, FiniteSets

CONSTANTS
  Servers,
  Scope,    \* of each server its principal and tenant, None on standard input
  Rows,     \* bound on the memories ever stored
  None

Scopes == {Scope[s] : s \in Servers} \ {None}
Remote == {s \in Servers : Scope[s] # None}
Local == Servers \ Remote

VARIABLES
  memories,  \* of each row the scope in its metadata, and which server stored it
  next,      \* the next id
  history,   \* whose commands the history has rows of
  jobs,      \* whether the schedule holds a job
  call       \* what each server is in the middle of

vars == <<memories, next, history, jobs, call>>

Ids == 1 .. Rows

Memory == [scope: Scopes \cup {None}, by: Servers]
Owners == Scopes \cup {"mcp", "anonymous"}

Idle == [pc |-> "idle"]

Call == {Idle}
        \cup [pc: {"delete"}, ids: SUBSET Ids]
        \cup [pc: {"shown"}, rows: SUBSET Ids, owners: SUBSET Owners]

TypeOK ==
  /\ memories \in [Ids -> Memory \cup {None}]
  /\ next \in 1 .. Rows + 1
  /\ history \in SUBSET Owners
  /\ jobs \in BOOLEAN
  /\ call \in [Servers -> Call]

Init ==
  /\ memories = [i \in Ids |-> None] /\ next = 1
  /\ history = {} /\ jobs = FALSE
  /\ call = [s \in Servers |-> Idle]

-----------------------------------------------------------------------------
\* The tools with an effect, or an answer, that is not of the call alone.
Tools == {"calculate", "memory_store", "memory_search", "memory_list", "memory_delete", "memory_stats",
          "execute", "status", "schedule_add", "schedule_list", "history", "history_stats"}

\* _HTTP_TOOLS
HttpTools == {"calculate", "memory_store", "memory_search", "memory_list", "memory_stats",
              "execute", "status", "history", "history_stats"}

\* The contracts of the bridge that need an approval: a true argument suffices.
NeedApproval == {"memory_delete", "execute", "schedule_add"}

\* _handle_tool_impl, until a tool is reached.
Admitted(s, tool, approval) ==
  /\ call[s] = Idle
  /\ tool \in Tools
  /\ s \in Remote => tool \in HttpTools
  /\ tool \in NeedApproval => approval

\* A slip for TLC: the scope in the metadata prevails.
SlipTagged(s, scope) == IF s \in Remote /\ scope = None THEN Scope[s] ELSE scope

\* What the metadata a caller sends is stored with: over HTTP its own scope is
\* written over whatever it names.
Tagged(s, scope) == IF s \in Remote THEN Scope[s] ELSE scope

\* The rows in a server's scope.
InScope(s) ==
  {i \in Ids : memories[i] # None /\ (s \in Remote => memories[i].scope = Scope[s])}

\* Whose history it is shown.
Recorded(s) == IF s \in Remote THEN history \cap {Scope[s]} ELSE history

Shown(rows, owners) == [pc |-> "shown", rows |-> rows, owners |-> owners]

Inserted(row) ==
  /\ next =< Rows
  /\ memories' = [memories EXCEPT ![next] = row]
  /\ next' = next + 1

-----------------------------------------------------------------------------
MemoryStore(s, scope) ==
  /\ Admitted(s, "memory_store", FALSE)
  /\ Inserted([scope |-> Tagged(s, scope), by |-> s])
  /\ UNCHANGED <<history, jobs, call>>

\* A search shows as many as asked for of the matches, a list shows a page; the
\* list's total and the statistics are counts of the same rows.
MemoryRead(s) ==
  /\ \E tool \in {"memory_search", "memory_list", "memory_stats"} : Admitted(s, tool, FALSE)
  /\ \E found \in SUBSET InScope(s) : call' = [call EXCEPT ![s] = Shown(found, {})]
  /\ UNCHANGED <<memories, next, history, jobs>>

\* What a query matches, up to ten rows, is deleted row by row.
MemoryDelete(s) ==
  /\ \E approval \in BOOLEAN : Admitted(s, "memory_delete", approval)
  /\ \E matches \in (SUBSET InScope(s)) \ {{}} :
       call' = [call EXCEPT ![s] = [pc |-> "delete", ids |-> matches]]
  /\ UNCHANGED <<memories, next, history, jobs>>

DeleteOne(s, id) ==
  /\ call[s].pc = "delete" /\ id \in call[s].ids
  /\ memories' = [memories EXCEPT ![id] = None]
  /\ call' = [call EXCEPT ![s] = IF @.ids = {id} THEN Idle ELSE [@ EXCEPT !.ids = call[s].ids \ {id}]]
  /\ UNCHANGED <<next, history, jobs>>

\* Over HTTP a command, also a calculation, runs as the server's principal, without
\* a grant, and may not be one that reaches the stores; on standard input it runs
\* as "mcp", or as nobody for the status, and may for example remember something.
Execute(s) ==
  /\ \/ \E approval \in BOOLEAN : Admitted(s, "execute", approval)
     \/ s \in Remote /\ Admitted(s, "calculate", FALSE)
  /\ history' = history \cup {IF s \in Remote THEN Scope[s] ELSE "mcp"}
  /\ \/ UNCHANGED <<memories, next>>
     \/ s \in Local /\ Inserted([scope |-> None, by |-> s])
  /\ UNCHANGED <<jobs, call>>

Status(s) ==
  /\ Admitted(s, "status", FALSE)
  /\ history' = history \cup {IF s \in Remote THEN Scope[s] ELSE "anonymous"}
  /\ UNCHANGED <<memories, next, jobs, call>>

ScheduleAdd(s) ==
  /\ \E approval \in BOOLEAN : Admitted(s, "schedule_add", approval)
  /\ jobs' = TRUE
  /\ UNCHANGED <<memories, next, history, call>>

\* History and its statistics.
History(s) ==
  /\ \E tool \in {"history", "history_stats"} : Admitted(s, tool, FALSE)
  /\ call' = [call EXCEPT ![s] = Shown({}, Recorded(s))]
  /\ UNCHANGED <<memories, next, history, jobs>>

\* The response is sent.
Respond(s) ==
  /\ call[s].pc = "shown"
  /\ call' = [call EXCEPT ![s] = Idle]
  /\ UNCHANGED <<memories, next, history, jobs>>

Next ==
  \E s \in Servers :
    \/ \E scope \in Scopes \cup {None} : MemoryStore(s, scope)
    \/ \E id \in Ids : DeleteOne(s, id)
    \/ MemoryRead(s) \/ MemoryDelete(s) \/ Execute(s) \/ Status(s) \/ ScheduleAdd(s) \/ History(s) \/ Respond(s)

Spec == Init /\ [][Next]_vars

-----------------------------------------------------------------------------
(* Properties. *)

\* What a server over HTTP shows was stored by one of the same principal and
\* tenant, or by the local user, who may store for anyone, whatever scope callers
\* put in their metadata; and its history is its own (_handle_tool_impl).
ShownInScope ==
  \A s \in Remote : call[s].pc = "shown" =>
    /\ call[s].owners \subseteq {Scope[s]}
    /\ \A i \in call[s].rows : memories[i] # None =>
         memories[i].by \in Local \/ Scope[memories[i].by] = Scope[s]
=============================================================================
