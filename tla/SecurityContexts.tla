-------------------------- MODULE SecurityContexts --------------------------
(* TaskSecurityStore (botboy/task_security.py): the table task_security_contexts,
   which holds the authority a task runs with, and the requests that save to it.
   save reads the row and validates the new context against it in autocommit mode,
   and writes in a later transaction, on the condition that the row still is what
   was read.  Any number of threads and processes do so at once. *)
EXTENDS Naturals

CONSTANTS
  Threads,      \* connections to the task database
  Tasks,
  Principals,   \* an owner: principal_id and org_id, which are compared alike
  Credentials,  \* credential_source with credential_version, compared as a pair
  Privileges,   \* tagged members of roles, scopes, capabilities, approval_scope
  Approvals,    \* approval_id
  MaxVersion,   \* bound on authorization_version
  Unbound,      \* the empty string in a credential or an approval
  Absent        \* no row

ASSUME VersionAssumption == MaxVersion \in Nat

VARIABLES
  contexts,     \* the row of each task, or Absent
  req           \* what each thread is in the middle of

vars == <<contexts, req>>

\* A SecurityContext as it is persisted.  The four sets of privileges go through
\* the same inclusion test and are one set here.
Context ==
  [owner: Principals, credential: Credentials \cup {Unbound},
   privileges: SUBSET Privileges, version: 0 .. MaxVersion,
   approval: Approvals \cup {Unbound}]

Row == Context \cup {Absent}

Idle == [pc |-> "idle"]

\* A save between its validation and its write: the row it read, the new one.
Saving == [pc: {"saving"}, task: Tasks, read: Row, new: Context]

ASSUME AbsentAssumption == Absent \notin Context

Init ==
  /\ contexts = [t \in Tasks |-> Absent]
  /\ req = [c \in Threads |-> Idle]

\* _validate_transition
Continues(previous, current) ==
  /\ previous.owner = current.owner
  /\ previous.credential # Unbound => previous.credential = current.credential
  /\ current.privileges \subseteq previous.privileges
  /\ previous.version =< current.version
  /\ previous.approval # Unbound => previous.approval = current.approval

\* A mutation of SaveWrite: the blind upsert that the compare-and-swap replaced.
SlipBlindUpsert(c) ==
  /\ req[c].pc = "saving"
  /\ contexts' = [contexts EXCEPT ![req[c].task] = req[c].new]
  /\ req' = [req EXCEPT ![c] = Idle]

\* save up to its write; it raises, and changes nothing, when the validation fails.
\* new is whatever the caller built: the baseline of a created task, a child's
\* copy of its parent's context, a row loaded earlier and saved again.
SaveRead(c, t) ==
  /\ req[c] = Idle
  /\ \E new \in Context :
       /\ contexts[t] # Absent => Continues(contexts[t], new)
       /\ req' = [req EXCEPT ![c] =
                    [pc |-> "saving", task |-> t, read |-> contexts[t], new |-> new]]
  /\ UNCHANGED contexts

\* UPDATE ... WHERE security_context_json = <what was read>, and
\* INSERT ... ON CONFLICT DO NOTHING where nothing was
SaveWrite(c) ==
  /\ req[c].pc = "saving"
  /\ contexts[req[c].task] = req[c].read
  /\ contexts' = [contexts EXCEPT ![req[c].task] = req[c].new]
  /\ req' = [req EXCEPT ![c] = Idle]

\* rowcount is 0: the save raises
SaveConflict(c) ==
  /\ req[c].pc = "saving"
  /\ contexts[req[c].task] # req[c].read
  /\ req' = [req EXCEPT ![c] = Idle]
  /\ UNCHANGED contexts

Delete(c, t) ==
  /\ req[c] = Idle
  /\ contexts' = [contexts EXCEPT ![t] = Absent]
  /\ UNCHANGED req

\* The process of a thread ends before its write.
ProcessEnds(c) ==
  /\ req[c].pc = "saving"
  /\ req' = [req EXCEPT ![c] = Idle]
  /\ UNCHANGED contexts

Next ==
  \E c \in Threads :
    \/ \E t \in Tasks : SaveRead(c, t) \/ Delete(c, t)
    \/ SaveWrite(c)
    \/ SaveConflict(c)
    \/ ProcessEnds(c)

Spec == Init /\ [][Next]_vars

-----------------------------------------------------------------------------
\* Every stored context is a complete one, and a request remembers a row and the
\* context to replace it.
TypeOK ==
  /\ contexts \in [Tasks -> Row]
  /\ req \in [Threads -> {Idle} \cup Saving]

\* Whatever is in flight was validated against the row it will be compared with:
\* the inductive part of AuthorityOnlyShrinks.
Validated ==
  \A c \in Threads :
    req[c].pc = "saving" /\ req[c].read # Absent => Continues(req[c].read, req[c].new)

\* What a task may do at most: no wider, no older, bound to the same owner and to
\* the credential and the approval it was bound to.
Within(old, new) ==
  /\ new.owner = old.owner
  /\ new.credential \in {old.credential} \cup
       (IF old.credential = Unbound THEN Credentials ELSE {})
  /\ new.privileges \ old.privileges = {}
  /\ new.version \in old.version .. MaxVersion
  /\ new.approval \in {old.approval} \cup
       (IF old.approval = Unbound THEN Approvals ELSE {})

\* While a task has a context, no step widens it or rebinds it, however the saves
\* of several threads interleave: two concurrent reductions do not restore what
\* the other removed, and of two first contexts the first one stays (save).
AuthorityOnlyShrinks ==
  [][\A t \in Tasks :
       contexts[t] # Absent /\ contexts'[t] # Absent => Within(contexts[t], contexts'[t])]_vars

=============================================================================
