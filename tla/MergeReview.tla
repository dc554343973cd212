---------------------------- MODULE MergeReview ----------------------------
(***************************************************************************)
(* What operators decide about a merge (task_merge_service.py, reached by  *)
(* "task merge ..." and by the gateway's merge actions): the policy and    *)
(* the overrides are kept in the task's payload, the merge report that     *)
(* follows from them in its result. An operation reads the record, writes  *)
(* the payload, reads the record again and writes the result; others may   *)
(* come in between, and so may the merge of another child, which writes    *)
(* the result too. A session is one operation at a time.                   *)
(***************************************************************************)
EXTENDS Naturals, FiniteSets

CONSTANTS
  Sessions,
  Keys,        \* keys of the children's results
  Kids,        \* the children, or their workers: what an override can name
  Returns(_),  \* the keys a child returns; no two children return equal values
  Policies,
  None

VARIABLES
  payload,   \* merge_resolution_policy and merge_resolution_overrides
  merged,    \* result.child_merges
  report,    \* the decisions the result was computed from
  session,
  ever       \* history: the children that were merged at some time

vars == <<payload, merged, report, session, ever>>

Decision == [policy: Policies, overrides: [Keys -> Kids \cup {None}]]

Session == [pc: {"idle", "check", "write", "refresh", "report"},
            items: [Keys -> Kids \cup {None}],  \* the overrides that are asked for
            next: Decision,                     \* what it is going to write, if anything
            refresh: BOOLEAN,                   \* it goes on to refresh the report
            found: SUBSET Kids,                 \* the merges it read
            alone: BOOLEAN]                     \* history: nobody wrote since it began

NoItems == [k \in Keys |-> None]

Start(s, pc, items, next, refresh, found) ==
  session' = [session EXCEPT ![s] =
    [pc |-> pc, items |-> items, next |-> next, refresh |-> refresh, found |-> found,
     alone |-> TRUE]]

\* normalize_merge_resolution_policy: last_child_wins when there is none.
Default == CHOOSE p \in Policies : TRUE

Nothing == [policy |-> Default, overrides |-> NoItems]

Idle == [pc |-> "idle", items |-> NoItems, next |-> Nothing, refresh |-> FALSE, found |-> {},
         alone |-> TRUE]

TypeOK ==
  /\ payload \in Decision
  /\ merged \in SUBSET Kids
  /\ report \in Decision
  /\ session \in [Sessions -> Session]
  /\ ever \in SUBSET Kids

Init ==
  /\ payload = Nothing
  /\ merged = {}
  /\ report = payload
  /\ session = [s \in Sessions |-> Idle]
  /\ ever = {}

-----------------------------------------------------------------------------
(* The report, as the services read it.                                    *)

KnownKeys == UNION {Returns(c) : c \in merged}

Conflicts == {k \in Keys : Cardinality({c \in merged : k \in Returns(c)}) > 1}

\* review_pending_keys: conflicts in which the override names no side.
Pending == {k \in Conflicts : \A c \in merged : k \in Returns(c) => report.overrides[k] # c}

Begins(s) == session[s].pc = "idle" /\ UNCHANGED <<payload, merged, report, ever>>

\* set_policy. A batch of the task itself writes the payload in the same way,
\* with the policy of its command, and so does a preset, which then refreshes.
SetPolicy(s) ==
  /\ Begins(s)
  /\ \E p \in Policies, refresh \in BOOLEAN :
       Start(s, "write", NoItems, [payload EXCEPT !.policy = p], refresh, {})

\* resolve and resolve_many: any keys and sources.
Ask(s) ==
  /\ Begins(s)
  /\ \E items \in [Keys -> Kids \cup {None}] :
       Start(s, "check", items, Nothing, TRUE, {})

\* resolve_all_by_source and the presets for a worker: the pending keys, or all
\* that are known if none is.
ResolveAll(s) ==
  /\ Begins(s)
  /\ merged # {}
  /\ \E c \in Kids :
       LET keys == IF Pending # {} THEN Pending ELSE KnownKeys
       IN  Start(s, "check", [k \in Keys |-> IF k \in keys THEN c ELSE None], Nothing, TRUE, {})

\* clear and clear_many, which refuse a key that has no override.
Clear(s) ==
  /\ Begins(s)
  /\ \E keys \in (SUBSET {k \in Keys : payload.overrides[k] # None}) \ {{}} :
       Start(s, "write", NoItems,
             [payload EXCEPT !.overrides = [k \in Keys |-> IF k \in keys THEN None ELSE @[k]]],
             TRUE, {})

\* reapply.
Reapply(s) ==
  /\ Begins(s)
  /\ merged # {}
  /\ Start(s, "refresh", NoItems, Nothing, TRUE, {})

\* _sync_parent_after_child merges one more child.
Sync(s) ==
  /\ Begins(s)
  /\ \E c \in Kids \ merged : Start(s, "report", NoItems, payload, TRUE, merged \cup {c})

-----------------------------------------------------------------------------
(* Its further steps.                                                      *)

\* The items that have both a key and a source, which must be known.
Asked(s) == {k \in Keys : session[s].items[k] # None}

\* Slip: a source that is unknown is let through.
SlipAccepted(s) ==
  /\ merged # {} /\ Asked(s) # {}
  /\ Asked(s) \subseteq KnownKeys

Accepted(s) ==
  /\ merged # {} /\ Asked(s) # {}
  /\ Asked(s) \subseteq KnownKeys
  /\ \A k \in Asked(s) : session[s].items[k] \in merged

Decided(s) ==
  [k \in Keys |-> IF k \in Asked(s) THEN session[s].items[k] ELSE payload.overrides[k]]

Check(s) ==
  /\ session[s].pc = "check"
  /\ session' = [session EXCEPT ![s] =
       IF Accepted(s)
       THEN [@ EXCEPT !.pc = "write", !.items = NoItems,
                      !.next = [payload EXCEPT !.overrides = Decided(s)]]
       ELSE Idle]
  /\ UNCHANGED <<payload, merged, report, ever>>

\* The others learn that they are not alone.
Wrote(s, then) ==
  session' = [t \in Sessions |->
    IF t = s THEN then ELSE [session[t] EXCEPT !.alone = session[t].pc = "idle"]]

Write(s) ==
  /\ session[s].pc = "write"
  /\ payload' = session[s].next
  /\ Wrote(s, IF session[s].refresh THEN [session[s] EXCEPT !.pc = "refresh", !.next = Nothing]
              ELSE Idle)
  /\ UNCHANGED <<merged, report, ever>>

\* _refresh_task_merge_review reads the record again.
\* Slip: it takes the policy and leaves the overrides out.
SlipRefresh(s) ==
  /\ session[s].pc = "refresh"
  /\ session' = [session EXCEPT ![s] =
       IF merged = {} THEN Idle
       ELSE [@ EXCEPT !.pc = "report", !.next = [payload EXCEPT !.overrides = NoItems],
                      !.found = merged]]
  /\ UNCHANGED <<payload, merged, report, ever>>

Refresh(s) ==
  /\ session[s].pc = "refresh"
  /\ session' = [session EXCEPT ![s] =
       IF merged = {} THEN Idle
       ELSE [@ EXCEPT !.pc = "report", !.next = payload, !.found = merged]]
  /\ UNCHANGED <<payload, merged, report, ever>>

\* The result is computed from what was read, and written.
Report(s) ==
  /\ session[s].pc = "report"
  /\ merged' = session[s].found
  /\ report' = session[s].next
  /\ ever' = ever \cup session[s].found
  /\ Wrote(s, Idle)
  /\ UNCHANGED payload

\* The process ends, or the store fails, between two of the steps.
Abort(s) ==
  /\ session[s].pc # "idle"
  /\ session' = [session EXCEPT ![s] = Idle]
  /\ UNCHANGED <<payload, merged, report, ever>>

Next == \E s \in Sessions :
  \/ SetPolicy(s) \/ Ask(s) \/ ResolveAll(s) \/ Clear(s) \/ Reapply(s) \/ Sync(s)
  \/ Check(s) \/ Write(s) \/ Refresh(s) \/ Report(s) \/ Abort(s)

Spec == Init /\ [][Next]_vars

-----------------------------------------------------------------------------
(* Properties.                                                             *)

\* An override only ever names a key and a child of this task's merges, although
\* it is written after it was checked, and other decisions in between.
OverridesAdmitted ==
  \A k \in Keys : payload.overrides[k] # None =>
    payload.overrides[k] \in ever /\ \E c \in ever : k \in Returns(c)

\* The report follows the decisions that are on record at the end of every
\* operation during which no other wrote, whatever was left behind by those
\* that came before it, stale reports and aborted decisions included.
ReviewFollows ==
  [][\A s \in Sessions :
       (session[s].pc = "report" /\ session[s].alone /\ report' # report
          /\ session'[s].pc = "idle") => report' = payload']_vars
=============================================================================
