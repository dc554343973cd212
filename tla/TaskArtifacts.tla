---------------------------- MODULE TaskArtifacts ----------------------------
(***************************************************************************)
(* The files of a task and their rows (TaskStore.write_artifact,            *)
(* link_artifacts_from_task), and what the parent of delegated tasks keeps  *)
(* of them: when a child completes, its artifacts are linked to the parent, *)
(* a merge report is written, and the merge stored as the parent's result,  *)
(* with the artifacts it linked.  Where the result holds no merge, the best *)
(* of the reports stands in for it.  A child's work writes two files, one   *)
(* of a fresh name and one that every attempt overwrites.  Rows are only    *)
(* added, so that a row is known by its task and its place.                 *)
(***************************************************************************)
EXTENDS MergeOrder

CONSTANTS
  Children,
  Attempts,  \* the attempts each child is given at most
  Page,      \* the artifacts a link takes of its source, 100 in the code
  None

Parent == 0

VARIABLES
  child,    \* of each child its status and attempts
  file,     \* the content of each file
  rows,     \* task_artifacts of each task, ORDER BY created_at
  result,   \* the merge in the parent's result, or None
  sync      \* what each child's session is in the middle of

vars == <<child, file, rows, result, sync>>

Tasks == Children \cup {Parent}

\* A fresh file for each attempt, one file for all, and a child's merge report.
Files ==
  [of: Children, kind: {"payload"}, try: 1 .. Attempts]
    \cup [of: Children, kind: {"eval", "merge"}, try: {0}]
    \cup [of: {Parent}, kind: {"review"}, try: {0}]

\* What tells one row of a task from another: its file, its category and label.
Key == [file: Files, linked: BOOLEAN]

\* A merge: the children in it, how many have completed and are active, and the
\* places of the rows that its latest child is said to have linked.
Merge == [merges: Seq(Children), completed: Nat, active: Nat, linked: Seq(Nat)]

Idle == [pc |-> "idle", todo |-> <<>>, known |-> {}, linked |-> <<>>, added |-> <<>>,
         prior |-> None, merge |-> None]

Sync == [pc: {"idle", "run", "sync", "link", "build", "store", "record", "done"},
         todo: Seq(Key), known: SUBSET Key, linked: Seq(Nat), added: Seq(Nat),
         prior: Merge \cup {None}, merge: Merge \cup {None}]

TypeOK ==
  /\ child \in [Children -> [status: {"running", "completed", "failed"}, attempts: 1 .. Attempts]]
  /\ DOMAIN file = Files
  /\ rows \in [Tasks -> Seq(Key)]
  /\ result \in Merge \cup {None}
  /\ sync \in [Tasks -> Sync]

Init ==
  /\ child = [c \in Children |-> [status |-> "running", attempts |-> 1]]
  /\ file = [f \in Files |-> None]
  /\ rows = [t \in Tasks |-> <<>>]
  /\ result = None
  /\ sync = [t \in Tasks |-> [Idle EXCEPT !.pc = IF t = Parent THEN "idle" ELSE "run"]]

Row(c, kind, try) == [file |-> [of |-> c, kind |-> kind, try |-> try], linked |-> FALSE]

\* ORDER BY created_at LIMIT n
First(s, n) == SubSeq(s, 1, IF Len(s) < n THEN Len(s) ELSE n)

\* add_artifact_file returns get_artifacts(task_id, limit=1)[0], the task's
\* oldest artifact.
Returned(t) == 1

-----------------------------------------------------------------------------
\* The work of a child, whose rows nobody reads before it has ended: "evals" adds
\* its report under a fresh name, and once more under one that the next attempt
\* overwrites.
Work(c) ==
  LET fresh == Row(c, "payload", child[c].attempts)
      same == Row(c, "eval", 0) IN
  /\ sync[c].pc = "run"
  /\ file' = [file EXCEPT ![fresh.file] = child[c].attempts, ![same.file] = child[c].attempts]
  /\ rows' = [rows EXCEPT ![c] = @ \o <<fresh, same>>]
  /\ \/ /\ child' = [child EXCEPT ![c].status = "completed"]
        /\ sync' = [sync EXCEPT ![c].pc = "sync"]
     \/ /\ child' = [child EXCEPT ![c].status = "failed"]
        /\ sync' = [sync EXCEPT ![c].pc = "idle"]
  /\ UNCHANGED result

\* A failed child is resumed.
Resume(c) ==
  /\ sync[c].pc = "idle" /\ child[c].status = "failed" /\ child[c].attempts < Attempts
  /\ child' = [child EXCEPT ![c] = [status |-> "running", attempts |-> @.attempts + 1]]
  /\ sync' = [sync EXCEPT ![c].pc = "run"]
  /\ UNCHANGED <<file, rows, result>>

-----------------------------------------------------------------------------
\* _sync_parent_after_child reads the parent's merges; the link reads both
\* tasks' artifacts, the parent's up to twice the page.
StartLink(c) ==
  /\ sync[c].pc = "sync"
  /\ sync' = [sync EXCEPT ![c] =
       [@ EXCEPT !.pc = "link",
                 !.prior = result,
                 !.todo = [i \in DOMAIN First(rows[c], Page) |->
                             [rows[c][i] EXCEPT !.linked = TRUE]],
                 !.known = ToSet(First(rows[Parent], 2 * Page))]]
  /\ UNCHANGED <<child, file, rows, result>>

\* A slip for TLC: what was linked is not remembered for the rest of the link.
SlipLink(c) ==
  LET s == sync[c] IN
  /\ s.pc = "link" /\ s.todo # <<>>
  /\ IF Head(s.todo) \in s.known
       THEN /\ sync' = [sync EXCEPT ![c].todo = Tail(@)]
            /\ UNCHANGED rows
       ELSE /\ rows' = [rows EXCEPT ![Parent] = Append(@, Head(s.todo))]
            /\ sync' = [sync EXCEPT ![c].todo = Tail(@)]
  /\ UNCHANGED <<child, file, result>>

\* One artifact: skipped when its key is known, else inserted and committed; what
\* the insert is said to have returned is kept, and the key is known from now on.
Link(c) ==
  LET s == sync[c] IN
  /\ s.pc = "link" /\ s.todo # <<>>
  /\ IF Head(s.todo) \in s.known
       THEN /\ sync' = [sync EXCEPT ![c].todo = Tail(@)]
            /\ UNCHANGED rows
       ELSE /\ rows' = [rows EXCEPT ![Parent] = Append(@, Head(s.todo))]
            /\ sync' = [sync EXCEPT ![c] =
                 [s EXCEPT !.todo = Tail(@),
                           !.known = @ \cup {Head(s.todo)},
                           !.linked = Append(@, Returned(Parent)),
                           !.added = Append(@, Len(rows[Parent]) + 1)]]
  /\ UNCHANGED <<child, file, result>>

\* _build_parent_merge_result of the children's statuses as they are now.
Built(merges, linked) ==
  [merges |-> merges,
   completed |-> Cardinality({k \in Children : child[k].status = "completed"}),
   active |-> Cardinality({k \in Children : child[k].status = "running"}),
   linked |-> linked]

Prior(merge) == IF merge = None THEN <<>> ELSE merge.merges

\* The merge is built and its report written, if the write succeeds.
Build(c) ==
  LET s == sync[c]
      row == Row(c, "merge", 0)
      merges == Append(Without(Prior(s.prior), c), c) IN
  /\ s.pc = "link" /\ s.todo = <<>>
  /\ sync' = [sync EXCEPT ![c] = [Idle EXCEPT !.pc = "store", !.merge = Built(merges, s.linked)]]
  /\ \/ /\ file' = [file EXCEPT ![row.file] = Built(merges, s.linked)]
        /\ rows' = [rows EXCEPT ![Parent] = Append(@, row)]
     \/ UNCHANGED <<file, rows>>
  /\ UNCHANGED <<child, result>>

Store(c) ==
  /\ sync[c].pc = "store"
  /\ result' = sync[c].merge
  /\ sync' = [sync EXCEPT ![c] = [Idle EXCEPT !.pc = "done"]]
  /\ UNCHANGED <<child, file, rows>>

\* The outcome of the parent's own command is stored over its result, without a
\* merge when it failed before it had one.
Overwrite ==
  /\ result # None
  /\ result' = None
  /\ UNCHANGED <<child, file, rows, sync>>

-----------------------------------------------------------------------------
\* Which of two reports is preferred; where these agree it is the one with more
\* conflicts or links, here either.
Better(a, b) ==
  \/ a.completed > b.completed
  \/ a.completed = b.completed /\ a.active < b.active

Reports ==
  LET own == {row \in ToSet(rows[Parent]) : ~row.linked /\ row.file.kind \in {"merge", "review"}}
  IN {file[row.file] : row \in own}

\* _load_task_merge_result: the merge of the result, or the best of the reports.
Loaded ==
  IF result # None THEN {result}
  ELSE {r \in Reports : \A other \in Reports : ~Better(other, r)}

\* An operator's decision rebuilds the merge (_refresh_task_merge_review); one
\* of them in a behaviour.
Refresh ==
  LET none == [of |-> Parent, kind |-> "review", try |-> 0] IN
  /\ sync[Parent].pc = "idle" /\ file[none] = None
  /\ \E merge \in Loaded :
       sync' = [sync EXCEPT ![Parent] = [@ EXCEPT !.pc = "build", !.merge = merge]]
  /\ UNCHANGED <<child, file, rows, result>>

Rebuild ==
  LET s == sync[Parent] IN
  /\ s.pc = "build"
  /\ result' = Built(s.merge.merges, s.merge.linked)
  /\ sync' = [sync EXCEPT ![Parent] = [@ EXCEPT !.pc = "record", !.merge = result']]
  /\ UNCHANGED <<child, file, rows>>

Report ==
  LET row == Row(Parent, "review", 0) IN
  /\ sync[Parent].pc = "record"
  /\ file' = [file EXCEPT ![row.file] = sync[Parent].merge]
  /\ rows' = [rows EXCEPT ![Parent] = Append(@, row)]
  /\ sync' = [sync EXCEPT ![Parent] = Idle]
  /\ UNCHANGED <<child, result>>

Next ==
  \/ \E c \in Children : \/ Work(c) \/ Resume(c) \/ StartLink(c)
                          \/ Link(c) \/ Build(c) \/ Store(c)
  \/ Overwrite \/ Refresh \/ Rebuild \/ Report

Spec == Init /\ [][Next]_vars

-----------------------------------------------------------------------------
(* Properties. *)

Linking(c) == {[row EXCEPT !.linked = TRUE] : row \in ToSet(First(rows[c], Page))}

Merged == UNION {ToSet(merge.merges) : merge \in (Reports \cup {result}) \ {None}}

\* Each artifact of a child, up to the page, that the parent's result or one of its
\* reports has merged is linked to the parent, and once: although attempts leave
\* rows that look the same, other children are linked meanwhile, and results are
\* overwritten and restored from reports (link_artifacts_from_task).
LinkedOnce ==
  \A c \in Merged : \A key \in Linking(c) :
    Cardinality({i \in DOMAIN rows[Parent] : rows[Parent][i] = key}) = 1

\* The artifacts a merge names as linked are those its link added, as in the store
\* of test_orchestrator_service_integration.py, whose write_artifact returns what
\* it appended (worker_handoff_service.py, linked_artifacts).
LinksReported == \A c \in Children : sync[c].linked = sync[c].added
=============================================================================
