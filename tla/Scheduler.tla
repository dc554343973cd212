------------------------------ MODULE Scheduler ------------------------------
(* BotBoyScheduler and SchedulerStore (botboy/scheduler.py): the table
   scheduled_tasks, the threads that poll it, and the requests that add and cancel
   jobs.  Several processes may poll one database, and one scheduler may own two
   threads, because stop gives up waiting for a thread whose handler is slow. *)
EXTENDS Integers, FiniteSets, Sequences

CONSTANTS
  Schedulers,  \* BotBoyScheduler instances over one database
  Loops,       \* threads that run _run_loop
  LoopOf,      \* the scheduler whose start creates the thread
  Jobs,        \* scheduled_tasks.task_id
  Limits,      \* the values of max_runs that are given
  Unlimited,   \* max_runs is NULL
  Absent,      \* no row
  Horizon,     \* bound on the clock
  MaxFailures  \* bound on threads and processes that fail

ASSUME LoopAssumption == LoopOf \in [Loops -> Schedulers] /\ IsFiniteSet(Loops)
ASSUME JobsAssumption == IsFiniteSet(Jobs)
ASSUME LimitAssumption == Limits \subseteq Nat /\ Unlimited \notin Nat
ASSUME HorizonAssumption == Horizon \in Nat /\ MaxFailures \in Nat

VARIABLES
  now,       \* time.time
  jobs,      \* the rows of scheduled_tasks
  sched,     \* _running and _stop_event of each scheduler
  loop,      \* where each thread is, and the list of due jobs it works through
  failures,  \* how many threads and processes have failed
  calls,     \* history: how often a job was handed to its handler
  lost,      \* history: calls whose mark_done was never written
  overlap    \* history: two threads were alive at once

vars == <<now, jobs, sched, loop, failures, calls, lost, overlap>>
histories == <<calls, lost>>

\* "Horizon + 1" is a time that does not come.
Time == 0 .. Horizon + 1

JobRow == [enabled: BOOLEAN, due: Time, count: Nat, limit: Limits \cup {Unlimited},
           cron: BOOLEAN]

ASSUME AbsentAssumption == Absent \notin JobRow

Off == [pc |-> "off"]

\* A thread about to poll, or with a list to work through; the head of the list is
\* the job it is at.  In "write" it remembers what mark_done read and computed.
LoopState ==
  {Off} \cup [pc: {"poll"}]
    \cup [pc: {"check", "call", "mark"}, list: Seq(Jobs)]
    \cup [pc: {"write"}, list: Seq(Jobs), count: Nat, limit: Limits \cup {Unlimited},
          due: Time \cup {Absent}]

Init ==
  /\ now = 0
  /\ jobs = [j \in Jobs |-> Absent]
  /\ sched = [s \in Schedulers |-> [running |-> FALSE, stop |-> FALSE]]
  /\ loop = [l \in Loops |-> Off]
  /\ failures = 0
  /\ calls = [j \in Jobs |-> 0]
  /\ lost = [j \in Jobs |-> 0]
  /\ overlap = FALSE

Known(j) == jobs[j] # Absent
Due(j) == Known(j) /\ jobs[j].enabled /\ jobs[j].due =< now
Alive(l) == loop[l].pc # "off"

\* SELECT ... WHERE enabled=1 AND next_run_ts <= ? ORDER BY next_run_ts; the order
\* of jobs due at the same time is SQLite's.
DueLists ==
  LET D == {j \in Jobs : Due(j)} IN
  {s \in [1 .. Cardinality(D) -> D] :
     \A a, b \in DOMAIN s : a < b => s[a] # s[b] /\ jobs[s[a]].due =< jobs[s[b]].due}

At(pc, list) == [pc |-> pc, list |-> list]

\* The for loop takes the next job, or the thread goes back to its wait.
Advance(list) == IF Tail(list) = <<>> THEN [pc |-> "poll"] ELSE At("check", Tail(list))

Disabled(row) == [row EXCEPT !.enabled = FALSE]

-----------------------------------------------------------------------------
\* Requests

\* add_task; a relative or cron schedule is due later, an ISO one at any time.
Add(j) ==
  /\ ~Known(j)
  /\ \E due \in Time, limit \in Limits \cup {Unlimited}, cron \in BOOLEAN :
       /\ cron => due > now
       /\ jobs' = [jobs EXCEPT ![j] =
            [enabled |-> TRUE, due |-> due, count |-> 0, limit |-> limit, cron |-> cron]]
  /\ UNCHANGED <<now, sched, loop, failures, histories, overlap>>

Cancel(j) ==
  /\ Known(j)
  /\ jobs' = [jobs EXCEPT ![j] = Disabled(@)]
  /\ UNCHANGED <<now, sched, loop, failures, histories, overlap>>

Start(s, l) ==
  /\ LoopOf[l] = s /\ ~Alive(l)
  /\ ~sched[s].running
  /\ sched' = [sched EXCEPT ![s] = [running |-> TRUE, stop |-> FALSE]]
  /\ loop' = [loop EXCEPT ![l] = [pc |-> "poll"]]
  /\ overlap' = (overlap \/ \E k \in Loops \ {l} : Alive(k))
  /\ UNCHANGED <<now, jobs, failures, histories>>

\* stop; the join that follows waits 15 seconds at most and changes nothing.
Stop(s) ==
  /\ sched' = [sched EXCEPT ![s] = [running |-> FALSE, stop |-> TRUE]]
  /\ UNCHANGED <<now, jobs, loop, failures, histories, overlap>>

-----------------------------------------------------------------------------
\* _run_loop

Exit(l) ==
  /\ loop[l].pc = "poll"
  /\ sched[LoopOf[l]].stop
  /\ loop' = [loop EXCEPT ![l] = Off]
  /\ UNCHANGED <<now, jobs, sched, failures, histories, overlap>>

Poll(l) ==
  /\ loop[l].pc = "poll"
  /\ ~sched[LoopOf[l]].stop
  /\ \E list \in DueLists :
       /\ list # <<>>
       /\ loop' = [loop EXCEPT ![l] = At("check", list)]
  /\ UNCHANGED <<now, jobs, sched, failures, histories, overlap>>

\* _security_allows says yes.  Its answer depends on the stores of principals and
\* keys, which change at any time; the list may be old by now.
Allow(l) ==
  /\ loop[l].pc = "check"
  /\ loop' = [loop EXCEPT ![l].pc = "call"]
  /\ UNCHANGED <<now, jobs, sched, failures, histories, overlap>>

\* A mutation of Refuse: the job is skipped and not cancelled.
SlipRefuseSkips(l) ==
  /\ loop[l].pc = "check"
  /\ loop' = [loop EXCEPT ![l] = Advance(@.list)]
  /\ UNCHANGED <<now, jobs, sched, failures, histories, overlap>>

\* ... or no, which is also the answer when the stores that would tell cannot be
\* read: the job is cancelled and skipped.
Refuse(l) ==
  /\ loop[l].pc = "check"
  /\ jobs' = [jobs EXCEPT ![Head(loop[l].list)] = Disabled(@)]
  /\ loop' = [loop EXCEPT ![l] = Advance(@.list)]
  /\ UNCHANGED <<now, sched, failures, histories, overlap>>

\* The handler, which validates again and cancels the job if the answer has become
\* no; what it raises is swallowed.
Call(l) ==
  LET j == Head(loop[l].list) IN
  /\ loop[l].pc = "call"
  /\ calls' = [calls EXCEPT ![j] = @ + 1]
  /\ jobs' \in {jobs, [jobs EXCEPT ![j] = Disabled(@)]}
  /\ loop' = [loop EXCEPT ![l].pc = "mark"]
  /\ UNCHANGED <<now, sched, failures, lost, overlap>>

\* mark_done up to its UPDATE: the row is read and the next run computed, if the
\* schedule is a cron expression.
MarkRead(l) ==
  LET row == jobs[Head(loop[l].list)] IN
  /\ loop[l].pc = "mark"
  /\ \E due \in IF row.cron THEN {t \in Time : t > now} ELSE {Absent} :
       loop' = [loop EXCEPT ![l] =
         [pc |-> "write", list |-> @.list, count |-> row.count, limit |-> row.limit,
          due |-> due]]
  /\ UNCHANGED <<now, jobs, sched, failures, histories, overlap>>

\* Whether mark_done ends the job: the limit is reached or nothing comes after.
LastRun(l) ==
  \/ loop[l].limit # Unlimited /\ loop[l].count + 1 >= loop[l].limit
  \/ loop[l].due = Absent

\* A mutation of Marked: the limit is compared before the run is counted.
SlipMarkedLate(l, row) ==
  LET last == \/ loop[l].limit # Unlimited /\ loop[l].count >= loop[l].limit
              \/ loop[l].due = Absent
  IN IF last
     THEN [row EXCEPT !.count = loop[l].count + 1, !.enabled = FALSE]
     ELSE [row EXCEPT !.count = loop[l].count + 1, !.due = loop[l].due]

\* A mutation of Marked: every column is written back, enabled included.
SlipMarkedEnabled(l, row) ==
  IF LastRun(l)
  THEN [row EXCEPT !.count = loop[l].count + 1, !.enabled = FALSE]
  ELSE [row EXCEPT !.count = loop[l].count + 1, !.due = loop[l].due, !.enabled = TRUE]

\* A mutation of Marked: the last run is not counted.
SlipMarkedUncounted(l, row) ==
  IF LastRun(l)
  THEN [row EXCEPT !.enabled = FALSE]
  ELSE [row EXCEPT !.count = loop[l].count + 1, !.due = loop[l].due]

\* What mark_done makes of the row as it is by then.
Marked(l, row) ==
  IF LastRun(l)
  THEN [row EXCEPT !.count = loop[l].count + 1, !.enabled = FALSE]
  ELSE [row EXCEPT !.count = loop[l].count + 1, !.due = loop[l].due]

MarkWrite(l) ==
  /\ loop[l].pc = "write"
  /\ jobs' = [jobs EXCEPT ![Head(loop[l].list)] = Marked(l, @)]
  /\ loop' = [loop EXCEPT ![l] = Advance(@.list)]
  /\ UNCHANGED <<now, sched, failures, histories, overlap>>

\* Calls of the thread that no mark_done has recorded.
Unmarked(l) ==
  IF loop[l].pc \in {"mark", "write"} THEN {Head(loop[l].list)} ELSE {}

\* A store operation raises, which nothing in _run_loop catches: the thread is gone
\* and _running stays TRUE.
LoopDies(l) ==
  /\ Alive(l) /\ loop[l].pc # "call"
  /\ failures < MaxFailures
  /\ failures' = failures + 1
  /\ lost' = [j \in Jobs |-> IF j \in Unmarked(l) THEN lost[j] + 1 ELSE lost[j]]
  /\ loop' = [loop EXCEPT ![l] = Off]
  /\ UNCHANGED <<now, jobs, sched, calls, overlap>>

\* The process of a scheduler ends with its threads; a later one begins afresh.
ProcessEnds(s) ==
  LET mine == {l \in Loops : LoopOf[l] = s} IN
  /\ failures < MaxFailures
  /\ failures' = failures + 1
  /\ lost' = [j \in Jobs |-> lost[j] + Cardinality({l \in mine : j \in Unmarked(l)})]
  /\ loop' = [l \in Loops |-> IF l \in mine THEN Off ELSE loop[l]]
  /\ sched' = [sched EXCEPT ![s] = [running |-> FALSE, stop |-> FALSE]]
  /\ UNCHANGED <<now, jobs, calls, overlap>>

Tick ==
  /\ now < Horizon
  /\ now' = now + 1
  /\ UNCHANGED <<jobs, sched, loop, failures, histories, overlap>>

Request ==
  \/ \E j \in Jobs : Add(j) \/ Cancel(j)
  \/ \E s \in Schedulers : Stop(s) \/ \E l \in Loops : Start(s, l)

Step(l) ==
  Exit(l) \/ Poll(l) \/ Allow(l) \/ Refuse(l) \/ Call(l) \/ MarkRead(l) \/ MarkWrite(l)

Next ==
  \/ Request
  \/ \E l \in Loops : Step(l) \/ LoopDies(l)
  \/ \E s \in Schedulers : ProcessEnds(s)
  \/ Tick

\* The thread of a loop is scheduled, SQLite answers or raises, handlers return.
Fairness == \A l \in Loops : WF_vars(Step(l))

Spec == Init /\ [][Next]_vars /\ Fairness

-----------------------------------------------------------------------------
\* The rows are complete, a thread works through a list of known jobs, and the
\* histories count.
TypeOK ==
  /\ now \in 0 .. Horizon
  /\ jobs \in [Jobs -> JobRow \cup {Absent}]
  /\ sched \in [Schedulers -> [running: BOOLEAN, stop: BOOLEAN]]
  /\ loop \in [Loops -> LoopState]
  /\ \A l \in Loops :
       loop[l].pc \in {"check", "call", "mark", "write"} =>
         loop[l].list # <<>> /\ \A i \in DOMAIN loop[l].list : Known(loop[l].list[i])
  /\ failures \in 0 .. MaxFailures
  /\ {calls, lost} \subseteq [Jobs -> Nat]
  /\ overlap \in BOOLEAN

\* A job that was cancelled, refused or finished is never enabled again: mark_done
\* writes after a cancel, and from values read before it, but not this column.
CancelSticks ==
  [][\A j \in Jobs :
       Known(j) /\ ~jobs[j].enabled => Known(j)' /\ ~jobs'[j].enabled]_vars

\* While at most one thread polls at a time, run_count is the number of calls, but
\* for those whose thread ended before mark_done and the one in progress: no call
\* is recorded twice or forgotten across stops, starts and crashes.
CallsAccounted ==
  ~overlap =>
    \A j \in Jobs :
      Known(j) =>
        calls[j] = jobs[j].count + lost[j] + Cardinality({l \in Loops : j \in Unmarked(l)})

\* While at most one thread polls at a time, a job is called as often as max_runs
\* allows (once, if that is 0) and once more for each call whose thread ended
\* before mark_done.
LimitHeld ==
  ~overlap =>
    \A j \in Jobs :
      Known(j) /\ jobs[j].limit # Unlimited =>
        calls[j] =< lost[j] + (IF jobs[j].limit = 0 THEN 1 ELSE jobs[j].limit)

\* A due job does not stay due: it is run and gets its next time, or it is disabled,
\* unless its scheduler is stopped or no thread is left.  Jobs before it in a list,
\* refusals and stale lists do not starve it.
DueIsServed ==
  \A j \in Jobs :
    Due(j) ~> \/ ~Due(j)
              \/ \A l \in Loops : ~Alive(l)
              \/ \E s \in Schedulers : ~sched[s].running

=============================================================================
