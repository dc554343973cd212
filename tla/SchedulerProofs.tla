-------------------------- MODULE SchedulerProofs --------------------------
(***************************************************************************)
(* Proofs about Scheduler, for any number of schedulers, threads and jobs. *)
(***************************************************************************)
EXTENDS Scheduler, FiniteSetTheorems, SequenceTheorems, TLAPS

Busy(l) == loop[l].pc \in {"check", "call", "mark", "write"}

\* How often a job with this limit is run.
Allowed(row) == IF row.limit = 0 THEN 1 ELSE row.limit

\* Until two threads are alive at once, at most one is.
Alone == \A k, l \in Loops : Alive(k) /\ Alive(l) => k = l

\* A job that is not there yet has no history.
Fresh == \A j \in Jobs : ~Known(j) => calls[j] = 0 /\ lost[j] = 0

\* What mark_done has read is still so when it writes.
ReadIsFresh ==
  \A l \in Loops : loop[l].pc = "write" =>
    LET row == jobs[Head(loop[l].list)] IN loop[l].count = row.count /\ loop[l].limit = row.limit

\* A list names each job once.
Distinct ==
  \A l \in Loops : Busy(l) =>
    \A a, b \in DOMAIN loop[l].list : loop[l].list[a] = loop[l].list[b] => a = b

\* A job that is enabled, or in the list of a thread, has a run left.
RunLeft(j) == jobs[j].limit # Unlimited => jobs[j].count < Allowed(jobs[j])

EnabledHasRun == \A j \in Jobs : Known(j) /\ jobs[j].enabled => RunLeft(j)
ListedHasRun ==
  \A l \in Loops : Busy(l) => \A i \in DOMAIN loop[l].list : RunLeft(loop[l].list[i])

\* No row counts more runs than its limit.
CountWithin ==
  \A j \in Jobs :
    Known(j) /\ jobs[j].limit # Unlimited => jobs[j].count =< Allowed(jobs[j])

Inductive ==
  /\ TypeOK
  /\ Fresh
  /\ Distinct
  /\ ~overlap => /\ Alone /\ ReadIsFresh /\ EnabledHasRun /\ ListedHasRun
                 /\ CountWithin /\ CallsAccounted
-----------------------------------------------------------------------------
(* Types.                                                                  *)

\* What the type invariant says of a thread with a list to work through.
LEMMA LoopFacts ==
  ASSUME TypeOK, NEW l \in Loops
  PROVE  /\ loop[l] \in LoopState
         /\ Busy(l) => /\ loop[l].list \in Seq(Jobs)
                       /\ Len(loop[l].list) \in Nat /\ Len(loop[l].list) > 0
                       /\ DOMAIN loop[l].list = 1 .. Len(loop[l].list)
                       /\ Head(loop[l].list) = loop[l].list[1]
                       /\ Head(loop[l].list) \in Jobs /\ Known(Head(loop[l].list))
         /\ loop[l].pc = "write" => /\ loop[l].count \in Nat
                                    /\ loop[l].limit \in Limits \cup {Unlimited}
                                    /\ loop[l].due \in Time \cup {Absent}
<1>1. loop[l] \in LoopState
  BY DEF TypeOK
<1>2. ASSUME Busy(l)
      PROVE  loop[l].list \in Seq(Jobs) /\ loop[l].list # <<>>
             /\ \A i \in DOMAIN loop[l].list : Known(loop[l].list[i])
  BY <1>1, <1>2 DEF TypeOK, Busy, LoopState, Off
<1>3. loop[l].pc = "write" => /\ loop[l].count \in Nat
                              /\ loop[l].limit \in Limits \cup {Unlimited}
                              /\ loop[l].due \in Time \cup {Absent}
  BY <1>1 DEF LoopState, Off
<1> QED
  BY <1>1, <1>2, <1>3

\* A record is a job's row or Absent, never both.
LEMMA RowFacts ==
  ASSUME TypeOK, NEW j \in Jobs
  PROVE  /\ Known(j) <=> jobs[j] \in JobRow
         /\ Known(j) => Disabled(jobs[j]) \in JobRow
BY AbsentAssumption DEF TypeOK, Known, JobRow, Disabled

\* mark_done counts the run it has read, keeps the limit and enables nothing.
LEMMA MarkedFacts ==
  ASSUME TypeOK, NEW l \in Loops, loop[l].pc = "write", NEW row \in JobRow
  PROVE  /\ Marked(l, row) \in JobRow
         /\ Marked(l, row).limit = row.limit
         /\ Marked(l, row).count = loop[l].count + 1
         /\ LastRun(l) => Marked(l, row).enabled = FALSE
         /\ ~LastRun(l) => Marked(l, row).enabled = row.enabled
<1> DEFINE n == loop[l].count + 1
<1>1. n \in Nat /\ loop[l].due \in Time \cup {Absent}
  BY LoopFacts
<1>2. ASSUME LastRun(l)
      PROVE  Marked(l, row) = [row EXCEPT !.count = n, !.enabled = FALSE]
  BY <1>2 DEF Marked
<1>3. ASSUME ~LastRun(l)
      PROVE  /\ loop[l].due \in Time
             /\ Marked(l, row) = [row EXCEPT !.count = n, !.due = loop[l].due]
  BY <1>1, <1>3 DEF Marked, LastRun
<1> HIDE DEF n
<1>4. Marked(l, row) \in JobRow
  BY <1>1, <1>2, <1>3 DEF JobRow
<1>5. /\ Marked(l, row).limit = row.limit
      /\ Marked(l, row).count = n
  BY <1>1, <1>2, <1>3 DEF JobRow
<1>6. /\ LastRun(l) => Marked(l, row).enabled = FALSE
      /\ ~LastRun(l) => Marked(l, row).enabled = row.enabled
  BY <1>1, <1>2, <1>3 DEF JobRow
<1> QED
  BY <1>4, <1>5, <1>6 DEF n

\* The rest of a list that is not empty.
LEMMA TailFacts ==
  ASSUME NEW list \in Seq(Jobs), list # <<>>
  PROVE  /\ Tail(list) \in Seq(Jobs)
         /\ DOMAIN Tail(list) = 1 .. Len(list) - 1
         /\ \A i \in DOMAIN Tail(list) : /\ i + 1 \in DOMAIN list /\ i + 1 # 1
                                         /\ Tail(list)[i] = list[i + 1]
BY HeadTailProperties

\* A thread that is through with a job polls again or checks the next one.
LEMMA AdvanceFacts ==
  ASSUME NEW list \in Seq(Jobs), list # <<>>
  PROVE  /\ Advance(list) \in LoopState
         /\ Advance(list).pc \in {"poll", "check"}
         /\ Advance(list).pc = "check" => /\ Advance(list).list = Tail(list)
                                          /\ Tail(list) # <<>>
BY TailFacts DEF Advance, At, LoopState

\* The list that a poll returns.
LEMMA DueFacts ==
  ASSUME TypeOK, NEW list \in DueLists
  PROVE  /\ list \in Seq(Jobs)
         /\ \A i \in DOMAIN list : list[i] \in Jobs /\ Due(list[i])
         /\ \A a, b \in DOMAIN list : list[a] = list[b] => a = b
<1> DEFINE D == {j \in Jobs : Due(j)}
<1>1. Cardinality(D) \in Nat
  BY JobsAssumption, FS_Subset, FS_CardinalityType
<1>2. list \in [1 .. Cardinality(D) -> D]
  BY DEF DueLists
<1>3. ASSUME NEW a \in DOMAIN list, NEW b \in DOMAIN list, a # b
      PROVE  list[a] # list[b]
  <2>1. a < b \/ b < a
    BY <1>1, <1>2, <1>3
  <2> QED
    BY <2>1 DEF DueLists
<1>4. list \in Seq(Jobs)
  <2> DEFINE n == Cardinality(D)
  <2>1. n \in Nat /\ list \in [1 .. n -> Jobs]
    BY <1>1, <1>2
  <2> HIDE DEF n
  <2> QED
    BY <2>1, SeqDef
<1>5. \A i \in DOMAIN list : list[i] \in Jobs /\ Due(list[i])
  BY <1>2
<1> HIDE DEF D
<1> QED
  BY <1>3, <1>4, <1>5

\* No step removes a job, changes its limit or enables it; a new job is enabled,
\* has not run and has no history but its own.
RowKept(j) ==
  /\ Known(j) => /\ jobs'[j] \in JobRow /\ jobs'[j] # Absent
                 /\ jobs'[j].limit = jobs[j].limit
                 /\ jobs'[j].enabled => jobs[j].enabled
  /\ ~Known(j) => \/ jobs'[j] = jobs[j]
                  \/ jobs'[j] \in JobRow /\ jobs'[j].count = 0

LEMMA RowStep ==
  ASSUME TypeOK, [Next]_vars
  PROVE  /\ jobs' \in [Jobs -> JobRow \cup {Absent}]
         /\ \A j \in Jobs : RowKept(j)
<1> USE AbsentAssumption DEF Known
<1>1. CASE UNCHANGED jobs
  BY <1>1, RowFacts DEF TypeOK, RowKept
<1>2. ASSUME NEW k \in Jobs, Add(k)
      PROVE  /\ ~Known(k) /\ jobs'[k] \in JobRow /\ jobs'[k].count = 0
             /\ jobs' = [jobs EXCEPT ![k] = jobs'[k]]
  BY <1>2 DEF Add, TypeOK, JobRow
<1>3. ASSUME NEW k \in Jobs, Known(k), jobs' = [jobs EXCEPT ![k] = Disabled(@)]
      PROVE  /\ jobs'[k] \in JobRow /\ jobs'[k].limit = jobs[k].limit
             /\ ~jobs'[k].enabled
  BY <1>3, RowFacts DEF TypeOK, Disabled, JobRow
<1>4. ASSUME NEW l \in Loops, Refuse(l) \/ Call(l)
      PROVE  \/ UNCHANGED jobs
             \/ \E k \in Jobs : Known(k) /\ jobs' = [jobs EXCEPT ![k] = Disabled(@)]
  BY <1>4, LoopFacts DEF Refuse, Call, Busy
<1>5. ASSUME NEW l \in Loops, MarkWrite(l)
      PROVE  \E k \in Jobs :
               /\ Known(k) /\ jobs' = [jobs EXCEPT ![k] = jobs'[k]]
               /\ jobs'[k] \in JobRow /\ jobs'[k].limit = jobs[k].limit
               /\ jobs'[k].enabled => jobs[k].enabled
  <2> DEFINE k == Head(loop[l].list)
  <2>1. loop[l].pc = "write" /\ k \in Jobs /\ Known(k) /\ jobs[k] \in JobRow
    BY <1>5, LoopFacts, RowFacts DEF MarkWrite, Busy
  <2>2. jobs' = [jobs EXCEPT ![k] = Marked(l, jobs[k])]
    BY <1>5 DEF MarkWrite
  <2>3. jobs'[k] = Marked(l, jobs[k])
    BY <2>1, <2>2 DEF TypeOK
  <2> QED
    <3> HIDE DEF k
    <3>1. Marked(l, jobs[k]) \in JobRow /\ Marked(l, jobs[k]).limit = jobs[k].limit
      BY <2>1, MarkedFacts
    <3>2. Marked(l, jobs[k]).enabled => jobs[k].enabled
      BY <2>1, MarkedFacts DEF JobRow
    <3> QED
      BY <2>1, <2>2, <2>3, <3>1, <3>2
<1>6. \/ UNCHANGED jobs
      \/ \E k \in Jobs : Add(k) \/ (Known(k) /\ jobs' = [jobs EXCEPT ![k] = Disabled(@)])
      \/ \E l \in Loops : MarkWrite(l)
  BY <1>4 DEF Next, vars, Request, Step, Cancel, Start, Stop, Exit, Poll, Allow,
              MarkRead, LoopDies, ProcessEnds, Tick
<1>7. ASSUME NEW k \in Jobs, Known(k), jobs' = [jobs EXCEPT ![k] = jobs'[k]],
             jobs'[k] \in JobRow, jobs'[k].limit = jobs[k].limit,
             jobs'[k].enabled => jobs[k].enabled
      PROVE  /\ jobs' \in [Jobs -> JobRow \cup {Absent}]
             /\ \A j \in Jobs : RowKept(j)
  BY <1>7, RowFacts DEF TypeOK, RowKept
<1>8. ASSUME NEW k \in Jobs, Add(k)
      PROVE  /\ jobs' \in [Jobs -> JobRow \cup {Absent}]
             /\ \A j \in Jobs : RowKept(j)
  <2>1. jobs' \in [Jobs -> JobRow \cup {Absent}]
    BY <1>2, <1>8 DEF TypeOK
  <2>2. ASSUME NEW j \in Jobs
        PROVE  RowKept(j)
    <3>1. CASE j = k
      BY <1>2, <1>8, <3>1 DEF RowKept
    <3>2. CASE j # k
      <4>1. jobs'[j] = jobs[j]
        BY <1>2, <1>8, <3>2 DEF TypeOK
      <4> QED
        BY <4>1, RowFacts DEF RowKept
    <3> QED
      BY <3>1, <3>2
  <2> QED
    BY <2>1, <2>2
<1>9. ASSUME NEW k \in Jobs, Known(k), jobs' = [jobs EXCEPT ![k] = Disabled(@)]
      PROVE  jobs' = [jobs EXCEPT ![k] = jobs'[k]]
  BY <1>9 DEF TypeOK
<1> QED
  BY <1>1, <1>3, <1>5, <1>6, <1>7, <1>8, <1>9, RowFacts

\* A thread keeps its list, goes on to the rest of it, or has just polled.
ListKept(l) ==
  Busy(l)' =>
    \/ loop'[l].list \in DueLists /\ UNCHANGED jobs
    \/ Busy(l) /\ loop'[l].list = loop[l].list
    \/ /\ Busy(l) /\ Tail(loop[l].list) # <<>>
       /\ loop'[l].list = Tail(loop[l].list)

\* The steps of one thread.
LEMMA ThreadStep ==
  ASSUME TypeOK, NEW l \in Loops, Step(l)
  PROVE  /\ loop' = [loop EXCEPT ![l] = loop'[l]]
         /\ loop'[l] \in LoopState
         /\ Busy(l)' => loop'[l].list # <<>>
         /\ ListKept(l)
<1> USE DEF ListKept, Busy
<1>1. CASE Exit(l)
  BY <1>1 DEF Exit, TypeOK, LoopState, Off
<1>2. CASE Poll(l)
  <2>1. PICK list \in DueLists : list # <<>> /\ loop' = [loop EXCEPT ![l] = At("check", list)]
    BY <1>2 DEF Poll
  <2>2. /\ loop'[l] = [pc |-> "check", list |-> list]
        /\ list \in Seq(Jobs) /\ UNCHANGED jobs
    BY <1>2, <2>1, DueFacts DEF TypeOK, Poll, At
  <2>3. loop'[l] \in LoopState
    BY <2>2 DEF LoopState
  <2>4. loop'[l].list = list
    BY <2>2
  <2>5. loop' = [loop EXCEPT ![l] = loop'[l]]
    BY <2>1, <2>2 DEF At
  <2> QED
    BY <2>1, <2>2, <2>3, <2>4, <2>5
<1>3. ASSUME loop' = [loop EXCEPT ![l] = Advance(@.list)], Busy(l)
      PROVE  /\ loop' = [loop EXCEPT ![l] = loop'[l]]
             /\ loop'[l] \in LoopState
             /\ Busy(l)' => loop'[l].list # <<>>
             /\ ListKept(l)
  <2>1. loop[l].list \in Seq(Jobs) /\ loop[l].list # <<>>
    BY <1>3, LoopFacts
  <2>2. loop'[l] = Advance(loop[l].list)
    BY <1>3 DEF TypeOK
  <2> QED
    BY <1>3, <2>1, <2>2, AdvanceFacts DEF TypeOK
<1>4. CASE Refuse(l) \/ MarkWrite(l)
  BY <1>3, <1>4 DEF Refuse, MarkWrite
<1>5. ASSUME NEW pc \in {"call", "mark"}, Busy(l), loop[l].pc \in {"check", "call"},
             loop' = [loop EXCEPT ![l].pc = pc]
      PROVE  /\ loop' = [loop EXCEPT ![l] = loop'[l]]
             /\ loop'[l] \in LoopState
             /\ Busy(l)' => loop'[l].list # <<>>
             /\ ListKept(l)
  <2>1. loop[l].list \in Seq(Jobs) /\ loop[l].list # <<>>
    BY <1>5, LoopFacts
  <2>2. loop[l] \in [pc: {"check", "call", "mark"}, list: Seq(Jobs)]
    BY <1>5, LoopFacts DEF LoopState, Off
  <2>3. loop'[l] = [loop[l] EXCEPT !.pc = pc]
    BY <1>5 DEF TypeOK
  <2> QED
    BY <1>5, <2>1, <2>2, <2>3 DEF TypeOK, LoopState
<1>6. CASE Allow(l) \/ Call(l)
  BY <1>5, <1>6 DEF Allow, Call
<1>7. CASE MarkRead(l)
  <2> DEFINE row == jobs[Head(loop[l].list)]
  <2>1. /\ loop[l].pc = "mark" /\ row \in JobRow
        /\ loop[l].list \in Seq(Jobs) /\ loop[l].list # <<>>
    BY <1>7, LoopFacts, RowFacts DEF MarkRead
  <2>2. PICK due \in Time \cup {Absent} :
          loop'[l] = [pc |-> "write", list |-> loop[l].list, count |-> row.count,
                      limit |-> row.limit, due |-> due]
          /\ loop' = [loop EXCEPT ![l] = loop'[l]]
    BY <1>7 DEF MarkRead, TypeOK
  <2>3. row.count \in Nat /\ row.limit \in Limits \cup {Unlimited}
    BY <2>1 DEF JobRow
  <2> HIDE DEF row
  <2> QED
    BY <2>1, <2>2, <2>3 DEF LoopState
<1> QED
  BY <1>1, <1>2, <1>4, <1>6, <1>7 DEF Step

\* All steps.
LEMMA ListStep ==
  ASSUME TypeOK, [Next]_vars
  PROVE  /\ loop' \in [Loops -> LoopState]
         /\ \A l \in Loops : Busy(l)' => loop'[l].list # <<>>
         /\ \A l \in Loops : ListKept(l)
<1>1. CASE UNCHANGED loop
  <2>1. ASSUME NEW l \in Loops, Busy(l)
        PROVE  loop[l].list # <<>>
    BY <2>1, LoopFacts
  <2> QED
    BY <1>1, <2>1 DEF TypeOK, Busy, ListKept
<1>2. ASSUME NEW l \in Loops, Step(l)
      PROVE  /\ loop' \in [Loops -> LoopState]
             /\ \A k \in Loops : Busy(k)' => loop'[k].list # <<>>
             /\ \A k \in Loops : ListKept(k)
  <2>1. loop' = [loop EXCEPT ![l] = loop'[l]] /\ loop'[l] \in LoopState
    BY <1>2, ThreadStep
  <2>2. ASSUME NEW k \in Loops, k # l
        PROVE  (Busy(k)' => loop'[k].list # <<>>) /\ ListKept(k)
    <3>1. loop'[k] = loop[k]
      BY <2>1, <2>2 DEF TypeOK
    <3> QED
      BY <3>1, LoopFacts DEF Busy, ListKept
  <2> QED
    BY <1>2, <2>1, <2>2, ThreadStep DEF TypeOK
<1>3. ASSUME \A l \in Loops : loop'[l] \in {loop[l], Off, [pc |-> "poll"]},
             loop' \in [Loops -> LoopState]
      PROVE  \A l \in Loops : (Busy(l)' => loop'[l].list # <<>>) /\ ListKept(l)
  <2> SUFFICES ASSUME NEW l \in Loops, Busy(l)' PROVE loop'[l] = loop[l] /\ Busy(l)
    BY LoopFacts DEF ListKept
  <2> QED
    BY <1>3 DEF Busy, Off
<1>4. ASSUME NEW s \in Schedulers, NEW l \in Loops, Start(s, l)
      PROVE  /\ \A k \in Loops : loop'[k] \in {loop[k], Off, [pc |-> "poll"]}
             /\ loop' \in [Loops -> LoopState]
  BY <1>4 DEF Start, TypeOK, LoopState
<1>5. ASSUME NEW l \in Loops, LoopDies(l)
      PROVE  /\ \A k \in Loops : loop'[k] \in {loop[k], Off, [pc |-> "poll"]}
             /\ loop' \in [Loops -> LoopState]
  BY <1>5 DEF LoopDies, TypeOK, LoopState
<1>6. ASSUME NEW s \in Schedulers, ProcessEnds(s)
      PROVE  /\ \A k \in Loops : loop'[k] \in {loop[k], Off, [pc |-> "poll"]}
             /\ loop' \in [Loops -> LoopState]
  BY <1>6 DEF ProcessEnds, TypeOK, LoopState
<1>7. \/ UNCHANGED loop
      \/ \E l \in Loops : Step(l) \/ LoopDies(l)
      \/ \E s \in Schedulers : ProcessEnds(s) \/ \E l \in Loops : Start(s, l)
  BY DEF Next, vars, Request, Add, Cancel, Stop, Tick
<1> QED
  BY <1>1, <1>2, <1>3, <1>4, <1>5, <1>6, <1>7

\* The histories are counts.
LEMMA HistoryType ==
  ASSUME TypeOK, [Next]_vars
  PROVE  calls' \in [Jobs -> Nat] /\ lost' \in [Jobs -> Nat]
<1>1. calls \in [Jobs -> Nat] /\ lost \in [Jobs -> Nat]
  BY DEF TypeOK
<1>2. ASSUME NEW l \in Loops, Call(l)
      PROVE  calls' \in [Jobs -> Nat] /\ UNCHANGED lost
  <2>1. loop[l].pc = "call" /\ Head(loop[l].list) \in Jobs
    BY <1>2, LoopFacts DEF Call, Busy
  <2> QED
    BY <1>1, <1>2, <2>1 DEF Call
<1>3. ASSUME NEW l \in Loops, LoopDies(l)
      PROVE  lost' \in [Jobs -> Nat] /\ UNCHANGED calls
  BY <1>1, <1>3 DEF LoopDies
<1>4. ASSUME NEW s \in Schedulers, ProcessEnds(s)
      PROVE  lost' \in [Jobs -> Nat] /\ UNCHANGED calls
  <2>1. ASSUME NEW j \in Jobs
        PROVE  Cardinality({l \in {k \in Loops : LoopOf[k] = s} : j \in Unmarked(l)}) \in Nat
    BY LoopAssumption, FS_Subset, FS_CardinalityType
  <2> QED
    BY <1>1, <1>4, <2>1 DEF ProcessEnds
<1>5. \/ UNCHANGED <<calls, lost>>
      \/ \E l \in Loops : Call(l) \/ LoopDies(l)
      \/ \E s \in Schedulers : ProcessEnds(s)
  BY DEF Next, vars, Request, Add, Cancel, Start, Stop, Tick, Step, Exit, Poll, Allow,
         Refuse, MarkRead, MarkWrite, histories
<1> QED
  BY <1>1, <1>2, <1>3, <1>4, <1>5

LEMMA NextType == TypeOK /\ [Next]_vars => TypeOK'
<1> SUFFICES ASSUME TypeOK, [Next]_vars PROVE TypeOK'
  OBVIOUS
<1>1. jobs' \in [Jobs -> JobRow \cup {Absent}]
  BY RowStep
<1>2. now' \in 0 .. Horizon /\ failures' \in 0 .. MaxFailures
  <2>1. /\ UNCHANGED now \/ (now < Horizon /\ now' = now + 1)
        /\ UNCHANGED failures \/ (failures < MaxFailures /\ failures' = failures + 1)
    BY DEF Next, vars, Request, Add, Cancel, Start, Stop, Step, Exit, Poll, Allow, Refuse,
           Call, MarkRead, MarkWrite, LoopDies, ProcessEnds, Tick
  <2> QED
    BY <2>1, HorizonAssumption DEF TypeOK
<1>4. sched' \in [Schedulers -> [running: BOOLEAN, stop: BOOLEAN]] /\ overlap' \in BOOLEAN
  <2>1. \/ UNCHANGED <<sched, overlap>>
        \/ \E s \in Schedulers : Stop(s) \/ ProcessEnds(s) \/ \E l \in Loops : Start(s, l)
    BY DEF Next, vars, Request, Add, Cancel, Step, Exit, Poll, Allow, Refuse, Call, MarkRead,
           MarkWrite, LoopDies, Tick
  <2>2. ASSUME NEW s \in Schedulers, Stop(s) \/ ProcessEnds(s) \/ \E l \in Loops : Start(s, l)
        PROVE  sched' \in [Schedulers -> [running: BOOLEAN, stop: BOOLEAN]]
    <3>1. PICK r \in [running: BOOLEAN, stop: BOOLEAN] : sched' = [sched EXCEPT ![s] = r]
      BY <2>2 DEF Stop, ProcessEnds, Start
    <3>2. sched \in [Schedulers -> [running: BOOLEAN, stop: BOOLEAN]]
      BY DEF TypeOK
    <3> QED
      BY <3>1, <3>2
  <2>3. ASSUME NEW s \in Schedulers, Stop(s) \/ ProcessEnds(s) \/ \E l \in Loops : Start(s, l)
        PROVE  overlap' \in BOOLEAN
    <3>1. CASE UNCHANGED overlap
      BY <3>1 DEF TypeOK
    <3>2. ASSUME NEW l \in Loops, Start(s, l)
          PROVE  overlap' \in BOOLEAN
      <4>1. overlap' = (overlap \/ \E k \in Loops \ {l} : Alive(k))
        BY <3>2 DEF Start
      <4>2. CASE overlap \/ \E k \in Loops \ {l} : Alive(k)
        BY <4>1, <4>2
      <4>3. CASE ~(overlap \/ \E k \in Loops \ {l} : Alive(k))
        BY <4>1, <4>3
      <4> QED
        BY <4>2, <4>3
    <3> QED
      BY <2>3, <3>1, <3>2 DEF Stop, ProcessEnds
  <2> QED
    BY <2>1, <2>2, <2>3 DEF TypeOK
<1>3. ASSUME NEW l \in Loops, Busy(l)', NEW i \in DOMAIN loop'[l].list
      PROVE  jobs'[loop'[l].list[i]] # Absent
  <2>1. CASE loop'[l].list \in DueLists /\ UNCHANGED jobs
    <3>1. Due(loop'[l].list[i])
      BY <1>3, <2>1, DueFacts
    <3> QED
      BY <2>1, <3>1 DEF Due, Known
  <2>2. CASE Busy(l) /\ loop'[l].list = loop[l].list
    <3>1. Known(loop[l].list[i]) /\ loop[l].list[i] \in Jobs
      BY <1>3, <2>2, LoopFacts DEF TypeOK, Busy
    <3> QED
      BY <2>2, <3>1, RowStep DEF RowKept
  <2>3. CASE Busy(l) /\ Tail(loop[l].list) # <<>> /\ loop'[l].list = Tail(loop[l].list)
    <3>1. i + 1 \in DOMAIN loop[l].list /\ loop'[l].list[i] = loop[l].list[i + 1]
      BY <1>3, <2>3, LoopFacts, TailFacts
    <3>2. Known(loop[l].list[i + 1]) /\ loop[l].list[i + 1] \in Jobs
      BY <2>3, <3>1, LoopFacts DEF TypeOK, Busy
    <3> QED
      BY <3>1, <3>2, RowStep DEF RowKept
  <2> QED
    BY <1>3, <2>1, <2>2, <2>3, ListStep DEF ListKept
<1> QED
  BY <1>1, <1>2, <1>3, <1>4, ListStep, HistoryType DEF TypeOK, Busy, Known

LEMMA InitType == Init => TypeOK
<1> SUFFICES ASSUME Init PROVE TypeOK
  OBVIOUS
<1>1. \A l \in Loops : loop[l].pc = "off"
  BY DEF Init, Off
<1>2. now \in 0 .. Horizon /\ failures \in 0 .. MaxFailures
  BY HorizonAssumption DEF Init
<1>3. loop \in [Loops -> LoopState]
  BY DEF Init, LoopState
<1>4. calls \in [Jobs -> Nat] /\ lost \in [Jobs -> Nat]
  BY DEF Init
<1>5. sched \in [Schedulers -> [running: BOOLEAN, stop: BOOLEAN]] /\ overlap \in BOOLEAN
  BY DEF Init
<1>6. jobs \in [Jobs -> JobRow \cup {Absent}]
  BY DEF Init
<1> QED
  BY <1>1, <1>2, <1>3, <1>4, <1>5, <1>6 DEF TypeOK

\* The rows of scheduled_tasks are complete and a thread works through a list of
\* jobs that are there, for any number of schedulers, threads and jobs.
THEOREM TypeCorrect == Spec => []TypeOK
BY InitType, NextType, PTL DEF Spec

-----------------------------------------------------------------------------
(* A cancelled job stays cancelled.                                        *)

\* Nothing enables a job again, whatever threads still have it in their lists.
THEOREM CancelStays == Spec => CancelSticks
<1>1. TypeOK /\ [Next]_vars =>
        [\A j \in Jobs : Known(j) /\ ~jobs[j].enabled => Known(j)' /\ ~jobs'[j].enabled]_vars
  BY RowStep DEF RowKept, Known
<1> QED
  BY <1>1, TypeCorrect, PTL DEF Spec, CancelSticks

-----------------------------------------------------------------------------
(* Calls are accounted for.                                                *)

\* A thread between the handler and the end of mark_done is at a known job.
LEMMA UnmarkedFacts ==
  ASSUME TypeOK, NEW l \in Loops, NEW j, j \in Unmarked(l)
  PROVE  /\ Alive(l) /\ Busy(l) /\ loop[l].pc \in {"mark", "write"}
         /\ j = Head(loop[l].list) /\ j \in Jobs /\ Known(j)
BY LoopFacts DEF Unmarked, Alive, Busy

\* A set with no element but one.
LEMMA AtMostOne ==
  ASSUME NEW x, NEW S, S \subseteq {x}
  PROVE  Cardinality(S) = IF x \in S THEN 1 ELSE 0
<1>1. CASE x \in S
  <2>1. S = {x}
    BY <1>1
  <2> QED
    BY <1>1, <2>1, FS_Singleton
<1>2. CASE x \notin S
  <2>1. S = {}
    BY <1>2
  <2> QED
    BY <1>2, <2>1, FS_EmptySet
<1> QED
  BY <1>1, <1>2

\* Only a start makes a thread of one that was none, and it notes an overlap.
LEMMA AloneStep ==
  ASSUME TypeOK, ~overlap => Alone, [Next]_vars, ~overlap'
  PROVE  ~overlap /\ Alone'
<1>1. ASSUME NEW s \in Schedulers, NEW l \in Loops, Start(s, l)
      PROVE  ~overlap /\ Alone'
  <2>1. ~overlap /\ \A k \in Loops \ {l} : ~Alive(k)
    BY <1>1 DEF Start
  <2>2. \A k \in Loops \ {l} : loop'[k] = loop[k]
    BY <1>1 DEF Start, TypeOK
  <2> QED
    BY <2>1, <2>2 DEF Alone, Alive
<1>2. ASSUME NEW l \in Loops, Step(l) \/ LoopDies(l)
      PROVE  \A k \in Loops : Alive(k)' => Alive(k)
  <2>1. Alive(l)
    BY <1>2 DEF Alive, Step, Exit, Poll, Allow, Refuse, Call, MarkRead, MarkWrite, LoopDies
  <2>2. \A k \in Loops \ {l} : loop'[k] = loop[k]
    BY <1>2, ThreadStep DEF LoopDies, TypeOK
  <2> QED
    BY <2>1, <2>2 DEF Alive
<1>3. ASSUME NEW s \in Schedulers, ProcessEnds(s)
      PROVE  \A k \in Loops : Alive(k)' => Alive(k)
  BY <1>3 DEF ProcessEnds, TypeOK, Alive, Off
<1>4. \/ UNCHANGED <<loop, overlap>>
      \/ UNCHANGED overlap /\ \E l \in Loops : Step(l) \/ LoopDies(l)
      \/ UNCHANGED overlap /\ \E s \in Schedulers : ProcessEnds(s)
      \/ \E s \in Schedulers, l \in Loops : Start(s, l)
  BY DEF Next, vars, Request, Add, Cancel, Stop, Tick, Step, Exit, Poll, Allow, Refuse, Call,
         MarkRead, MarkWrite, LoopDies, ProcessEnds
<1>5. ASSUME UNCHANGED overlap, \A k \in Loops : Alive(k)' => Alive(k)
      PROVE  ~overlap /\ Alone'
  BY <1>5 DEF Alone
<1>6. CASE UNCHANGED <<loop, overlap>>
  BY <1>5, <1>6 DEF Alive
<1> QED
  BY <1>1, <1>2, <1>3, <1>4, <1>5, <1>6

\* Calls and losses are of known jobs.
LEMMA FreshStep ==
  ASSUME TypeOK, Fresh, [Next]_vars
  PROVE  Fresh'
<1> SUFFICES ASSUME NEW j \in Jobs, jobs'[j] = Absent
             PROVE  calls'[j] = 0 /\ lost'[j] = 0
  BY DEF Fresh, Known
<1>1. ~Known(j)
  BY RowStep DEF RowKept
<1>2. calls[j] = 0 /\ lost[j] = 0 /\ \A l \in Loops : j \notin Unmarked(l)
  BY <1>1, UnmarkedFacts DEF Fresh
<1>3. ASSUME NEW l \in Loops, Call(l)
      PROVE  calls'[j] = calls[j] /\ UNCHANGED lost
  <2>1. loop[l].pc = "call" /\ Head(loop[l].list) # j
    BY <1>1, <1>3, LoopFacts DEF Call, Busy
  <2> QED
    BY <1>3, <2>1 DEF Call, TypeOK
<1>4. ASSUME NEW l \in Loops, LoopDies(l)
      PROVE  lost'[j] = lost[j] /\ UNCHANGED calls
  BY <1>2, <1>4 DEF LoopDies
<1>5. ASSUME NEW s \in Schedulers, ProcessEnds(s)
      PROVE  lost'[j] = lost[j] /\ UNCHANGED calls
  <2>1. {l \in {k \in Loops : LoopOf[k] = s} : j \in Unmarked(l)} = {}
    BY <1>2
  <2>2. lost'[j] = lost[j] + 0
    BY <1>5, <2>1, FS_EmptySet DEF ProcessEnds
  <2> QED
    BY <1>5, <1>2, <2>2 DEF ProcessEnds
<1>6. \/ UNCHANGED <<calls, lost>>
      \/ \E l \in Loops : Call(l) \/ LoopDies(l)
      \/ \E s \in Schedulers : ProcessEnds(s)
  BY DEF Next, vars, Request, Add, Cancel, Start, Stop, Tick, Step, Exit, Poll, Allow,
         Refuse, MarkRead, MarkWrite, histories
<1> QED
  BY <1>2, <1>3, <1>4, <1>5, <1>6

\* A thread's list loses its head, and gains nothing.
LEMMA DistinctStep ==
  ASSUME TypeOK, Distinct, [Next]_vars
  PROVE  Distinct'
<1> SUFFICES ASSUME NEW l \in Loops, Busy(l)',
                    NEW a \in DOMAIN loop'[l].list, NEW b \in DOMAIN loop'[l].list,
                    loop'[l].list[a] = loop'[l].list[b]
             PROVE  a = b
  BY DEF Distinct, Busy
<1>1. CASE loop'[l].list \in DueLists
  BY <1>1, DueFacts
<1>2. CASE Busy(l) /\ loop'[l].list = loop[l].list
  BY <1>2 DEF Distinct
<1>3. CASE Busy(l) /\ loop'[l].list = Tail(loop[l].list)
  <2>1. /\ a + 1 \in DOMAIN loop[l].list /\ loop'[l].list[a] = loop[l].list[a + 1]
        /\ b + 1 \in DOMAIN loop[l].list /\ loop'[l].list[b] = loop[l].list[b + 1]
        /\ a \in Int /\ b \in Int
    BY <1>3, LoopFacts, TailFacts
  <2>2. a + 1 = b + 1
    BY <1>3, <2>1 DEF Distinct
  <2> QED
    BY <2>1, <2>2
<1> QED
  BY <1>1, <1>2, <1>3, ListStep DEF ListKept

\* Only mark_done changes the count of a job that is there.
LEMMA CountStep ==
  ASSUME TypeOK, [Next]_vars, NEW j \in Jobs, Known(j)
  PROVE  \/ jobs'[j].count = jobs[j].count
         \/ \E l \in Loops : MarkWrite(l) /\ j = Head(loop[l].list)
<1>1. ASSUME NEW k \in Jobs, Add(k)
      PROVE  jobs'[j] = jobs[j]
  BY <1>1 DEF Add, TypeOK
<1>2. ASSUME NEW k \in Jobs, jobs' = [jobs EXCEPT ![k] = Disabled(@)]
      PROVE  jobs'[j].count = jobs[j].count
  BY <1>2, RowFacts DEF TypeOK, Disabled, JobRow
<1>3. ASSUME NEW l \in Loops, Refuse(l) \/ Call(l)
      PROVE  UNCHANGED jobs \/ \E k \in Jobs : jobs' = [jobs EXCEPT ![k] = Disabled(@)]
  BY <1>3, LoopFacts DEF Refuse, Call, Busy
<1>4. ASSUME NEW l \in Loops, MarkWrite(l), j # Head(loop[l].list)
      PROVE  jobs'[j] = jobs[j]
  BY <1>4 DEF MarkWrite, TypeOK
<1>5. \/ UNCHANGED jobs
      \/ \E k \in Jobs : Add(k) \/ jobs' = [jobs EXCEPT ![k] = Disabled(@)]
      \/ \E l \in Loops : MarkWrite(l)
  BY <1>3 DEF Next, vars, Request, Step, Cancel, Start, Stop, Exit, Poll, Allow,
              MarkRead, LoopDies, ProcessEnds, Tick
<1> QED
  BY <1>1, <1>2, <1>4, <1>5

\* What mark_done makes of the row, if it has not changed since it was read.
LEMMA WriteFacts ==
  ASSUME TypeOK, ReadIsFresh, NEW l \in Loops, MarkWrite(l), NEW j, j = Head(loop[l].list)
  PROVE  /\ j \in Jobs /\ Known(j) /\ jobs'[j].count = jobs[j].count + 1
         /\ jobs'[j].limit = jobs[j].limit
         /\ jobs'[j].enabled /\ jobs[j].limit # Unlimited =>
              jobs[j].count + 1 < jobs[j].limit
<1>1. loop[l].pc = "write" /\ Busy(l) /\ j \in Jobs /\ Known(j)
  BY LoopFacts DEF MarkWrite, Busy
<1>2. jobs'[j] = Marked(l, jobs[j]) /\ jobs[j] \in JobRow
  BY <1>1, RowFacts DEF MarkWrite, TypeOK
<1>3. loop[l].count = jobs[j].count /\ loop[l].limit = jobs[j].limit
  BY <1>1 DEF ReadIsFresh
<1>4. jobs'[j].count = jobs[j].count + 1 /\ jobs'[j].limit = jobs[j].limit
  <2>1. Marked(l, jobs[j]).count = loop[l].count + 1 /\ Marked(l, jobs[j]).limit = jobs[j].limit
    BY <1>1, <1>2, MarkedFacts
  <2> QED
    BY <1>2, <1>3, <2>1
<1>5. ASSUME LastRun(l) PROVE ~jobs'[j].enabled
  <2>1. Marked(l, jobs[j]).enabled = FALSE
    BY <1>1, <1>2, <1>5, MarkedFacts
  <2> QED
    BY <1>2, <2>1
<1>6. ASSUME ~LastRun(l), jobs[j].limit # Unlimited
      PROVE  jobs[j].count + 1 < jobs[j].limit
  <2>1. jobs[j].count \in Nat /\ jobs[j].limit \in Nat
    BY <1>2, <1>6, LimitAssumption DEF JobRow
  <2>2. ~(jobs[j].count + 1 >= jobs[j].limit)
    BY <1>3, <1>6 DEF LastRun
  <2> QED
    BY <2>1, <2>2
<1> QED
  BY <1>1, <1>4, <1>5, <1>6

\* What one thread has read stays so until it writes, if it is alone.
LEMMA ReadStep ==
  ASSUME TypeOK, Alone, ReadIsFresh, [Next]_vars
  PROVE  ReadIsFresh'
<1> SUFFICES ASSUME NEW l \in Loops, loop'[l].pc = "write"
             PROVE  LET row == jobs'[Head(loop'[l].list)]
                    IN loop'[l].count = row.count /\ loop'[l].limit = row.limit
  BY DEF ReadIsFresh
<1>1. CASE MarkRead(l)
  BY <1>1 DEF MarkRead, TypeOK
<1>2. CASE loop'[l] = loop[l]
  <2> DEFINE j == Head(loop[l].list)
  <2>1. loop[l].pc = "write" /\ j \in Jobs /\ Known(j)
    BY <1>2, LoopFacts DEF Busy
  <2>2. jobs'[j].limit = jobs[j].limit
    BY <2>1, RowStep DEF RowKept
  <2>3. ASSUME NEW k \in Loops, MarkWrite(k)
        PROVE  FALSE
    <3>1. k = l
      BY <2>1, <2>3 DEF MarkWrite, Alone, Alive
    <3>2. loop'[l] = Advance(loop[l].list) /\ loop[l].list \in Seq(Jobs) /\ loop[l].list # <<>>
      BY <2>1, <2>3, <3>1, LoopFacts DEF MarkWrite, TypeOK, Busy
    <3> QED
      BY <3>2, AdvanceFacts
  <2>4. jobs'[j].count = jobs[j].count
    BY <2>1, <2>3, CountStep
  <2> QED
    BY <1>2, <2>1, <2>2, <2>4 DEF ReadIsFresh
<1>3. ASSUME NEW k \in Loops, Step(k), k # l
      PROVE  loop'[l] = loop[l]
  BY <1>3, ThreadStep DEF TypeOK
<1>4. CASE Step(l)
  <2>1. ASSUME loop[l].pc \in {"check", "write"}, loop' = [loop EXCEPT ![l] = Advance(@.list)]
        PROVE  FALSE
    <3>1. loop'[l] = Advance(loop[l].list) /\ loop[l].list \in Seq(Jobs) /\ loop[l].list # <<>>
      BY <2>1, LoopFacts DEF TypeOK, Busy
    <3> QED
      BY <3>1, AdvanceFacts
  <2>2. ASSUME NEW pc \in {"call", "mark"}, loop' = [loop EXCEPT ![l].pc = pc],
               loop[l].pc \in {"check", "call"}
        PROVE  FALSE
    BY <2>2, LoopFacts DEF TypeOK, LoopState, Off
  <2> QED
    BY <1>1, <1>4, <2>1, <2>2
    DEF Step, Exit, Poll, Allow, Refuse, Call, MarkWrite, At, Off, TypeOK
<1>5. ASSUME \A k \in Loops : loop'[k] \in {loop[k], Off, [pc |-> "poll"]}
      PROVE  loop'[l] = loop[l]
  BY <1>5 DEF Off
<1>6. \/ UNCHANGED loop
      \/ \E k \in Loops : Step(k)
      \/ \A k \in Loops : loop'[k] \in {loop[k], Off, [pc |-> "poll"]}
  <2>1. ASSUME NEW s \in Schedulers, NEW k \in Loops, Start(s, k) \/ LoopDies(k)
        PROVE  \A m \in Loops : loop'[m] \in {loop[m], Off, [pc |-> "poll"]}
    BY <2>1 DEF Start, LoopDies, TypeOK
  <2>2. ASSUME NEW k \in Loops, LoopDies(k)
        PROVE  \A m \in Loops : loop'[m] \in {loop[m], Off, [pc |-> "poll"]}
    BY <2>2 DEF LoopDies, TypeOK
  <2>3. ASSUME NEW s \in Schedulers, ProcessEnds(s)
        PROVE  \A m \in Loops : loop'[m] \in {loop[m], Off, [pc |-> "poll"]}
    BY <2>3 DEF ProcessEnds, TypeOK
  <2> QED
    BY <2>1, <2>2, <2>3 DEF Next, vars, Request, Add, Cancel, Stop, Tick
<1> QED
  BY <1>2, <1>3, <1>4, <1>5, <1>6

\* A job in a list, or enabled, has a run left; a run is taken from one that had.
LEMMA RunsStep ==
  ASSUME TypeOK, Distinct, Alone, ReadIsFresh, EnabledHasRun, ListedHasRun, CountWithin,
         [Next]_vars
  PROVE  EnabledHasRun' /\ ListedHasRun' /\ CountWithin'
<1>1. ASSUME NEW j \in Jobs, Known(j)
      PROVE  /\ jobs[j].count \in Nat
             /\ jobs[j].limit # Unlimited => jobs[j].limit \in Nat /\ Allowed(jobs[j]) \in Nat
             /\ jobs'[j].limit = jobs[j].limit
  <2>1. jobs[j] \in JobRow /\ jobs'[j].limit = jobs[j].limit
    BY <1>1, RowFacts, RowStep DEF RowKept
  <2>2. jobs[j].count \in Nat /\ jobs[j].limit \in Limits \cup {Unlimited}
    BY <2>1 DEF JobRow
  <2> QED
    BY <2>1, <2>2, LimitAssumption DEF Allowed
<1>2. ASSUME NEW j \in Jobs, Known(j), jobs'[j].count = jobs[j].count
      PROVE  /\ RunLeft(j) => RunLeft(j)'
             /\ jobs'[j].count =< Allowed(jobs'[j]) <=> jobs[j].count =< Allowed(jobs[j])
  BY <1>1, <1>2 DEF RunLeft, Allowed
<1>3. ASSUME NEW l \in Loops, MarkWrite(l)
      PROVE  LET j == Head(loop[l].list) IN
             /\ jobs'[j].enabled =>
                  (jobs'[j].limit # Unlimited => jobs'[j].count < Allowed(jobs'[j]))
             /\ jobs[j].limit # Unlimited => jobs'[j].count =< Allowed(jobs'[j])
  <2> DEFINE j == Head(loop[l].list)
  <2>1. /\ j \in Jobs /\ Known(j) /\ jobs'[j].count = jobs[j].count + 1
        /\ jobs'[j].limit = jobs[j].limit
        /\ jobs'[j].enabled /\ jobs[j].limit # Unlimited => jobs[j].count + 1 < jobs[j].limit
    BY <1>3, WriteFacts
  <2>2. RunLeft(j)
    <3>1. Busy(l) /\ 1 \in DOMAIN loop[l].list /\ j = loop[l].list[1]
      BY <1>3, LoopFacts DEF MarkWrite, Busy
    <3> QED
      BY <3>1 DEF ListedHasRun
  <2>3. jobs'[j].enabled => (jobs'[j].limit # Unlimited => jobs'[j].count < Allowed(jobs'[j]))
    BY <1>1, <2>1 DEF Allowed
  <2>4. jobs[j].limit # Unlimited => jobs'[j].count =< Allowed(jobs'[j])
    BY <1>1, <2>1, <2>2 DEF RunLeft, Allowed
  <2> QED
    BY <2>3, <2>4
<1>4. ASSUME NEW j \in Jobs, ~Known(j), jobs'[j] # Absent
      PROVE  RunLeft(j)' /\ (jobs'[j].limit # Unlimited => jobs'[j].count =< Allowed(jobs'[j]))
  <2>1. jobs'[j] \in JobRow /\ jobs'[j].count = 0
    BY <1>4, RowStep DEF RowKept, Known
  <2>2. jobs'[j].limit # Unlimited => jobs'[j].limit \in Nat
    BY <2>1, LimitAssumption DEF JobRow
  <2> QED
    BY <2>1, <2>2 DEF RunLeft, Allowed
<1>5. EnabledHasRun'
  <2> SUFFICES ASSUME NEW j \in Jobs, jobs'[j] # Absent, jobs'[j].enabled
               PROVE  RunLeft(j)'
    BY DEF EnabledHasRun, Known
  <2>1. CASE ~Known(j)
    BY <1>4, <2>1
  <2>2. CASE Known(j) /\ jobs'[j].count = jobs[j].count
    <3>1. jobs[j].enabled
      BY <2>2, RowStep DEF RowKept
    <3> QED
      BY <1>2, <2>2, <3>1 DEF EnabledHasRun
  <2> QED
    BY <1>3, <2>1, <2>2, CountStep DEF RunLeft
<1>6. CountWithin'
  <2> SUFFICES ASSUME NEW j \in Jobs, jobs'[j] # Absent, jobs'[j].limit # Unlimited
               PROVE  jobs'[j].count =< Allowed(jobs'[j])
    BY DEF CountWithin, Known
  <2>1. CASE ~Known(j)
    BY <1>4, <2>1
  <2>2. CASE Known(j)
    <3>1. jobs[j].limit # Unlimited
      BY <1>1, <2>2
    <3> QED
      BY <1>2, <1>3, <2>2, <3>1, CountStep DEF CountWithin
  <2> QED
    BY <2>1, <2>2
<1>7. ASSUME NEW l \in Loops, Busy(l)', NEW i \in DOMAIN loop'[l].list
      PROVE  LET j == loop'[l].list[i] IN
             jobs'[j].limit # Unlimited => jobs'[j].count < Allowed(jobs'[j])
  <2> DEFINE j == loop'[l].list[i]
  <2>1. CASE loop'[l].list \in DueLists /\ UNCHANGED jobs
    <3>1. j \in Jobs /\ Due(j)
      BY <1>7, <2>1, DueFacts
    <3>2. RunLeft(j)
      BY <3>1 DEF Due, EnabledHasRun
    <3> QED
      BY <2>1, <3>2 DEF RunLeft
  <2>2. ASSUME Busy(l), NEW a \in DOMAIN loop[l].list, j = loop[l].list[a],
               MarkWrite(l) => a # 1
        PROVE  jobs'[j].limit # Unlimited => jobs'[j].count < Allowed(jobs'[j])
    <3>1. RunLeft(j) /\ Known(j) /\ j \in Jobs
      BY <2>2, LoopFacts DEF ListedHasRun, TypeOK, Busy
    <3>2. ASSUME NEW k \in Loops, MarkWrite(k)
          PROVE  j # Head(loop[k].list)
      <4>1. k = l
        BY <2>2, <3>2 DEF Alone, Alive, MarkWrite, Busy
      <4>2. Head(loop[l].list) = loop[l].list[1] /\ 1 \in DOMAIN loop[l].list
        BY <2>2, LoopFacts
      <4> QED
        BY <2>2, <3>2, <4>1, <4>2 DEF Distinct
    <3>3. jobs'[j].count = jobs[j].count
      BY <3>1, <3>2, CountStep
    <3> HIDE DEF j
    <3> QED
      BY <1>1, <3>1, <3>3 DEF RunLeft, Allowed
  <2>3. CASE Busy(l) /\ Tail(loop[l].list) # <<>> /\ loop'[l].list = Tail(loop[l].list)
    <3>1. i + 1 \in DOMAIN loop[l].list /\ j = loop[l].list[i + 1] /\ i + 1 # 1
      BY <1>7, <2>3, LoopFacts, TailFacts
    <3> QED
      BY <2>2, <2>3, <3>1
  <2>4. CASE Busy(l) /\ loop'[l].list = loop[l].list /\ ~MarkWrite(l)
    BY <1>7, <2>2, <2>4
  <2>5. CASE MarkWrite(l)
    <3>1. loop'[l] = Advance(loop[l].list) /\ loop[l].list \in Seq(Jobs) /\ loop[l].list # <<>>
      BY <2>5, LoopFacts DEF MarkWrite, TypeOK, Busy
    <3>2. loop'[l].list = Tail(loop[l].list) /\ Tail(loop[l].list) # <<>>
      BY <1>7, <3>1, AdvanceFacts DEF Busy
    <3> QED
      BY <2>3, <2>5, <3>2 DEF MarkWrite, Busy
  <2> QED
    BY <1>7, <2>1, <2>3, <2>4, <2>5, ListStep DEF ListKept
<1>8. ListedHasRun'
  BY <1>7 DEF ListedHasRun, RunLeft, Busy
<1> QED
  BY <1>5, <1>6, <1>8

InProgress(j) == Cardinality({l \in Loops : j \in Unmarked(l)})

\* With one thread alive, the calls in progress are that thread's.
LEMMA SoleProgress ==
  ASSUME TypeOK, NEW l \in Loops, \A k \in Loops : Alive(k) => k = l, NEW j
  PROVE  InProgress(j) = IF j \in Unmarked(l) THEN 1 ELSE 0
<1>1. {k \in Loops : j \in Unmarked(k)} \subseteq {l}
  BY UnmarkedFacts
<1>2. l \in {k \in Loops : j \in Unmarked(k)} <=> j \in Unmarked(l)
  OBVIOUS
<1> QED
  BY <1>1, <1>2, AtMostOne DEF InProgress

\* What one step of a thread does to the account of a job.
LEMMA StepAccounts ==
  ASSUME TypeOK, ReadIsFresh, NEW l \in Loops, Step(l), NEW j \in Jobs, Known(j)
  PROVE  /\ UNCHANGED lost
         /\ \/ /\ jobs'[j].count = jobs[j].count /\ calls'[j] = calls[j]
               /\ Unmarked(l)' = Unmarked(l) \/ (j \notin Unmarked(l) /\ j \notin Unmarked(l)')
            \/ /\ jobs'[j].count = jobs[j].count /\ calls'[j] = calls[j] + 1
               /\ j \notin Unmarked(l) /\ j \in Unmarked(l)'
            \/ /\ jobs'[j].count = jobs[j].count + 1 /\ calls'[j] = calls[j]
               /\ j \in Unmarked(l) /\ j \notin Unmarked(l)'
<1> DEFINE h == Head(loop[l].list)
<1>1. jobs[j] \in JobRow /\ Disabled(jobs[j]).count = jobs[j].count
  BY RowFacts DEF Disabled, JobRow
<1>2. CASE Exit(l)
  BY <1>2 DEF Exit, TypeOK, Unmarked, Off, histories
<1>3. CASE Poll(l)
  BY <1>3 DEF Poll, TypeOK, Unmarked, At, histories
<1>4. CASE Allow(l)
  <2>1. loop'[l].pc = "call" /\ loop[l].pc = "check"
    BY <1>4, LoopFacts DEF Allow, TypeOK, LoopState, Off
  <2> QED
    BY <1>4, <2>1 DEF Allow, Unmarked, histories
<1>5. CASE Refuse(l)
  <2>1. loop'[l].pc \in {"poll", "check"} /\ loop[l].pc = "check"
    BY <1>5, LoopFacts, AdvanceFacts DEF Refuse, TypeOK, Busy
  <2>2. jobs'[j].count = jobs[j].count
    BY <1>1, <1>5 DEF Refuse, TypeOK
  <2> QED
    BY <1>5, <2>1, <2>2 DEF Refuse, Unmarked, histories
<1>6. CASE Call(l)
  <2>1. loop[l].pc = "call" /\ h \in Jobs
    BY <1>6, LoopFacts DEF Call, Busy
  <2>2. loop[l] \in [pc: {"check", "call", "mark"}, list: Seq(Jobs)]
    BY <2>1, LoopFacts DEF LoopState, Off
  <2>3. loop'[l] = [loop[l] EXCEPT !.pc = "mark"]
    BY <1>6 DEF Call, TypeOK
  <2>4. Unmarked(l) = {} /\ Unmarked(l)' = {h}
    BY <2>1, <2>2, <2>3 DEF Unmarked
  <2>5. jobs'[j].count = jobs[j].count
    BY <1>1, <1>6 DEF Call, TypeOK
  <2>6. calls'[j] = IF j = h THEN calls[j] + 1 ELSE calls[j]
    BY <1>6, <2>1 DEF Call, TypeOK
  <2> QED
    BY <1>6, <2>4, <2>5, <2>6 DEF Call
<1>7. CASE MarkRead(l)
  <2>1. loop[l].pc = "mark" /\ loop'[l].pc = "write" /\ loop'[l].list = loop[l].list
    BY <1>7 DEF MarkRead, TypeOK
  <2>2. Unmarked(l)' = Unmarked(l)
    BY <2>1 DEF Unmarked
  <2> QED
    BY <1>7, <2>2 DEF MarkRead, histories
<1>8. CASE MarkWrite(l)
  <2>1. loop[l].pc = "write" /\ loop'[l].pc \in {"poll", "check"}
    BY <1>8, LoopFacts, AdvanceFacts DEF MarkWrite, TypeOK, Busy
  <2>2. Unmarked(l) = {h} /\ Unmarked(l)' = {}
    BY <2>1 DEF Unmarked
  <2>3. CASE j = h
    <3>1. jobs'[j].count = jobs[j].count + 1
      BY <1>8, <2>3, WriteFacts
    <3> QED
      BY <1>8, <2>2, <2>3, <3>1 DEF MarkWrite, histories
  <2>4. CASE j # h
    <3>1. jobs'[j] = jobs[j]
      BY <1>8, <2>4 DEF MarkWrite, TypeOK
    <3> QED
      BY <1>8, <2>2, <2>4, <3>1 DEF MarkWrite, histories
  <2> QED
    BY <2>3, <2>4
<1> QED
  BY <1>2, <1>3, <1>4, <1>5, <1>6, <1>7, <1>8 DEF Step

Account(j) == calls[j] = jobs[j].count + lost[j] + InProgress(j)

\* Each step keeps the account of each job that was there.
LEMMA AccountStep ==
  ASSUME TypeOK, Alone, ReadIsFresh, [Next]_vars, ~overlap',
         NEW j \in Jobs, Known(j), Account(j)
  PROVE  Account(j)'
<1> DEFINE Counted(s) == {l \in {k \in Loops : LoopOf[k] = s} : j \in Unmarked(l)}
<1>1. /\ calls[j] \in Nat /\ lost[j] \in Nat
      /\ jobs[j].count \in Nat /\ jobs[j] \in JobRow
  BY RowFacts DEF TypeOK, JobRow
<1>2. ASSUME UNCHANGED loop
      PROVE  InProgress(j)' = InProgress(j)
  BY <1>2 DEF InProgress, Unmarked
<1>3. CASE UNCHANGED <<loop, calls, lost>>
  <2>1. jobs'[j].count = jobs[j].count
    <3>1. ASSUME NEW l \in Loops, MarkWrite(l)
          PROVE  FALSE
      <4>1. loop'[l] = Advance(loop[l].list) /\ loop[l].list \in Seq(Jobs)
            /\ loop[l].list # <<>> /\ loop[l].pc = "write"
        BY <3>1, LoopFacts DEF MarkWrite, TypeOK, Busy
      <4> QED
        BY <1>3, <4>1, AdvanceFacts
    <3> QED
      BY <3>1, CountStep
  <2> QED
    BY <1>2, <1>3, <2>1 DEF Account
<1>4. ASSUME NEW l \in Loops, Step(l)
      PROVE  Account(j)'
  <2>1. Alive(l)
    BY <1>4 DEF Alive, Step, Exit, Poll, Allow, Refuse, Call, MarkRead, MarkWrite
  <2>2. InProgress(j) = IF j \in Unmarked(l) THEN 1 ELSE 0
    BY <2>1, SoleProgress DEF Alone
  <2>3. \A k \in Loops : k # l => loop'[k] = loop[k]
    BY <1>4, ThreadStep DEF TypeOK
  <2>4. \A k \in Loops : Alive(k)' => k = l
    BY <2>1, <2>3 DEF Alone, Alive
  <2>5. InProgress(j)' = IF j \in Unmarked(l)' THEN 1 ELSE 0
    <3>1. {k \in Loops : j \in Unmarked(k)'} \subseteq {l}
      BY <2>4 DEF Unmarked, Alive
    <3>2. l \in {k \in Loops : j \in Unmarked(k)'} <=> j \in Unmarked(l)'
      OBVIOUS
    <3>3. InProgress(j)' = Cardinality({k \in Loops : j \in Unmarked(k)'})
      BY DEF InProgress
    <3> QED
      BY <3>1, <3>2, <3>3, AtMostOne
  <2> QED
    BY <1>1, <1>4, <2>2, <2>5, StepAccounts DEF Account
<1>5. ASSUME NEW s \in Schedulers, NEW l \in Loops, Start(s, l)
      PROVE  Account(j)'
  <2>1. \A k \in Loops : Unmarked(k)' = Unmarked(k)
    BY <1>5 DEF Start, TypeOK, Alive, Unmarked
  <2>2. InProgress(j)' = InProgress(j)
    BY <2>1 DEF InProgress
  <2> QED
    BY <1>5, <2>2 DEF Start, Account, histories
<1>6. ASSUME NEW l \in Loops, LoopDies(l)
      PROVE  Account(j)'
  <2>1. InProgress(j) = IF j \in Unmarked(l) THEN 1 ELSE 0
    BY <1>6, SoleProgress DEF Alone, LoopDies
  <2>2. \A k \in Loops : j \notin Unmarked(k)'
    <3>1. \A k \in Loops : loop'[k].pc = "off"
      BY <1>6 DEF LoopDies, Alone, Alive, TypeOK, Off
    <3> QED
      BY <3>1 DEF Unmarked
  <2>3. InProgress(j)' = 0
    <3>1. {k \in Loops : j \in Unmarked(k)'} = {}
      BY <2>2
    <3> QED
      BY <3>1, FS_EmptySet DEF InProgress
  <2>4. lost'[j] = IF j \in Unmarked(l) THEN lost[j] + 1 ELSE lost[j]
    BY <1>6 DEF LoopDies
  <2> QED
    BY <1>1, <1>6, <2>1, <2>3, <2>4 DEF LoopDies, Account
<1>7. ASSUME NEW s \in Schedulers, ProcessEnds(s)
      PROVE  Account(j)'
  <2>1. lost'[j] = lost[j] + Cardinality(Counted(s)) /\ UNCHANGED <<jobs, calls>>
    BY <1>7 DEF ProcessEnds
  <2>2. \A k \in Loops : loop'[k] = IF LoopOf[k] = s THEN Off ELSE loop[k]
    BY <1>7 DEF ProcessEnds
  <2>3. \A k \in Loops : j \in Unmarked(k)' <=> j \in Unmarked(k) /\ LoopOf[k] # s
    BY <2>2 DEF Unmarked, Off
  <2>4. CASE \E l \in Loops : j \in Unmarked(l)
    <3>1. PICK l \in Loops : j \in Unmarked(l)
      BY <2>4
    <3>2. \A k \in Loops : j \in Unmarked(k) => k = l
      BY <3>1, UnmarkedFacts DEF Alone
    <3>3. InProgress(j) = 1
      <4>1. {k \in Loops : j \in Unmarked(k)} = {l}
        BY <3>1, <3>2
      <4> QED
        BY <4>1, FS_Singleton DEF InProgress
    <3>4. Cardinality(Counted(s)) = IF LoopOf[l] = s THEN 1 ELSE 0
      BY <3>1, <3>2, AtMostOne
    <3>5. InProgress(j)' = IF LoopOf[l] = s THEN 0 ELSE 1
      <4>1. {k \in Loops : j \in Unmarked(k)'} = IF LoopOf[l] = s THEN {} ELSE {l}
        BY <2>3, <3>1, <3>2
      <4> QED
        BY <4>1, FS_EmptySet, FS_Singleton DEF InProgress
    <3> QED
      BY <1>1, <2>1, <3>3, <3>4, <3>5 DEF Account
  <2>5. CASE \A l \in Loops : j \notin Unmarked(l)
    <3>1. Counted(s) = {} /\ {k \in Loops : j \in Unmarked(k)} = {}
          /\ {k \in Loops : j \in Unmarked(k)'} = {}
      BY <2>3, <2>5
    <3>2. Cardinality(Counted(s)) = 0 /\ InProgress(j) = 0 /\ InProgress(j)' = 0
      BY <3>1, FS_EmptySet DEF InProgress
    <3> QED
      BY <1>1, <2>1, <3>2 DEF Account
  <2> QED
    BY <2>4, <2>5
<1>8. \/ UNCHANGED <<loop, calls, lost>>
      \/ \E l \in Loops : Step(l) \/ LoopDies(l)
      \/ \E s \in Schedulers : ProcessEnds(s) \/ \E l \in Loops : Start(s, l)
  BY DEF Next, vars, Request, Add, Cancel, Stop, Tick, histories
<1> QED
  BY <1>3, <1>4, <1>5, <1>6, <1>7, <1>8

\* A new job has no calls, none lost and none in progress.
LEMMA NewAccount ==
  ASSUME TypeOK, Fresh, [Next]_vars, NEW j \in Jobs, ~Known(j), jobs'[j] # Absent
  PROVE  Account(j)'
<1>1. jobs' # jobs /\ jobs'[j].count = 0
  BY RowStep DEF RowKept, Known
<1>2. UNCHANGED <<loop, calls, lost>>
  <2>1. ASSUME NEW k \in Jobs, jobs' = [jobs EXCEPT ![k] = jobs'[k]], Known(k)
        PROVE  FALSE
    BY <2>1 DEF Known, TypeOK
  <2>2. ASSUME NEW l \in Loops, Refuse(l) \/ Call(l) \/ MarkWrite(l)
        PROVE  FALSE
    <3>1. Head(loop[l].list) \in Jobs /\ Known(Head(loop[l].list))
      BY <2>2, LoopFacts DEF Refuse, Call, MarkWrite, Busy
    <3>2. jobs' = [jobs EXCEPT ![Head(loop[l].list)] = jobs'[Head(loop[l].list)]]
      BY <2>2, <3>1 DEF Refuse, Call, MarkWrite, TypeOK
    <3> QED
      BY <2>1, <3>1, <3>2
  <2>3. \A k \in Jobs : ~Cancel(k)
    BY <2>1 DEF Cancel, TypeOK
  <2>4. \E k \in Jobs : Add(k)
    BY <1>1, <2>2, <2>3 DEF Next, vars, Request, Start, Stop, Step, Exit, Poll, Allow, MarkRead,
                            LoopDies, ProcessEnds, Tick
  <2> QED
    BY <2>4 DEF Add, histories
<1>3. calls[j] = 0 /\ lost[j] = 0
  BY DEF Fresh
<1>4. InProgress(j)' = 0
  <2>1. {l \in Loops : j \in Unmarked(l)'} = {}
    BY <1>2, UnmarkedFacts DEF Unmarked
  <2> QED
    BY <2>1, FS_EmptySet DEF InProgress
<1> QED
  BY <1>1, <1>2, <1>3, <1>4 DEF Account

LEMMA InductiveStep == Inductive /\ [Next]_vars => Inductive'
<1> SUFFICES ASSUME Inductive, [Next]_vars PROVE Inductive'
  OBVIOUS
<1>1. TypeOK' /\ Fresh' /\ Distinct'
  BY NextType, FreshStep, DistinctStep DEF Inductive
<1>2. ASSUME ~overlap'
      PROVE  /\ Alone' /\ ReadIsFresh' /\ EnabledHasRun' /\ ListedHasRun'
             /\ CountWithin' /\ CallsAccounted'
  <2>1. ~overlap /\ Alone'
    BY <1>2, AloneStep DEF Inductive
  <2>2. /\ Alone /\ ReadIsFresh /\ EnabledHasRun /\ ListedHasRun
        /\ CountWithin /\ CallsAccounted
    BY <2>1 DEF Inductive
  <2>3. ReadIsFresh'
    BY <2>2, ReadStep DEF Inductive
  <2>4. EnabledHasRun' /\ ListedHasRun' /\ CountWithin'
    BY <2>2, RunsStep DEF Inductive
  <2>5. ASSUME NEW j \in Jobs, jobs'[j] # Absent
        PROVE  Account(j)'
    <3>1. CASE Known(j)
      <4>1. Account(j)
        BY <2>1, <2>2, <3>1 DEF CallsAccounted, Account, InProgress
      <4> QED
        BY <1>2, <2>2, <3>1, <4>1, AccountStep DEF Inductive
    <3>2. CASE ~Known(j)
      BY <2>5, <3>2, NewAccount DEF Inductive
    <3> QED
      BY <3>1, <3>2
  <2>6. CallsAccounted'
    BY <2>5 DEF CallsAccounted, Account, InProgress, Known
  <2> QED
    BY <2>1, <2>3, <2>4, <2>6
<1> QED
  BY <1>1, <1>2 DEF Inductive

LEMMA InitInductive == Init => Inductive
<1> SUFFICES ASSUME Init PROVE Inductive
  OBVIOUS
<1>1. /\ \A l \in Loops : loop[l].pc = "off"
      /\ \A j \in Jobs : ~Known(j) /\ calls[j] = 0 /\ lost[j] = 0
  BY DEF Init, Off, Known
<1>2. Fresh /\ Distinct
  BY <1>1 DEF Fresh, Distinct, Busy
<1>3. Alone /\ ReadIsFresh
  BY <1>1 DEF Alone, ReadIsFresh, Alive
<1>4. EnabledHasRun /\ ListedHasRun /\ CountWithin /\ CallsAccounted
  BY <1>1 DEF EnabledHasRun, ListedHasRun, CountWithin, CallsAccounted, Busy
<1> QED
  BY <1>2, <1>3, <1>4, InitType DEF Inductive

LEMMA AlwaysInductive == Spec => []Inductive
BY InitInductive, InductiveStep, PTL DEF Spec

\* Until two threads have been alive at once, run_count is the number of calls,
\* but for those lost with their thread and the one in progress: no sequence of
\* starts, stops, failures and cancellations records a call twice or forgets one.
THEOREM CallsAreAccounted == Spec => []CallsAccounted
<1>1. Inductive => CallsAccounted
  BY DEF Inductive, CallsAccounted
<1> QED
  BY <1>1, AlwaysInductive, PTL

\* ... and no job is called more often than max_runs, but for the lost calls: a job
\* that mark_done has ended is in no list any more.
THEOREM LimitIsHeld == Spec => []LimitHeld
<1>1. Inductive => LimitHeld
  <2> SUFFICES ASSUME Inductive, ~overlap,
                      NEW j \in Jobs, Known(j), jobs[j].limit # Unlimited
               PROVE  calls[j] =< lost[j] + Allowed(jobs[j])
    BY DEF LimitHeld, Allowed
  <2>1. TypeOK /\ Alone /\ ListedHasRun /\ CountWithin /\ Account(j)
    BY DEF Inductive, CallsAccounted, Account, InProgress
  <2>2. /\ calls[j] \in Nat /\ lost[j] \in Nat
        /\ jobs[j].count \in Nat /\ Allowed(jobs[j]) \in Nat
    BY <2>1, RowFacts, LimitAssumption DEF TypeOK, JobRow, Allowed
  <2>3. CASE \E l \in Loops : j \in Unmarked(l)
    <3>1. PICK l \in Loops : j \in Unmarked(l)
      BY <2>3
    <3>2. Busy(l) /\ Alive(l) /\ j = loop[l].list[1] /\ 1 \in DOMAIN loop[l].list
      BY <2>1, <3>1, UnmarkedFacts, LoopFacts
    <3>3. InProgress(j) = 1
      BY <2>1, <3>1, <3>2, SoleProgress DEF Alone
    <3>4. jobs[j].count < Allowed(jobs[j])
      BY <2>1, <3>2 DEF ListedHasRun, RunLeft
    <3> QED
      BY <2>1, <2>2, <3>3, <3>4 DEF Account
  <2>4. CASE \A l \in Loops : j \notin Unmarked(l)
    <3>1. {l \in Loops : j \in Unmarked(l)} = {}
      BY <2>4
    <3>2. InProgress(j) = 0
      BY <3>1, FS_EmptySet DEF InProgress
    <3>3. jobs[j].count =< Allowed(jobs[j])
      BY <2>1 DEF CountWithin
    <3> QED
      BY <2>1, <2>2, <3>2, <3>3 DEF Account
  <2> QED
    BY <2>3, <2>4
<1> QED
  BY <1>1, AlwaysInductive, PTL
=============================================================================
