---------------------- MODULE ApprovedExecutionProofs ----------------------
(***************************************************************************)
(* Proofs about ApprovedExecution, for any number of threads, tasks and    *)
(* approvals: the type invariant, the exclusiveness of a claim, and that   *)
(* the requests implement the one-shot approval.                           *)
(***************************************************************************)
EXTENDS ApprovedExecution, FiniteSetTheorems, TLAPS

\* A thread inside a request serves a task.
Serving == \A c \in Threads : req[c] # Idle => req[c].task \in Tasks

\* What a request carries is well-formed, and so is its next stage.
LEMMA BeginType ==
  ASSUME TypeOK, NEW c \in Threads, NEW t \in Tasks, NEW a \in Approvals \cup {None},
         NEW pc \in {"issue", "consume", "mark"}, Begin(c, pc, t, a)
  PROVE  req' \in [Threads -> Request]
BY DEF Begin, Request, TypeOK

LEMMA GoToType ==
  ASSUME TypeOK, NEW c \in Threads, GoTo(c, "mark") \/ GoTo(c, "mark_again")
           \/ GoTo(c, "check") \/ GoTo(c, "claim") \/ GoTo(c, "route")
           \/ GoTo(c, "conclude") \/ GoTo(c, "deny")
  PROVE  req' \in [Threads -> Request]
<1>1. ASSUME NEW pc \in {"mark", "mark_again", "check", "claim", "route",
                         "conclude", "deny"}
      PROVE  [req[c] EXCEPT !.pc = pc, !.since = now] \in Request
  BY DEF Request, TypeOK
<1> QED
  BY <1>1 DEF GoTo, TypeOK

LEMMA AnswerType ==
  ASSUME TypeOK, NEW c \in Threads, Answer(c)
  PROVE  req' \in [Threads -> Request]
BY TimeAssumption DEF Answer, Idle, Request, Time, TypeOK

LEMMA InitType == Init => TypeOK
BY TimeAssumption
   DEF Init, TypeOK, Time, Status, ApprovalRow, Idle, Request

LEMMA AcceptType ==
  ASSUME TypeOK, NEW c \in Threads, Accept(c)
  PROVE  TypeOK'
<1>1. ASSUME NEW t \in Tasks, Submit(c, t)
      PROVE  TypeOK'
  BY <1>1, BeginType DEF Submit, SetStatus, Status, TypeOK
<1>2. ASSUME NEW t \in Tasks, ApproveRead(c, t)
      PROVE  TypeOK'
  BY <1>2, BeginType DEF ApproveRead, TypeOK
<1>3. ASSUME NEW t \in Tasks, NEW a \in Approvals, ResumeRead(c, t, a)
      PROVE  TypeOK'
  BY <1>3, BeginType DEF ResumeRead, TypeOK
<1>4. ASSUME NEW t \in Tasks, ResumeByCommand(c, t)
      PROVE  TypeOK'
  BY <1>4, BeginType DEF ResumeByCommand, TypeOK
<1>5. ASSUME NEW t \in Tasks, Cancel(c, t)
      PROVE  TypeOK'
  BY <1>5 DEF Cancel, SetStatus, Status, TypeOK
<1> QED
  BY <1>1, <1>2, <1>3, <1>4, <1>5 DEF Accept

LEMMA ServeType ==
  ASSUME TypeOK, Serving, NEW c \in Threads, Serve(c)
  PROVE  TypeOK'
<1> USE DEF Status
<1>1. CASE Issue(c)
  <2>1. ASSUME NEW at \in req[c].since .. now PROVE at + TTL \in Nat
    BY TimeAssumption DEF Request, Time, TypeOK
  <2>2. req[c] \in Request
    BY DEF TypeOK
  <2>3. approvals' \in [Approvals -> ApprovalRow]
    BY <1>1, <2>1, <2>2 DEF Issue, ApprovalRow, Request, TypeOK
  <2> QED
    BY <1>1, <2>3, AnswerType DEF Issue, TypeOK
<1>2. CASE Refuse(c)
  BY <1>2, AnswerType DEF Refuse, TypeOK
<1>3. CASE Consume(c)
  <2>1. approvals' \in [Approvals -> ApprovalRow]
    BY <1>3 DEF Consume, ApprovalRow, TypeOK
  <2>2. GoTo(c, "mark") \/ Answer(c)
    BY <1>3 DEF Consume
  <2> QED
    BY <1>3, <2>1, <2>2, GoToType, AnswerType DEF Consume, TypeOK
<1>4. CASE MarkRunning(c)
  <2>1. GoTo(c, "mark_again") \/ GoTo(c, "check")
    BY <1>4 DEF MarkRunning
  <2> QED
    BY <1>4, <2>1, GoToType DEF MarkRunning, SetStatus, TypeOK
<1>5. CASE Invalid(c)
  BY <1>5, GoToType DEF Invalid, TypeOK
<1>6. CASE CheckApproval(c)
  <2>1. GoTo(c, "claim") \/ GoTo(c, "deny")
    BY <1>6 DEF CheckApproval
  <2> QED
    BY <1>6, <2>1, GoToType DEF CheckApproval, TypeOK
<1>7. CASE ClaimExecution(c)
  <2>1. approvals' \in [Approvals -> ApprovalRow]
    BY <1>7 DEF ClaimExecution, ApprovalRow, TypeOK
  <2>2. GoTo(c, "route") \/ GoTo(c, "deny")
    BY <1>7 DEF ClaimExecution
  <2> QED
    BY <1>7, <2>1, <2>2, GoToType DEF ClaimExecution, TypeOK
<1>8. CASE Route(c)
  <2>1. req[c].task \in Tasks
    BY <1>8 DEF Route, Idle, Serving
  <2>2. runs' \in [Tasks -> Nat]
    BY <1>8, <2>1 DEF Route, TypeOK
  <2> QED
    BY <1>8, <2>2, GoToType DEF Route, TypeOK
<1>9. CASE Conclude(c)
  <2>1. tasks' \in [Tasks -> Status]
    BY <1>9, OutcomesAssumption DEF Conclude, SetStatus, Resumable, TypeOK
  <2> QED
    BY <1>9, <2>1, AnswerType DEF Conclude, TypeOK
<1>10. CASE Deny(c)
  BY <1>10, AnswerType DEF Deny, SetStatus, Resumable, TypeOK
<1> QED
  BY <1>1, <1>2, <1>3, <1>4, <1>5, <1>6, <1>7, <1>8, <1>9, <1>10 DEF Serve

LEMMA NextType ==
  ASSUME TypeOK, Serving, [Next]_vars
  PROVE  TypeOK' /\ Serving'
<1>1. ASSUME NEW c \in Threads, ProcessEnds(c)
      PROVE  TypeOK'
  <2>1. req[c].task \in Tasks
    BY <1>1 DEF ProcessEnds, Serving
  <2> QED
    BY <1>1, <2>1, AnswerType DEF ProcessEnds, TypeOK
<1>2. ASSUME Tick PROVE TypeOK'
  BY <1>2, TimeAssumption DEF Tick, Time, TypeOK
<1>3. ASSUME UNCHANGED vars PROVE TypeOK'
  BY <1>3 DEF vars, TypeOK
<1>4. TypeOK'
  BY <1>1, <1>2, <1>3, AcceptType, ServeType DEF Next
<1>5. ASSUME NEW c \in Threads, Accept(c)
      PROVE  Serving'
  BY <1>5 DEF Accept, Submit, ApproveRead, ResumeRead, ResumeByCommand, Cancel,
              Begin, Serving, TypeOK
<1>6. ASSUME NEW c \in Threads, Serve(c) \/ ProcessEnds(c)
      PROVE  Serving'
  <2>1. req[c].pc # "idle" => req[c].task \in Tasks
    BY DEF Serving, Idle
  <2>2. ASSUME NEW pc, GoTo(c, pc), req[c].pc # "idle"
        PROVE  Serving'
    BY <2>1, <2>2 DEF GoTo, Serving, TypeOK, Request
  <2>3. CASE Answer(c)
    BY <2>3 DEF Answer, Serving, TypeOK
  <2> QED
    BY <1>6, <2>2, <2>3 DEF Serve, ProcessEnds, Issue, Refuse, Consume,
       MarkRunning, Invalid, CheckApproval, ClaimExecution, Route, Conclude, Deny
<1>7. ASSUME Tick \/ UNCHANGED vars
      PROVE  Serving'
  BY <1>7 DEF Tick, vars, Serving
<1> QED
  BY <1>4, <1>5, <1>6, <1>7 DEF Next

LEMMA InitServing == Init => Serving
BY DEF Init, Serving

\* The columns of requests, approvals and the history hold only the values the
\* statements of the approval store know.
THEOREM TypeCorrect == Spec => []TypeOK
<1>1. Init => TypeOK /\ Serving
  BY InitType, InitServing
<1>2. TypeOK /\ Serving /\ [Next]_vars => TypeOK' /\ Serving'
  BY NextType
<1> QED
  BY <1>1, <1>2, PTL DEF Spec

-----------------------------------------------------------------------------
(* A claim is exclusive.                                                   *)

\* Between the two halves of claim_execution_if_valid the approval stays what
\* the first one found: redeemed, and issued for the request's task.
ClaimsRedeemed ==
  \A c \in Threads : req[c].pc = "claim" =>
    /\ req[c].approval \in Approvals
    /\ approvals[req[c].approval].st \in {"consumed", "executed"}
    /\ approvals[req[c].approval].task = req[c].task

Inductive == TypeOK /\ Serving /\ ClaimsRedeemed /\ ClaimsExclusive

\* A step at which no thread enters or leaves the final boundary and no row
\* that a thread relies on is changed.
LEMMA QuietStep ==
  ASSUME Inductive, NEW c \in Threads, NEW r \in Request,
         req' = [req EXCEPT ![c] = r], r.pc \notin {"claim", "route"},
         \A a \in Approvals : approvals[a].st \in {"consumed", "executed"}
                                => approvals'[a] = approvals[a]
  PROVE  ClaimsRedeemed' /\ ClaimsExclusive'
<1>1. \A d \in Threads : req'[d] = IF d = c THEN r ELSE req[d]
  BY DEF Inductive, TypeOK
<1>2. ASSUME NEW d \in Threads, req'[d].pc \in {"claim", "route"}
      PROVE  req'[d] = req[d] /\ d # c
  BY <1>1, <1>2
<1>3. ClaimsRedeemed'
  BY <1>2 DEF ClaimsRedeemed, Inductive
<1>4. ClaimsExclusive'
  BY <1>2 DEF ClaimsExclusive, Holding, Inductive
<1> QED
  BY <1>3, <1>4

LEMMA AcceptKeeps ==
  ASSUME Inductive, NEW c \in Threads, Accept(c)
  PROVE  ClaimsRedeemed' /\ ClaimsExclusive'
<1>1. approvals' = approvals
  BY DEF Accept, Submit, ApproveRead, ResumeRead, ResumeByCommand, Cancel
<1>2. ASSUME NEW pc \in {"issue", "consume", "mark"}, NEW t \in Tasks,
             NEW a \in Approvals \cup {None}, Begin(c, pc, t, a)
      PROVE  ClaimsRedeemed' /\ ClaimsExclusive'
  <2>1. [pc |-> pc, task |-> t, approval |-> a, since |-> now] \in Request
    BY DEF Request, Inductive, TypeOK
  <2> QED
    BY <1>1, <1>2, <2>1, QuietStep DEF Begin
<1>3. ASSUME UNCHANGED req
      PROVE  ClaimsRedeemed' /\ ClaimsExclusive'
  BY <1>1, <1>3 DEF ClaimsRedeemed, ClaimsExclusive, Holding, Inductive
<1> QED
  BY <1>2, <1>3 DEF Accept, Submit, ApproveRead, ResumeRead, ResumeByCommand, Cancel

LEMMA ServeKeeps ==
  ASSUME Inductive, NEW c \in Threads, Serve(c) \/ ProcessEnds(c)
  PROVE  ClaimsRedeemed' /\ ClaimsExclusive'
<1> DEFINE Quiet == \A a \in Approvals : approvals[a].st \in {"consumed", "executed"}
                                           => approvals'[a] = approvals[a]
<1>1. ASSUME Answer(c), Quiet
      PROVE  ClaimsRedeemed' /\ ClaimsExclusive'
  <2>1. Idle \in Request /\ Idle.pc = "idle"
    BY TimeAssumption DEF Idle, Request, Time
  <2> QED
    BY <1>1, <2>1, QuietStep DEF Answer
<1>2. ASSUME NEW pc \in {"mark", "mark_again", "check", "conclude", "deny"},
             GoTo(c, pc), Quiet
      PROVE  ClaimsRedeemed' /\ ClaimsExclusive'
  <2>1. [req[c] EXCEPT !.pc = pc, !.since = now] \in Request
    BY DEF Inductive, TypeOK, Request
  <2>2. [req[c] EXCEPT !.pc = pc, !.since = now].pc = pc
    BY DEF Inductive, TypeOK, Request
  <2> QED
    BY <1>2, <2>1, <2>2, QuietStep DEF GoTo
<1>3. CASE Issue(c)
  BY <1>1, <1>3 DEF Issue, Inductive, TypeOK
<1>4. CASE Consume(c)
  BY <1>1, <1>2, <1>4 DEF Consume, Inductive, TypeOK
<1>5. CASE \/ Refuse(c) \/ Conclude(c) \/ Deny(c) \/ ProcessEnds(c)
  BY <1>1, <1>5 DEF Refuse, Conclude, Deny, ProcessEnds
<1>6. CASE MarkRunning(c) \/ Invalid(c) \/ Route(c)
  BY <1>2, <1>6 DEF MarkRunning, Invalid, Route
<1>7. CASE CheckApproval(c)
  <2>1. CASE GoTo(c, "deny")
    BY <1>2, <1>7, <2>1 DEF CheckApproval
  <2>2. CASE GoTo(c, "claim") /\ Redeemed(req[c].approval, req[c].task)
                              /\ req[c].approval # None
    <3>1. \A d \in Threads : d # c => req'[d] = req[d]
      BY <2>2 DEF GoTo, Inductive, TypeOK
    <3>2. req'[c].pc = "claim" /\ req'[c].task = req[c].task
            /\ req'[c].approval = req[c].approval
      BY <2>2 DEF GoTo, Inductive, TypeOK, Request
    <3>3. req[c].approval \in Approvals
      BY <2>2 DEF Inductive, TypeOK, Request
    <3>4. ClaimsRedeemed'
      BY <1>7, <2>2, <3>1, <3>2, <3>3
         DEF CheckApproval, Redeemed, ClaimsRedeemed, Inductive
    <3>5. ClaimsExclusive'
      BY <1>7, <3>1, <3>2 DEF CheckApproval, ClaimsExclusive, Holding, Inductive
    <3> QED
      BY <3>4, <3>5
  <2> QED
    BY <1>7, <2>1, <2>2 DEF CheckApproval
<1>8. CASE ClaimExecution(c)
  <2>1. CASE GoTo(c, "deny") /\ UNCHANGED approvals
    BY <1>2, <2>1
  <2>2. ASSUME NEW a \in Approvals, a = req[c].approval, req[c].pc = "claim",
               approvals[a].st = "consumed", GoTo(c, "route"),
               approvals' = [approvals EXCEPT ![a].st = "executed"]
        PROVE  ClaimsRedeemed' /\ ClaimsExclusive'
    <3>1. \A d \in Threads : d # c => req'[d] = req[d]
      BY <2>2 DEF GoTo, Inductive, TypeOK
    <3>2. req'[c].pc = "route" /\ req'[c].task = req[c].task /\ req'[c].approval = a
      BY <2>2 DEF GoTo, Inductive, TypeOK, Request
    <3>3. \A b \in Approvals : /\ approvals'[b].task = approvals[b].task
                               /\ b # a => approvals'[b] = approvals[b]
      BY <2>2 DEF Inductive, TypeOK, ApprovalRow
    <3>4. approvals'[a].st = "executed" /\ approvals[a].task = req[c].task
      BY <2>2 DEF Inductive, TypeOK, ApprovalRow, ClaimsRedeemed
    <3>5. \A d \in Threads : ~Holding(d, a)
      BY <2>2 DEF Holding, Inductive, ClaimsExclusive
    <3>6. ClaimsRedeemed'
      BY <3>1, <3>2, <3>3, <3>4 DEF ClaimsRedeemed, Inductive
    <3>7. ClaimsExclusive'
      BY <3>1, <3>2, <3>3, <3>4, <3>5 DEF ClaimsExclusive, Holding, Inductive
    <3> QED
      BY <3>6, <3>7
  <2> QED
    BY <1>8, <2>1, <2>2 DEF ClaimExecution
<1> QED
  BY <1>3, <1>4, <1>5, <1>6, <1>7, <1>8 DEF Serve

LEMMA InductiveStep == Inductive /\ [Next]_vars => Inductive'
<1> SUFFICES ASSUME Inductive, [Next]_vars
             PROVE  ClaimsRedeemed' /\ ClaimsExclusive'
  BY NextType DEF Inductive
<1>1. CASE \E c \in Threads : Accept(c)
  BY <1>1, AcceptKeeps
<1>2. CASE \E c \in Threads : Serve(c) \/ ProcessEnds(c)
  BY <1>2, ServeKeeps
<1>3. CASE Tick \/ UNCHANGED vars
  BY <1>3 DEF Tick, vars, ClaimsRedeemed, ClaimsExclusive, Holding, Inductive
<1> QED
  BY <1>1, <1>2, <1>3 DEF Next

LEMMA InitInductive == Init => Inductive
BY InitType, InitServing
   DEF Init, Inductive, ClaimsRedeemed, ClaimsExclusive, Idle

LEMMA AlwaysInductive == Spec => []Inductive
BY InitInductive, InductiveStep, PTL DEF Spec

\* However many requests present the same approval at once, one thread at most
\* passes the final boundary with it, for the task it was issued for.
THEOREM ClaimExclusive == Spec => []ClaimsExclusive
<1>1. Inductive => ClaimsExclusive
  BY DEF Inductive
<1> QED
  BY <1>1, AlwaysInductive, PTL

-----------------------------------------------------------------------------
(* The requests implement the one-shot approval.                           *)

LEMMA InitMaps == Init => OneShot!Init
BY DEF Init, OneShot!Init, StageOf

\* A step that moves no thread into or out of the final boundary maps every
\* approval it leaves alone to the stage it had.
LEMMA SameStage ==
  ASSUME Inductive, NEW a \in Approvals, approvals'[a] = approvals[a],
         \A d \in Threads : Holding(d, a)' <=> Holding(d, a)
  PROVE  StageOf(a)' = StageOf(a)
BY DEF StageOf

\* Nothing that the abstract approval sees happens.
LEMMA Stutter ==
  ASSUME Inductive, UNCHANGED <<approvals, runs>>,
         \A a \in Approvals, d \in Threads : Holding(d, a)' <=> Holding(d, a)
  PROVE  UNCHANGED OneShot!vars
<1>1. \A a \in Approvals : StageOf(a)' = StageOf(a)
  BY SameStage
<1> QED
  BY <1>1 DEF OneShot!vars

\* Outside the final boundary a thread holds nothing, before or after.
LEMMA NotHolding ==
  ASSUME Inductive, NEW c \in Threads, req[c].pc # "route", req'[c].pc # "route",
         \A d \in Threads : d # c => req'[d] = req[d]
  PROVE  \A a \in Approvals, d \in Threads : Holding(d, a)' <=> Holding(d, a)
BY DEF Holding

LEMMA AcceptMaps ==
  ASSUME Inductive, NEW c \in Threads, Accept(c)
  PROVE  UNCHANGED OneShot!vars
<1>1. UNCHANGED <<approvals, runs>>
  BY DEF Accept, Submit, ApproveRead, ResumeRead, ResumeByCommand, Cancel
<1>2. ASSUME NEW pc \in {"issue", "consume", "mark"}, NEW t, NEW a, Begin(c, pc, t, a)
      PROVE  \A b \in Approvals, d \in Threads : Holding(d, b)' <=> Holding(d, b)
  <2>1. req[c].pc = "idle" /\ req'[c].pc = pc
    BY <1>2 DEF Begin, Idle, Inductive, TypeOK
  <2>2. \A d \in Threads : d # c => req'[d] = req[d]
    BY <1>2 DEF Begin, Inductive, TypeOK
  <2> QED
    BY <2>1, <2>2, NotHolding
<1>3. ASSUME UNCHANGED req
      PROVE  \A b \in Approvals, d \in Threads : Holding(d, b)' <=> Holding(d, b)
  BY <1>3 DEF Holding
<1> QED
  BY <1>1, <1>2, <1>3, Stutter
     DEF Accept, Submit, ApproveRead, ResumeRead, ResumeByCommand, Cancel

\* A row moves to a stage short of "executed".
LEMMA RowMaps ==
  ASSUME Inductive, NEW a \in Approvals, NEW row \in ApprovalRow,
         approvals' = [approvals EXCEPT ![a] = row], UNCHANGED runs,
         approvals[a].st # "executed", row.st # "executed",
         \A b \in Approvals, d \in Threads : Holding(d, b)' <=> Holding(d, b)
  PROVE  /\ StageOf(a) = approvals[a].st
         /\ \A b \in Approvals :
              /\ StageOf(b)' = IF b = a THEN row.st ELSE StageOf(b)
              /\ approvals'[b].task = IF b = a THEN row.task ELSE approvals[b].task
<1>1. StageOf(a) = approvals[a].st /\ StageOf(a)' = row.st
  BY DEF StageOf, Inductive, TypeOK
<1>2. \A b \in Approvals : b # a => approvals'[b] = approvals[b] /\ StageOf(b)' = StageOf(b)
  BY SameStage DEF Inductive, TypeOK
<1>3. approvals'[a] = row
  BY DEF Inductive, TypeOK
<1>4. \A b \in Approvals : StageOf(b)' = IF b = a THEN row.st ELSE StageOf(b)
  BY <1>1, <1>2
<1>5. \A b \in Approvals : approvals'[b].task = IF b = a THEN row.task ELSE approvals[b].task
  BY <1>2, <1>3
<1> QED
  BY <1>1, <1>4, <1>5

LEMMA ServeMaps ==
  ASSUME Inductive, NEW c \in Threads, Serve(c) \/ ProcessEnds(c)
  PROVE  [OneShot!Next]_(OneShot!vars)
<1> DEFINE Still == \A b \in Approvals, d \in Threads : Holding(d, b)' <=> Holding(d, b)
<1>1. ASSUME Answer(c), req[c].pc # "route" PROVE Still
  <2>1. req'[c].pc = "idle"
    BY <1>1 DEF Answer, Idle, Inductive, TypeOK
  <2>2. \A d \in Threads : d # c => req'[d] = req[d]
    BY <1>1 DEF Answer, Inductive, TypeOK
  <2> QED
    BY <1>1, <2>1, <2>2, NotHolding
<1>2. ASSUME NEW pc \in {"mark", "mark_again", "check", "claim", "deny"},
             GoTo(c, pc), req[c].pc # "route"
      PROVE  Still
  <2>1. req'[c].pc = pc
    BY <1>2 DEF GoTo, Inductive, TypeOK, Request
  <2>2. \A d \in Threads : d # c => req'[d] = req[d]
    BY <1>2 DEF GoTo, Inductive, TypeOK
  <2> QED
    BY <1>2, <2>1, <2>2, NotHolding
<1>3. CASE Issue(c)
  <2>1. PICK a \in Approvals, at \in req[c].since .. now :
          /\ approvals[a].st = "none"
          /\ approvals' = [approvals EXCEPT ![a] =
               [st |-> "issued", task |-> req[c].task, exp |-> at + TTL]]
    BY <1>3 DEF Issue
  <2>2. PICK t \in Tasks : t = req[c].task
    BY <1>3 DEF Issue, Inductive, Serving, Idle
  <2>3. PICK row \in ApprovalRow : row = [st |-> "issued", task |-> t, exp |-> at + TTL]
    <3>1. at + TTL \in Nat
      BY TimeAssumption DEF Inductive, TypeOK, Request, Time
    <3>2. [st |-> "issued", task |-> t, exp |-> at + TTL] \in ApprovalRow
      BY <3>1 DEF ApprovalRow
    <3> QED
      BY <3>2
  <2>4. Still /\ UNCHANGED runs
    BY <1>1, <1>3 DEF Issue
  <2>5. approvals' = [approvals EXCEPT ![a] = row] /\ approvals[a].st # "executed"
    BY <2>1, <2>2, <2>3
  <2>6. /\ StageOf(a) = "none"
        /\ \A b \in Approvals :
             /\ StageOf(b)' = IF b = a THEN "issued" ELSE StageOf(b)
             /\ approvals'[b].task = IF b = a THEN t ELSE approvals[b].task
    <3>1. row.st = "issued" /\ row.task = t
      BY <2>3
    <3>2. /\ StageOf(a) = approvals[a].st
          /\ \A b \in Approvals :
               /\ StageOf(b)' = IF b = a THEN row.st ELSE StageOf(b)
               /\ approvals'[b].task = IF b = a THEN row.task ELSE approvals[b].task
      BY <2>4, <2>5, <3>1, RowMaps
    <3> QED
      BY <2>1, <3>1, <3>2
  <2>7. OneShot!Issue(a, t)
    BY <2>4, <2>6 DEF OneShot!Issue, OneShot!Advance
  <2> QED
    BY <2>7 DEF OneShot!Next
<1>4. CASE Consume(c)
  <2>1. Still
    BY <1>1, <1>2, <1>4 DEF Consume
  <2>2. CASE UNCHANGED approvals
    BY <1>4, <2>1, <2>2, Stutter DEF Consume
  <2>3. ASSUME NEW a \in Approvals, approvals[a].st = "issued",
               approvals' = [approvals EXCEPT ![a].st = "consumed"]
        PROVE  OneShot!Consume(a)
    <3>1. [approvals[a] EXCEPT !.st = "consumed"] \in ApprovalRow
      BY DEF ApprovalRow, Inductive, TypeOK
    <3>2. /\ [approvals[a] EXCEPT !.st = "consumed"].st = "consumed"
          /\ [approvals[a] EXCEPT !.st = "consumed"].task = approvals[a].task
      BY DEF ApprovalRow, Inductive, TypeOK
    <3>3. UNCHANGED runs
      BY <1>4 DEF Consume
    <3>4. PICK row \in ApprovalRow : row = [approvals[a] EXCEPT !.st = "consumed"]
      BY <3>1
    <3>5. /\ row.st = "consumed" /\ row.task = approvals[a].task
          /\ approvals' = [approvals EXCEPT ![a] = row]
          /\ approvals[a].st # "executed"
      BY <2>3, <3>2, <3>4
    <3>6. /\ StageOf(a) = "issued"
          /\ \A b \in Approvals :
               /\ StageOf(b)' = IF b = a THEN "consumed" ELSE StageOf(b)
               /\ approvals'[b].task = approvals[b].task
      BY <2>1, <2>3, <3>3, <3>5, RowMaps
    <3> QED
      BY <3>3, <3>6 DEF OneShot!Consume, OneShot!Advance
  <2> QED
    BY <1>4, <2>2, <2>3 DEF Consume, OneShot!Next
<1>5. CASE \/ Refuse(c) \/ Conclude(c) \/ Deny(c)
  <2>1. Still /\ UNCHANGED <<approvals, runs>>
    BY <1>1, <1>5 DEF Refuse, Conclude, Deny
  <2> QED
    BY <2>1, Stutter
<1>6. CASE MarkRunning(c) \/ Invalid(c) \/ CheckApproval(c)
  <2>1. Still /\ UNCHANGED <<approvals, runs>>
    BY <1>2, <1>6 DEF MarkRunning, Invalid, CheckApproval
  <2> QED
    BY <2>1, Stutter
<1>7. CASE ClaimExecution(c)
  <2>1. CASE GoTo(c, "deny") /\ UNCHANGED approvals
    <3>1. Still /\ UNCHANGED <<approvals, runs>>
      BY <1>2, <1>7, <2>1 DEF ClaimExecution
    <3> QED
      BY <3>1, Stutter
  <2>2. ASSUME NEW a \in Approvals, a = req[c].approval, req[c].pc = "claim",
               approvals[a].st = "consumed", GoTo(c, "route"),
               approvals' = [approvals EXCEPT ![a].st = "executed"]
        PROVE  OneShot!Claim(a)
    <3>1. \A d \in Threads : d # c => req'[d] = req[d]
      BY <2>2 DEF GoTo, Inductive, TypeOK
    <3>2. req'[c].pc = "route" /\ req'[c].approval = a
      BY <2>2 DEF GoTo, Inductive, TypeOK, Request
    <3>3. \A b \in Approvals : /\ approvals'[b].task = approvals[b].task
                               /\ b # a => approvals'[b] = approvals[b]
      BY <2>2 DEF Inductive, TypeOK, ApprovalRow
    <3>4. StageOf(a) = "consumed" /\ StageOf(a)' = "claimed"
      BY <2>2, <3>2 DEF StageOf, Holding, Inductive, TypeOK, ApprovalRow
    <3>5. ASSUME NEW b \in Approvals, b # a PROVE StageOf(b)' = StageOf(b)
      <4>1. \A d \in Threads : Holding(d, b)' <=> Holding(d, b)
        BY <2>2, <3>1, <3>2, <3>5 DEF Holding
      <4> QED
        BY <3>3, <3>5, <4>1, SameStage
    <3>6. UNCHANGED runs
      BY <1>7 DEF ClaimExecution
    <3> QED
      BY <3>3, <3>4, <3>5, <3>6 DEF OneShot!Claim, OneShot!Advance
  <2> QED
    BY <1>7, <2>1, <2>2 DEF ClaimExecution, OneShot!Next
<1>8. ASSUME NEW a \in Approvals, a = req[c].approval, req[c].pc = "route",
             UNCHANGED approvals, req'[c].pc # "route",
             \A d \in Threads : d # c => req'[d] = req[d]
      PROVE  /\ StageOf(a) = "claimed" /\ StageOf(a)' = "burned"
             /\ \A b \in Approvals : b # a => StageOf(b)' = StageOf(b)
             /\ approvals[a].task = req[c].task
  <2>1. /\ approvals[a].st = "executed" /\ approvals[a].task = req[c].task
        /\ \A d \in Threads : Holding(d, a) => d = c
    BY <1>8 DEF Inductive, ClaimsExclusive
  <2>2. StageOf(a) = "claimed"
    BY <1>8, <2>1 DEF StageOf, Holding
  <2>3. \A d \in Threads : ~Holding(d, a)'
    BY <1>8, <2>1 DEF Holding
  <2>4. StageOf(a)' = "burned"
    BY <1>8, <2>1, <2>3 DEF StageOf
  <2>5. ASSUME NEW b \in Approvals, b # a PROVE StageOf(b)' = StageOf(b)
    <3>1. \A d \in Threads : Holding(d, b)' <=> Holding(d, b)
      BY <1>8, <2>5 DEF Holding
    <3> QED
      BY <1>8, <3>1, SameStage
  <2> QED
    BY <2>1, <2>2, <2>4, <2>5
<1>9. CASE Route(c)
  <2>1. PICK a \in Approvals : a = req[c].approval
    BY <1>9 DEF Route, Inductive, ClaimsExclusive
  <2>2. /\ req[c].pc = "route" /\ req'[c].pc # "route" /\ UNCHANGED approvals
        /\ \A d \in Threads : d # c => req'[d] = req[d]
        /\ runs' = [runs EXCEPT ![req[c].task] = @ + 1]
    BY <1>9 DEF Route, GoTo, Inductive, TypeOK, Request
  <2>3. /\ StageOf(a) = "claimed" /\ StageOf(a)' = "burned"
        /\ \A b \in Approvals : b # a => StageOf(b)' = StageOf(b)
        /\ approvals[a].task = req[c].task
    BY <1>8, <2>1, <2>2
  <2>4. OneShot!Run(a)
    BY <2>2, <2>3 DEF OneShot!Run, OneShot!Advance
  <2> QED
    BY <2>4 DEF OneShot!Next
<1>10. CASE ProcessEnds(c)
  <2>1. /\ req'[c].pc # "route" /\ UNCHANGED <<approvals, runs>>
        /\ \A d \in Threads : d # c => req'[d] = req[d]
    BY <1>10 DEF ProcessEnds, Answer, Idle, Inductive, TypeOK
  <2>2. CASE req[c].pc # "route"
    BY <2>1, <2>2, NotHolding, Stutter
  <2>3. CASE req[c].pc = "route"
    <3>1. PICK a \in Approvals : a = req[c].approval
      BY <2>3 DEF Inductive, ClaimsExclusive
    <3>2. /\ StageOf(a) = "claimed" /\ StageOf(a)' = "burned"
          /\ \A b \in Approvals : b # a => StageOf(b)' = StageOf(b)
      BY <1>8, <2>1, <2>3, <3>1
    <3>3. OneShot!Lose(a)
      BY <2>1, <3>2 DEF OneShot!Lose, OneShot!Advance
    <3> QED
      BY <3>3 DEF OneShot!Next
  <2> QED
    BY <2>2, <2>3
<1> QED
  BY <1>3, <1>4, <1>5, <1>6, <1>7, <1>9, <1>10 DEF Serve

LEMMA StepMaps == Inductive /\ [Next]_vars => [OneShot!Next]_(OneShot!vars)
<1> SUFFICES ASSUME Inductive, [Next]_vars
             PROVE  [OneShot!Next]_(OneShot!vars)
  OBVIOUS
<1>1. CASE \E c \in Threads : Accept(c)
  BY <1>1, AcceptMaps
<1>2. CASE \E c \in Threads : Serve(c) \/ ProcessEnds(c)
  BY <1>2, ServeMaps
<1>3. CASE Tick \/ UNCHANGED vars
  BY <1>3, Stutter DEF Tick, vars, Holding
<1> QED
  BY <1>1, <1>2, <1>3 DEF Next

\* Racing requests, expiry, refusals and crashes included, the approval store
\* and process_command implement an approval that is good for one run of one
\* task's command.
THEOREM ImplementsOneShot == Spec => OneShotSpec
BY InitMaps, StepMaps, AlwaysInductive, PTL DEF Spec, OneShotSpec, OneShot!Spec

-----------------------------------------------------------------------------
(* Every run is paid for.                                                  *)

\* The approvals burned for a task.
BurnedFor(t) == {a \in Approvals : StageOf(a) = "burned" /\ approvals[a].task = t}

Paid == \A t \in Tasks : runs[t] <= Cardinality(BurnedFor(t))

\* A burned approval stays burned for its task, so the count never falls.
LEMMA BurnedGrows ==
  ASSUME Inductive, [Next]_vars, NEW t \in Tasks
  PROVE  /\ BurnedFor(t) \subseteq BurnedFor(t)'
         /\ Cardinality(BurnedFor(t)) \in Nat
         /\ Cardinality(BurnedFor(t)') \in Nat
         /\ Cardinality(BurnedFor(t)) <= Cardinality(BurnedFor(t)')
<1>1. [OneShot!Next]_(OneShot!vars)
  BY StepMaps
<1>2. ASSUME NEW a \in BurnedFor(t)
      PROVE  a \in BurnedFor(t)'
  <2>1. a \in Approvals /\ StageOf(a) = "burned" /\ approvals[a].task = t
    BY DEF BurnedFor
  <2>2. StageOf(a)' = "burned" /\ approvals'[a].task = t
    <3>1. CASE UNCHANGED OneShot!vars
      BY <2>1, <3>1 DEF OneShot!vars
    <3>2. ASSUME NEW b \in Approvals, NEW s \in Tasks, OneShot!Issue(b, s)
          PROVE  StageOf(a)' = "burned" /\ approvals'[a].task = t
      BY <2>1, <3>2 DEF OneShot!Issue, OneShot!Advance
    <3>3. ASSUME NEW b \in Approvals,
                 OneShot!Consume(b) \/ OneShot!Claim(b) \/ OneShot!Run(b) \/ OneShot!Lose(b)
          PROVE  StageOf(a)' = "burned" /\ approvals'[a].task = t
      BY <2>1, <3>3 DEF OneShot!Consume, OneShot!Claim, OneShot!Run, OneShot!Lose,
                        OneShot!Advance
    <3> QED
      BY <1>1, <3>1, <3>2, <3>3 DEF OneShot!Next
  <2> QED
    BY <2>1, <2>2 DEF BurnedFor
<1>3. IsFiniteSet(BurnedFor(t)) /\ IsFiniteSet(BurnedFor(t)')
  BY ApprovalsFinite, FS_Subset DEF BurnedFor
<1> QED
  BY <1>2, <1>3, FS_Subset, FS_CardinalityType

LEMMA PaidStep ==
  ASSUME Inductive, Paid, [Next]_vars
  PROVE  Paid'
<1>1. CASE UNCHANGED runs
  BY <1>1, BurnedGrows DEF Paid, Inductive, TypeOK
<1>2. ASSUME NEW c \in Threads, Route(c)
      PROVE  Paid'
  <2>1. req[c].pc = "route" /\ runs' = [runs EXCEPT ![req[c].task] = @ + 1]
    BY <1>2 DEF Route
  <2>2. PICK a \in Approvals, s \in Tasks :
          a = req[c].approval /\ s = req[c].task /\ approvals[a].task = s
    BY <2>1 DEF Inductive, ClaimsExclusive, Serving, Idle
  <2>3. StageOf(a) = "claimed" /\ StageOf(a)' = "burned" /\ approvals'[a].task = s
    <3>1. approvals[a].st = "executed" /\ \A d \in Threads : Holding(d, a) => d = c
      BY <2>1, <2>2 DEF Inductive, ClaimsExclusive
    <3>2. req'[c].pc # "route" /\ \A d \in Threads : d # c => req'[d] = req[d]
      BY <1>2 DEF Route, GoTo, Inductive, TypeOK, Request
    <3>3. (\E d \in Threads : Holding(d, a)) /\ (\A d \in Threads : ~Holding(d, a)')
      BY <2>1, <2>2, <3>1, <3>2 DEF Holding
    <3>4. approvals' = approvals
      BY <1>2 DEF Route
    <3> QED
      BY <2>2, <3>1, <3>3, <3>4 DEF StageOf
  <2>4. a \notin BurnedFor(s) /\ a \in BurnedFor(s)' /\ BurnedFor(s) \subseteq BurnedFor(s)'
    BY <2>3, BurnedGrows DEF BurnedFor
  <2>5. IsFiniteSet(BurnedFor(s)) /\ IsFiniteSet(BurnedFor(s)')
    BY ApprovalsFinite, FS_Subset DEF BurnedFor
  <2>6. Cardinality(BurnedFor(s)) + 1 <= Cardinality(BurnedFor(s)')
    <3>1. BurnedFor(s) \cup {a} \subseteq BurnedFor(s)'
      BY <2>4
    <3>2. Cardinality(BurnedFor(s) \cup {a}) = Cardinality(BurnedFor(s)) + 1
      BY <2>4, <2>5, FS_AddElement
    <3> QED
      BY <2>5, <3>1, <3>2, FS_Subset
  <2>7. ASSUME NEW t \in Tasks PROVE runs'[t] <= Cardinality(BurnedFor(t)')
    <3>1. CASE t = s
      BY <2>1, <2>2, <2>6, <3>1, BurnedGrows DEF Paid, Inductive, TypeOK
    <3>2. CASE t # s
      BY <2>1, <2>2, <3>2, BurnedGrows DEF Paid, Inductive, TypeOK
    <3> QED
      BY <3>1, <3>2
  <2> QED
    BY <2>7 DEF Paid
<1>3. (UNCHANGED runs) \/ \E c \in Threads : Route(c)
  BY DEF Next, Accept, Serve, ProcessEnds, Tick, vars, Submit, ApproveRead,
         ResumeRead, ResumeByCommand, Cancel, Issue, Refuse, Consume,
         MarkRunning, Invalid, CheckApproval, ClaimExecution, Conclude, Deny
<1> QED
  BY <1>1, <1>2, <1>3

LEMMA InitPaid == Init => Paid
<1> SUFFICES ASSUME Init, NEW t \in Tasks PROVE 0 <= Cardinality(BurnedFor(t))
  BY DEF Paid, Init
<1>1. IsFiniteSet(BurnedFor(t))
  BY ApprovalsFinite, FS_Subset DEF BurnedFor
<1> QED
  BY <1>1, FS_CardinalityType

\* A command is never run more often than approvals issued for its task were
\* spent, for any number of concurrent resumes.
THEOREM RunsArePaidFor == Spec => []RunsPaidFor
<1>1. Inductive /\ Paid /\ [Next]_vars => Paid'
  BY PaidStep
<1>2. Paid <=> RunsPaidFor
  BY DEF Paid, BurnedFor, RunsPaidFor
<1> QED
  BY <1>1, <1>2, InitPaid, AlwaysInductive, PTL DEF Spec
=============================================================================
