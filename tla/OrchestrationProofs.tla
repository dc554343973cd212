------------------------- MODULE OrchestrationProofs -------------------------
(***************************************************************************)
(* Proofs about Orchestration: for any number of threads, tasks, retries,  *)
(* steps and votes.                                                        *)
(***************************************************************************)
EXTENDS Orchestration, ApprovedExecutionProofs, FiniteSetTheorems, SequenceTheorems, TLAPS

\* A set of numbers that holds one of at most n has a least.
LEMMA LeastExists ==
  ASSUME NEW S \in SUBSET Nat, NEW x \in S
  PROVE  \E m \in S : \A y \in S : m <= y
\* As many numbers are below all of S as there are below its least.
<1> DEFINE Below == {i \in 0 .. x : \A y \in S : i < y}
           k == Cardinality(Below)
<1>1. x \in Nat /\ Below \subseteq 0 .. x /\ x \notin Below
  OBVIOUS
<1>2. \A i \in Below : 0 .. i \subseteq Below
  OBVIOUS
<1>3. \A i \in 0 .. x : i \notin Below => \E y \in S : y <= i
  OBVIOUS
<1>4. \A i \in Below : \A y \in S : i < y
  OBVIOUS
<1> HIDE DEF Below
<1>5. IsFiniteSet(Below) /\ k \in Nat /\ k <= x + 1
  <2>1. IsFiniteSet(0 .. x) /\ Cardinality(0 .. x) = x + 1
    BY <1>1, FS_Interval
  <2>2. IsFiniteSet(Below) /\ k <= Cardinality(0 .. x)
    BY <1>1, <2>1, FS_Subset
  <2> QED
    BY <2>1, <2>2, FS_CardinalityType
<1>6. \A i \in Below : i < k
  <2> SUFFICES ASSUME NEW i \in Below
               PROVE  i < k
    OBVIOUS
  <2>1. i \in Nat /\ 0 .. i \in SUBSET Below
    BY <1>1, <1>2
  <2>2. Cardinality(0 .. i) = i + 1
    BY <2>1, FS_Interval
  <2>3. Cardinality(0 .. i) <= k
    BY <1>5, <2>1, FS_Subset
  <2> QED
    BY <1>5, <2>1, <2>2, <2>3
<1> HIDE DEF k
<1>7. Below = 0 .. k - 1
  <2>1. IsFiniteSet(0 .. k - 1) /\ Cardinality(0 .. k - 1) = k
    BY <1>5, FS_Interval
  <2>2. Below \in SUBSET (0 .. k - 1)
    BY <1>1, <1>5, <1>6
  <2> QED
    BY <2>1, <2>2, FS_Subset DEF k
<1>8. k <= x
  BY <1>1, <1>5, <1>7
<1>9. k \notin Below /\ k \in 0 .. x
  BY <1>5, <1>7, <1>8
<1>10. PICK m \in S : m <= k
  BY <1>3, <1>9
<1>11. \A y \in S : k <= y
  BY <1>4, <1>5, <1>7
<1> QED
  BY <1>5, <1>10, <1>11

(***************************************************************************)
(* The engines around a command.                                           *)
(***************************************************************************)

Pcs == {"check", "create", "begin", "run", "call", "sync", "end", "heal", "retry", "write", "fan"}

\* The frames there may be: what one has still to do are rows, one that waits for
\* a child has one, and a remote command gets no further than its own task.
Frames ==
  {f \in Engines!Frame :
     /\ f.todo \subseteq DOMAIN rows
     /\ f.pc \in {"call", "sync"} => f.todo # {}
     /\ f.kind = "remote" => f.pc \in {"check", "create", "begin", "run"}}

EnginesInv ==
  /\ rows \in Seq(Engines!Row) /\ Len(rows) <= MaxTasks
  /\ stack \in [Threads -> Seq(Frames)]

\* Rows are changed and added, and none is taken away.
RowsGrow ==
  /\ rows' \in Seq(Engines!Row) /\ Len(rows') <= MaxTasks
  /\ DOMAIN rows \subseteq DOMAIN rows'

LEMMA RowsStay == EnginesInv /\ UNCHANGED rows => RowsGrow
BY DEF EnginesInv, RowsGrow

\* Of all rows only one is written.
OneWritten(t) == \A i \in DOMAIN rows : i # t => rows'[i] = rows[i]

LEMMA RowWritten ==
  ASSUME EnginesInv, NEW t, NEW row, t \in DOMAIN rows => row \in Engines!Row,
         rows' = [rows EXCEPT ![t] = row]
  PROVE  RowsGrow /\ OneWritten(t)
<1>1. rows \in Seq(Engines!Row) /\ Len(rows) <= MaxTasks /\ DOMAIN rows = 1 .. Len(rows)
  BY DEF EnginesInv
<1>2. CASE t \in DOMAIN rows
  <2>1. rows' \in Seq(Engines!Row) /\ Len(rows') = Len(rows)
    BY <1>1, <1>2, ExceptSeq
  <2> QED
    BY <1>1, <2>1 DEF RowsGrow, OneWritten
<1>3. CASE t \notin DOMAIN rows
  <2>1. rows' = rows
    BY <1>1, <1>3
  <2> QED
    BY <1>1, <2>1 DEF RowsGrow, OneWritten
<1> QED
  BY <1>2, <1>3

LEMMA RowAdded ==
  ASSUME EnginesInv, NEW row \in Engines!Row, Len(rows) < MaxTasks, rows' = Append(rows, row)
  PROVE  RowsGrow /\ \A i \in DOMAIN rows : rows'[i] = rows[i]
<1>1. rows \in Seq(Engines!Row) /\ Len(rows) \in Nat /\ MaxTasks \in Nat
  BY EnginesAssumption DEF EnginesInv
<1>2. rows' \in Seq(Engines!Row) /\ Len(rows') = Len(rows) + 1
      /\ \A i \in 1 .. Len(rows) : rows'[i] = rows[i]
  BY <1>1, AppendProperties
<1> QED
  BY <1>1, <1>2 DEF RowsGrow

LEMMA UpdatedRow ==
  ASSUME NEW row \in Engines!Row,
         NEW status \in {"queued", "running", "completed", "failed", "blocked"}
  PROVE  Engines!Updated(row, status) \in Engines!Row
BY DEF Engines!Row, Engines!Updated

LEMMA StatusWritten ==
  ASSUME EnginesInv, NEW t,
         NEW status \in {"queued", "running", "completed", "failed", "blocked"},
         rows' = [rows EXCEPT ![t] = Engines!Updated(@, status)]
  PROVE  RowsGrow /\ OneWritten(t)
<1>1. t \in DOMAIN rows => Engines!Updated(rows[t], status) \in Engines!Row
  BY UpdatedRow, ElementOfSeq DEF EnginesInv
<1>2. rows' = [rows EXCEPT ![t] = Engines!Updated(rows[t], status)]
  BY DEF EnginesInv
<1> QED
  BY <1>1, <1>2, RowWritten

\* All rows are rewritten at once.
LEMMA RowsRewritten ==
  ASSUME EnginesInv, \A t \in DOMAIN rows : rows[t] \in Engines!Row => rows'[t] \in Engines!Row,
         rows' = [t \in DOMAIN rows |-> rows'[t]]
  PROVE  RowsGrow
<1>1. rows \in Seq(Engines!Row) /\ Len(rows) <= MaxTasks /\ Len(rows) \in Nat
      /\ DOMAIN rows = 1 .. Len(rows)
  BY DEF EnginesInv
<1>2. \A t \in DOMAIN rows : rows[t] \in Engines!Row
  BY <1>1, ElementOfSeq
<1>3. rows' \in [1 .. Len(rows) -> Engines!Row]
  BY <1>1, <1>2
<1>4. rows' \in Seq(Engines!Row) /\ Len(rows') = Len(rows)
  BY <1>1, <1>3, SeqDef
<1> QED
  BY <1>1, <1>3, <1>4 DEF RowsGrow

LEMMA FreshRow ==
  ASSUME NEW parent \in 0 .. MaxTasks
  PROVE  Engines!NewRow(parent) \in Engines!Row
BY EnginesAssumption DEF Engines!Row, Engines!NewRow

\* The child a frame is at, or the row, is one of those it has still to do.
LEMMA MinIsIn ==
  ASSUME NEW S \in SUBSET DOMAIN rows, S # {}, EnginesInv
  PROVE  Engines!Min(S) \in S
<1>1. S \in SUBSET Nat
  BY DEF EnginesInv
<1>2. \E m \in S : \A y \in S : m <= y
  BY <1>1, LeastExists
<1> QED
  BY <1>2 DEF Engines!Min

\* The stack of one thread is replaced.
LEMMA StackReplaced ==
  ASSUME EnginesInv, RowsGrow, NEW th \in Threads, NEW s \in Seq(Frames'),
         stack' = [stack EXCEPT ![th] = s]
  PROVE  EnginesInv'
<1>1. Frames \subseteq Frames'
  BY DEF Frames, RowsGrow
<1>2. \A u \in Threads : stack[u] \in Seq(Frames')
  BY <1>1, SeqMonotonic DEF EnginesInv
<1>3. stack' \in [Threads -> Seq(Frames')]
  BY <1>2 DEF EnginesInv
<1> QED
  BY <1>3 DEF EnginesInv, RowsGrow

\* What can be done to it.
LEMMA StackMoved ==
  ASSUME EnginesInv, RowsGrow, NEW th \in Threads, NEW f \in Frames', NEW g \in Frames',
         \/ stack' = [stack EXCEPT ![th] = <<f>> \o @]
         \/ stack[th] # <<>> /\ stack' = [stack EXCEPT ![th] = <<f>> \o Tail(@)]
         \/ stack[th] # <<>> /\ stack' = [stack EXCEPT ![th] = <<f, g>> \o Tail(@)]
         \/ stack[th] # <<>> /\ stack' = [stack EXCEPT ![th] = Tail(@)]
         \/ stack' = [stack EXCEPT ![th] = <<>>]
  PROVE  EnginesInv'
<1>1. Frames \subseteq Frames' /\ stack[th] \in Seq(Frames)
  BY DEF Frames, RowsGrow, EnginesInv
<1>2. stack[th] \in Seq(Frames')
  BY <1>1, SeqMonotonic
<1>3. <<>> \in Seq(Frames') /\ <<f>> \in Seq(Frames') /\ <<f, g>> \in Seq(Frames')
  OBVIOUS
<1>4. stack[th] # <<>> => Tail(stack[th]) \in Seq(Frames')
  BY <1>2, HeadTailProperties
<1>5. /\ <<f>> \o stack[th] \in Seq(Frames')
      /\ stack[th] # <<>> => /\ <<f>> \o Tail(stack[th]) \in Seq(Frames')
                             /\ <<f, g>> \o Tail(stack[th]) \in Seq(Frames')
  BY <1>2, <1>3, <1>4, ConcatProperties
<1>6. \E s \in Seq(Frames') : stack' = [stack EXCEPT ![th] = s]
  BY <1>3, <1>4, <1>5 DEF EnginesInv
<1> QED
  BY <1>6, StackReplaced

\* The frame on top.
LEMMA TopFrame ==
  ASSUME EnginesInv, NEW th \in Threads, stack[th] # <<>>
  PROVE  Head(stack[th]) \in Frames /\ Engines!Top(th) = Head(stack[th])
BY HeadTailProperties DEF EnginesInv, Engines!Top

\* A frame that goes on.
LEMMA FrameTurned ==
  ASSUME RowsGrow, NEW f \in Frames, NEW pc \in Pcs,
         pc \in {"call", "sync"} => f.todo # {},
         f.kind = "remote" => pc \in {"check", "create", "begin", "run"}
  PROVE  [f EXCEPT !.pc = pc] \in Frames'
BY DEF Frames, Engines!Frame, Pcs, RowsGrow

\* A frame that goes on with other rows.
LEMMA FrameTasked ==
  ASSUME RowsGrow, NEW f \in Frames, NEW pc \in Pcs, NEW todo \in SUBSET DOMAIN rows',
         pc \in {"call", "sync"} => todo # {},
         f.kind = "remote" => pc \in {"check", "create", "begin", "run"}
  PROVE  [f EXCEPT !.pc = pc, !.todo = todo, !.seen = 0] \in Frames'
<1>1. todo \subseteq Engines!Ids
  <2>1. DOMAIN rows' = 1 .. Len(rows') /\ Len(rows') \in Nat /\ Len(rows') <= MaxTasks
    BY DEF RowsGrow
  <2>2. 1 .. Len(rows') \subseteq 1 .. MaxTasks
    BY <2>1, EnginesAssumption
  <2> QED
    BY <2>1, <2>2 DEF Engines!Ids
<1> DEFINE x == [f EXCEPT !.pc = pc, !.todo = todo, !.seen = 0]
<1>2. /\ x \in Engines!Frame
      /\ x.todo = todo /\ x.pc = pc /\ x.kind = f.kind
  <2>1. f \in Engines!Frame /\ 0 \in 0 .. MaxRetries /\ todo \in SUBSET Engines!Ids
    BY <1>1, EnginesAssumption DEF Frames
  <2> QED
    BY <2>1 DEF Engines!Frame, Pcs
<1> HIDE DEF x
<1>3. x \in Frames'
  BY <1>2 DEF Frames
<1> QED
  BY <1>3 DEF x

\* The frame of a command that begins.
LEMMA FrameBegun ==
  ASSUME RowsGrow, NEW kind \in Engines!Kinds, NEW t \in 0 .. MaxTasks
  PROVE  [pc |-> "check", kind |-> kind, task |-> t, todo |-> {}, seen |-> 0] \in Frames'
BY EnginesAssumption DEF Frames, Engines!Frame, RowsGrow

\* A thread goes on with other rows.
LEMMA FrameGoesOn ==
  ASSUME EnginesInv, RowsGrow, NEW th \in Threads, stack[th] # <<>>,
         Head(stack[th]) \in Frames, Head(stack[th]).kind # "remote",
         NEW pc \in Pcs, NEW todo \in SUBSET DOMAIN rows', Engines!Do(th, pc, todo),
         pc \in {"call", "sync"} => todo # {}
  PROVE  EnginesInv'
<1> DEFINE f == Head(stack[th])
<1>1. f \in Frames /\ f.kind # "remote"
  OBVIOUS
<1>2. [f EXCEPT !.pc = pc, !.todo = todo, !.seen = 0] \in Frames'
  BY <1>1, FrameTasked
<1>3. stack' = [stack EXCEPT ![th] =
        <<[f EXCEPT !.pc = pc, !.todo = todo, !.seen = 0]>> \o Tail(@)]
  BY DEF Engines!Do, EnginesInv
<1> HIDE DEF f
<1> QED
  BY <1>2, <1>3, StackMoved

\* Commands come in.
LEMMA EnginesEnter ==
  ASSUME EnginesInv, NEW th \in Threads,
         \/ \E kind \in Engines!Kinds :
              Engines!Arrive(th, kind) \/ \E t \in Engines!Ids : Engines!Resume(th, t, kind)
         \/ Engines!RunScheduled(th)
  PROVE  EnginesInv'
<1> DEFINE new(kind, t) ==
      [pc |-> "check", kind |-> kind, task |-> t, todo |-> {}, seen |-> 0]
<1>1. ASSUME RowsGrow, NEW kind \in Engines!Kinds, NEW t \in 0 .. MaxTasks,
             stack' = [stack EXCEPT ![th] = <<new(kind, t)>> \o @]
      PROVE  EnginesInv'
  BY <1>1, FrameBegun, StackMoved
<1>2. ASSUME NEW kind \in Engines!Kinds, Engines!Arrive(th, kind)
      PROVE  EnginesInv'
  <2>1. RowsGrow /\ stack' = [stack EXCEPT ![th] = <<new(kind, 0)>> \o @]
    BY <1>2, RowsStay DEF Engines!Arrive, Engines!Push
  <2>2. 0 \in 0 .. MaxTasks
    BY EnginesAssumption
  <2> QED
    BY <1>1, <2>1, <2>2
<1>3. ASSUME NEW kind \in Engines!Kinds, NEW t \in Engines!Ids, Engines!Resume(th, t, kind)
      PROVE  EnginesInv'
  <2>1. RowsGrow /\ stack' = [stack EXCEPT ![th] = <<new(kind, t)>> \o @]
    BY <1>3, RowsStay DEF Engines!Resume, Engines!Push
  <2>2. t \in 0 .. MaxTasks
    BY EnginesAssumption DEF Engines!Ids
  <2> QED
    BY <1>1, <2>1, <2>2
<1>4. CASE Engines!RunScheduled(th)
  <2>1. /\ rows' = Append(rows, Engines!NewRow(0)) /\ Len(rows) < MaxTasks /\ Len(rows) \in Nat
        /\ stack' = [stack EXCEPT ![th] = <<new("charged", Len(rows) + 1)>> \o @]
    BY <1>4 DEF Engines!RunScheduled, Engines!Push, EnginesInv
  <2>2. RowsGrow
    BY <2>1, FreshRow, RowAdded, EnginesAssumption
  <2>3. Len(rows) + 1 \in 0 .. MaxTasks /\ "charged" \in Engines!Kinds
    BY <2>1, EnginesAssumption DEF Engines!Kinds
  <2> QED
    BY <1>1, <2>1, <2>2, <2>3
<1> QED
  BY <1>2, <1>3, <1>4

\* A command goes through its own steps.
LEMMA EnginesCommand ==
  ASSUME EnginesInv, NEW th \in Threads,
         \/ Engines!Check(th) \/ Engines!Create(th) \/ Engines!Begin(th)
         \/ \E status \in {"completed", "failed", "blocked"} : Engines!Finish(th, status)
         \/ Engines!End(th)
  PROVE  EnginesInv'
<1> DEFINE f == Head(stack[th])
           top == Engines!Top(th)
<1>1. stack[th] # <<>> /\ f \in Frames /\ top = f
  BY TopFrame DEF Engines!Check, Engines!Create, Engines!Begin, Engines!Finish, Engines!End, Engines!At
<1>2. ASSUME RowsGrow, NEW pc \in Pcs \ {"call", "sync"}, Engines!Goto(th, pc),
             f.kind = "remote" => pc \in {"check", "create", "begin", "run"}
      PROVE  EnginesInv'
  <2>1. [f EXCEPT !.pc = pc] \in Frames'
    BY <1>1, <1>2, FrameTurned
  <2>2. stack' = [stack EXCEPT ![th] = <<[f EXCEPT !.pc = pc]>> \o Tail(@)]
    BY <1>2 DEF Engines!Goto, EnginesInv
  <2> HIDE DEF f
  <2> QED
    BY <1>1, <1>2, <2>1, <2>2, StackMoved
<1>3. ASSUME RowsGrow, Engines!Return(th)
      PROVE  EnginesInv'
  <2>1. f \in Frames'
    BY <1>1, <1>3 DEF Frames, RowsGrow
  <2> QED
    BY <1>1, <1>3, <2>1, StackMoved DEF Engines!Return
<1>4. ASSUME RowsGrow, Engines!Behind(th)
      PROVE  EnginesInv'
  BY <1>1, <1>2, <1>3, <1>4 DEF Engines!Behind, Pcs
<1>6. CASE Engines!Check(th)
  <2>1. RowsGrow
    BY <1>6, RowsStay DEF Engines!Check
  <2>2. Engines!Return(th) \/ Engines!Goto(th, "create") \/ Engines!Goto(th, "begin")
    BY <1>6 DEF Engines!Check
  <2> QED
    BY <1>2, <1>3, <2>1, <2>2 DEF Pcs
<1>7. CASE Engines!Create(th)
  <2>1. /\ rows' = Append(rows, Engines!NewRow(0)) /\ Len(rows) < MaxTasks /\ Len(rows) \in Nat
        /\ stack' = [stack EXCEPT ![th] =
             <<[Head(@) EXCEPT !.pc = "begin", !.task = Len(rows) + 1]>> \o Tail(@)]
    BY <1>7 DEF Engines!Create, EnginesInv
  <2>2. RowsGrow
    BY <2>1, FreshRow, RowAdded, EnginesAssumption
  <2> DEFINE n == Len(rows) + 1
             new == [f EXCEPT !.pc = "begin", !.task = n]
  <2>3. n \in 0 .. MaxTasks
    BY <2>1, EnginesAssumption
  <2> HIDE DEF n
  <2>4. new \in Frames'
    BY <1>1, <2>2, <2>3 DEF Frames, Engines!Frame, RowsGrow
  <2>5. stack' = [stack EXCEPT ![th] = <<new>> \o Tail(@)]
    BY <2>1 DEF EnginesInv, n
  <2> HIDE DEF new
  <2> QED
    BY <1>1, <2>2, <2>4, <2>5, StackMoved
<1>8. CASE Engines!Begin(th)
  BY <1>2, <1>8, StatusWritten DEF Engines!Begin, Pcs
<1>10. ASSUME NEW status \in {"completed", "failed", "blocked"}, Engines!Finish(th, status)
       PROVE  EnginesInv'
  BY <1>4, <1>10, StatusWritten DEF Engines!Finish
<1>11. CASE Engines!End(th)
  <2> DEFINE t == top.task
  <2>1. /\ rows' = [rows EXCEPT ![t] = Engines!Updated(@, @.status)] /\ Engines!Behind(th)
    BY <1>11 DEF Engines!End
  <2>2. CASE t \in DOMAIN rows
    <3>1. rows[t].status \in {"queued", "running", "completed", "failed", "blocked"}
      <4>1. rows[t] \in Engines!Row
        BY <2>2, ElementOfSeq DEF EnginesInv
      <4> QED
        BY <4>1 DEF Engines!Row
    <3>2. rows' = [rows EXCEPT ![t] = Engines!Updated(@, rows[t].status)]
      BY <2>1 DEF EnginesInv
    <3> HIDE DEF t
    <3> QED
      BY <1>4, <2>1, <3>1, <3>2, StatusWritten
  <2>3. CASE t \notin DOMAIN rows
    <3>1. UNCHANGED rows
      BY <2>1, <2>3 DEF EnginesInv
    <3> QED
      BY <1>4, <2>1, <3>1, RowsStay
  <2> QED
    BY <2>2, <2>3
<1> QED
  BY <1>6, <1>7, <1>8, <1>10, <1>11

\* A thread waits for its children.
LEMMA EnginesChildren ==
  ASSUME EnginesInv, NEW th \in Threads,
         \/ \E n \in 1 .. Batch : Engines!Handoff(th, n)
         \/ Engines!Call(th) \/ Engines!Sync(th)
  PROVE  EnginesInv'
<1> DEFINE f == Head(stack[th])
           top == Engines!Top(th)
<1>1. stack[th] # <<>> /\ f \in Frames /\ top = f
  BY TopFrame DEF Engines!Handoff, Engines!Call, Engines!Sync, Engines!At
<1>2. ASSUME RowsGrow, NEW pc \in Pcs, NEW todo \in SUBSET DOMAIN rows', Engines!Do(th, pc, todo),
             pc \in {"call", "sync"} => todo # {}, f.kind # "remote"
      PROVE  EnginesInv'
  BY <1>1, <1>2, FrameGoesOn
<1>3. ASSUME NEW n \in 1 .. Batch, Engines!Handoff(th, n)
      PROVE  EnginesInv'
  <2> DEFINE t == top.task
             m == Len(rows) + n
             kids == Len(rows) + 1 .. Len(rows) + n
  <2>1. /\ m <= MaxTasks /\ Engines!Do(th, "call", kids) /\ f.kind # "remote"
        /\ rows' = [c \in 1 .. m |->
             IF c \in kids THEN Engines!NewRow(t)
             ELSE IF c = t THEN Engines!Updated(rows[c], "running") ELSE rows[c]]
    BY <1>1, <1>3 DEF Engines!Handoff
  <2>2. /\ rows \in Seq(Engines!Row) /\ Len(rows) \in Nat /\ m \in Nat /\ n \in Nat /\ n >= 1
        /\ DOMAIN rows = 1 .. Len(rows) /\ MaxTasks \in Nat
    BY EnginesAssumption DEF EnginesInv
  <2>3. t \in 0 .. MaxTasks
    BY <1>1 DEF Frames, Engines!Frame
  <2>4. \A c \in 1 .. m : c \notin kids => c \in DOMAIN rows
    BY <2>2
  <2>5. \A c \in 1 .. m : rows'[c] \in Engines!Row
    <3>1. \A c \in DOMAIN rows :
            rows[c] \in Engines!Row /\ Engines!Updated(rows[c], "running") \in Engines!Row
      BY <2>2, ElementOfSeq, UpdatedRow
    <3>2. Engines!NewRow(t) \in Engines!Row
      BY <2>3, FreshRow
    <3> HIDE DEF kids, m, t
    <3> QED
      BY <2>1, <2>4, <3>1, <3>2
  <2>6. kids # {} /\ kids \subseteq 1 .. m /\ DOMAIN rows \subseteq 1 .. m
    <3>1. Len(rows) + 1 \in kids
      BY <2>2
    <3>2. kids \subseteq 1 .. m
      BY <2>2
    <3>3. DOMAIN rows \subseteq 1 .. m
      BY <2>2
    <3> QED
      BY <3>1, <3>2, <3>3
  <2> HIDE DEF kids, m, t
  <2>7. rows' \in [1 .. m -> Engines!Row]
    BY <2>1, <2>5
  <2>8. rows' \in Seq(Engines!Row) /\ Len(rows') = m /\ DOMAIN rows' = 1 .. m
    BY <2>2, <2>7, SeqDef
  <2>9. RowsGrow
    BY <2>1, <2>6, <2>8 DEF RowsGrow
  <2> QED
    BY <1>2, <2>1, <2>6, <2>8, <2>9 DEF Pcs
<1>4. CASE Engines!Call(th)
  <2> DEFINE t == Engines!Min(top.todo)
             new == [pc |-> "check", kind |-> "charged", task |-> t, todo |-> {}, seen |-> 0]
             still == [f EXCEPT !.pc = "sync"]
  <2>1. f.pc = "call" /\ f.todo # {} /\ f.todo \subseteq DOMAIN rows /\ f.kind # "remote"
        /\ DOMAIN rows \subseteq 0 .. MaxTasks
    BY <1>1, <1>4, EnginesAssumption DEF Engines!Call, Engines!At, Frames, EnginesInv
  <2>2. /\ UNCHANGED rows
        /\ stack' = [stack EXCEPT ![th] = <<new, still>> \o Tail(@)]
    BY <1>4 DEF Engines!Call, EnginesInv
  <2>3. RowsGrow
    BY <2>2, RowsStay
  <2>4. t \in f.todo
    BY <1>1, <2>1, MinIsIn
  <2>5. new \in Frames'
    BY <2>1, <2>3, <2>4, FrameBegun DEF Engines!Kinds
  <2>6. still \in Frames'
    BY <1>1, <2>1, <2>3, FrameTurned DEF Pcs
  <2> HIDE DEF new, still
  <2> QED
    BY <1>1, <2>2, <2>3, <2>5, <2>6, StackMoved
<1>5. CASE Engines!Sync(th)
  <2> DEFINE child == Engines!Min(top.todo)
             t == top.task
  <2>1. f.pc = "sync" /\ f.todo # {} /\ f.todo \subseteq DOMAIN rows /\ f.kind # "remote"
    BY <1>1, <1>5 DEF Engines!Sync, Engines!At, Frames
  <2>2. /\ \E status \in {"completed", "blocked"} :
             rows' = [rows EXCEPT ![t] = Engines!Updated(@, status)]
        /\ Engines!Do(th, IF f.todo = {child} THEN "end" ELSE "call", f.todo \ {child})
    BY <1>1, <1>5 DEF Engines!Sync
  <2>3. RowsGrow
    BY <2>2, StatusWritten
  <2>4. f.todo \ {child} \in SUBSET DOMAIN rows'
    BY <2>1, <2>3 DEF RowsGrow
  <2> HIDE DEF child
  <2>5. CASE f.todo = {child}
    BY <1>2, <2>1, <2>2, <2>3, <2>4, <2>5 DEF Pcs
  <2>6. CASE f.todo # {child}
    <3>1. f.todo \ {child} # {}
      BY <2>1, <2>6
    <3> QED
      BY <1>2, <2>1, <2>2, <2>3, <2>4, <2>6, <3>1 DEF Pcs
  <2> QED
    BY <2>5, <2>6
<1> QED
  BY <1>3, <1>4, <1>5

\* What runs too long is queued again, and what is queued set running.
LEMMA EnginesHeal ==
  ASSUME EnginesInv, NEW th \in Threads,
         \/ Engines!Scan(th) \/ Engines!ReadRetry(th) \/ Engines!Retry(th)
         \/ Engines!ReadFringe(th) \/ Engines!FanOut(th) \/ Engines!ProcessEnds(th)
  PROVE  EnginesInv'
<1> DEFINE f == Head(stack[th])
           top == Engines!Top(th)
<1>1. stack[th] # <<>> /\ f \in Frames /\ top = f
  BY TopFrame
     DEF Engines!Scan, Engines!ReadRetry, Engines!Retry, Engines!ReadFringe, Engines!FanOut,
         Engines!ProcessEnds, Engines!At
<1>2. f.todo \in SUBSET DOMAIN rows
  BY <1>1 DEF Frames
<1>3. f.pc \in {"heal", "retry", "write", "fan"} => f.kind # "remote"
  BY <1>1 DEF Frames
<1>4. ASSUME RowsGrow, NEW pc \in Pcs \ {"call", "sync"}, NEW todo \in SUBSET DOMAIN rows',
             Engines!Do(th, pc, todo), f.kind # "remote"
      PROVE  EnginesInv'
  BY <1>1, <1>4, FrameGoesOn
<1>5. CASE Engines!Scan(th)
  <2>1. f.pc = "heal" /\ RowsGrow
    BY <1>5, RowsStay DEF Engines!Scan, Engines!At
  <2>2. \E todo \in SUBSET DOMAIN rows : Engines!Do(th, "retry", todo)
    BY <1>5 DEF Engines!Scan
  <2>3. DOMAIN rows \subseteq DOMAIN rows'
    BY <2>1 DEF RowsGrow
  <2> QED
    BY <1>3, <1>4, <2>1, <2>2, <2>3 DEF Pcs
<1>6. CASE Engines!ReadRetry(th)
  <2> DEFINE t == Engines!Min(top.todo)
             seen == rows[t].retries
             new == [f EXCEPT !.pc = "write", !.seen = seen]
  <2>1. /\ f.pc = "retry" /\ f.todo # {} /\ RowsGrow
        /\ stack' = [stack EXCEPT ![th] = <<new>> \o Tail(@)]
    BY <1>1, <1>6, RowsStay DEF Engines!ReadRetry, Engines!At, EnginesInv
  <2>2. t \in DOMAIN rows
    BY <1>1, <1>2, <2>1, MinIsIn
  <2> HIDE DEF t
  <2>3. rows[t] \in Engines!Row
    BY <2>2, ElementOfSeq DEF EnginesInv
  <2>4. seen \in 0 .. MaxRetries
    BY <2>3 DEF Engines!Row
  <2> HIDE DEF seen
  <2>5. new \in Engines!Frame /\ new.todo = f.todo /\ new.pc = "write" /\ new.kind = f.kind
    BY <1>1, <2>4 DEF Frames, Engines!Frame
  <2> HIDE DEF new
  <2>6. new \in Frames'
    BY <1>1, <1>2, <1>3, <2>1, <2>5 DEF Frames, RowsGrow
  <2> QED
    BY <1>1, <2>1, <2>6, StackMoved
<1>7. CASE Engines!Retry(th)
  <2> DEFINE t == Engines!Min(top.todo)
             row == IF top.seen >= MaxRetries THEN Engines!Updated(rows[t], "failed")
                    ELSE [Engines!Updated(rows[t], "queued") EXCEPT !.retries = top.seen + 1]
  <2>1. /\ f.pc = "write" /\ Engines!Do(th, "retry", f.todo \ {t})
        /\ rows' = [rows EXCEPT ![t] = row]
    BY <1>1, <1>7 DEF Engines!Retry, Engines!At, EnginesInv
  <2>2. t \in DOMAIN rows => row \in Engines!Row
    <3> SUFFICES ASSUME t \in DOMAIN rows
                 PROVE  row \in Engines!Row
      OBVIOUS
    <3>1. rows[t] \in Engines!Row
      BY ElementOfSeq DEF EnginesInv
    <3>2. /\ Engines!Updated(rows[t], "failed") \in Engines!Row
          /\ Engines!Updated(rows[t], "queued") \in Engines!Row
      BY <3>1, UpdatedRow
    <3>3. top.seen \in 0 .. MaxRetries
      BY <1>1 DEF Frames, Engines!Frame
    <3>4. ~(top.seen >= MaxRetries) => top.seen + 1 \in 0 .. MaxRetries
      BY <3>3, EnginesAssumption
    <3> HIDE DEF t
    <3> QED
      BY <3>2, <3>4 DEF Engines!Row
  <2> HIDE DEF row
  <2>3. RowsGrow
    BY <2>1, <2>2, RowWritten
  <2>4. f.todo \ {t} \in SUBSET DOMAIN rows'
    BY <1>2, <2>3 DEF RowsGrow
  <2> QED
    BY <1>3, <1>4, <2>1, <2>3, <2>4 DEF Pcs
<1>8. CASE Engines!ReadFringe(th)
  <2>1. f.pc = "retry" /\ RowsGrow
    BY <1>8, RowsStay DEF Engines!ReadFringe, Engines!At
  <2>2. \E todo \in SUBSET DOMAIN rows : Engines!Do(th, "fan", todo)
    BY <1>8 DEF Engines!ReadFringe, Engines!Fringe
  <2>3. DOMAIN rows \subseteq DOMAIN rows'
    BY <2>1 DEF RowsGrow
  <2> QED
    BY <1>3, <1>4, <2>1, <2>2, <2>3 DEF Pcs
<1>9. CASE Engines!FanOut(th)
  <2>1. /\ \A t \in DOMAIN rows : rows'[t] = rows[t] \/ rows'[t] = Engines!Updated(rows[t], "running")
        /\ rows' = [t \in DOMAIN rows |-> rows'[t]]
        /\ Engines!Return(th)
    BY <1>9 DEF Engines!FanOut
  <2>2. RowsGrow
    BY <2>1, RowsRewritten, UpdatedRow
  <2>3. f \in Frames'
    BY <1>1, <2>2 DEF Frames, RowsGrow
  <2> QED
    BY <1>1, <2>1, <2>2, <2>3, StackMoved DEF Engines!Return
<1>10. CASE Engines!ProcessEnds(th)
  <2>1. RowsGrow /\ stack' = [stack EXCEPT ![th] = <<>>]
    BY <1>10, RowsStay DEF Engines!ProcessEnds
  <2>2. f \in Frames'
    BY <1>1, <2>1 DEF Frames, RowsGrow
  <2> QED
    BY <2>1, <2>2, StackMoved
<1> QED
  BY <1>5, <1>6, <1>7, <1>8, <1>9, <1>10

LEMMA EnginesInit == Engines!Init => EnginesInv
BY EnginesAssumption DEF Engines!Init, EnginesInv

\* Every step of a thread or of the clock.
LEMMA EnginesKept ==
  ASSUME EnginesInv, [Engines!Next]_engineVars
  PROVE  EnginesInv'
<1>1. CASE Engines!Hour
  <2>1. /\ \A t \in DOMAIN rows : rows'[t] = [rows[t] EXCEPT !.old = TRUE]
        /\ rows' = [t \in DOMAIN rows |-> rows'[t]] /\ UNCHANGED stack
    BY <1>1 DEF Engines!Hour
  <2>2. \A row \in Engines!Row : [row EXCEPT !.old = TRUE] \in Engines!Row
    BY DEF Engines!Row
  <2>3. RowsGrow
    BY <2>1, <2>2, RowsRewritten
  <2>4. Frames \subseteq Frames'
    BY <2>3 DEF Frames, RowsGrow
  <2>5. \A u \in Threads : stack[u] \in Seq(Frames')
    BY <2>4, SeqMonotonic DEF EnginesInv
  <2> QED
    BY <2>1, <2>3, <2>5 DEF EnginesInv, RowsGrow
<1>2. CASE UNCHANGED engineVars
  BY <1>2 DEF engineVars, EnginesInv, Frames
<1>3. CASE \E th \in Threads :
             \/ \E kind \in Engines!Kinds :
                  Engines!Arrive(th, kind) \/ \E t \in Engines!Ids : Engines!Resume(th, t, kind)
             \/ Engines!RunScheduled(th)
  BY <1>3, EnginesEnter
<1>4. CASE \E th \in Threads :
             \/ Engines!Check(th) \/ Engines!Create(th) \/ Engines!Begin(th)
             \/ \E status \in {"completed", "failed", "blocked"} : Engines!Finish(th, status)
             \/ Engines!End(th)
  BY <1>4, EnginesCommand
<1>5. CASE \E th \in Threads :
             \/ \E n \in 1 .. Batch : Engines!Handoff(th, n)
             \/ Engines!Call(th) \/ Engines!Sync(th)
  BY <1>5, EnginesChildren
<1>6. CASE \E th \in Threads :
             \/ Engines!Scan(th) \/ Engines!ReadRetry(th) \/ Engines!Retry(th)
             \/ Engines!ReadFringe(th) \/ Engines!FanOut(th) \/ Engines!ProcessEnds(th)
  BY <1>6, EnginesHeal
<1> QED
  BY <1>1, <1>2, <1>3, <1>4, <1>5, <1>6 DEF Engines!Next

\* The rows hold no more retries than there may be.
LEMMA RetriesInRows == EnginesInv => RetriesHeld
<1> SUFFICES ASSUME EnginesInv, NEW t \in DOMAIN rows
             PROVE  rows[t].retries <= MaxRetries
  BY DEF RetriesHeld, Engines!RetriesHeld
<1>1. rows[t] \in Engines!Row
  BY ElementOfSeq DEF EnginesInv
<1> QED
  BY <1>1, EnginesAssumption DEF Engines!Row

\* A step of one thread moves no other's stack.
LEMMA OwnStackOnly ==
  ASSUME EnginesInv, Engines!Next, NEW th \in Threads, stack'[th] # stack[th]
  PROVE  \/ stack[th] = <<>>
         \/ Engines!Check(th) \/ Engines!Create(th) \/ Engines!Begin(th)
         \/ \E status \in {"completed", "failed", "blocked"} : Engines!Finish(th, status)
         \/ \E n \in 1 .. Batch : Engines!Handoff(th, n)
         \/ Engines!Call(th) \/ Engines!Sync(th) \/ Engines!End(th)
         \/ Engines!Scan(th) \/ Engines!ReadRetry(th) \/ Engines!Retry(th)
         \/ Engines!ReadFringe(th) \/ Engines!FanOut(th) \/ Engines!ProcessEnds(th)
<1>1. stack \in [Threads -> Seq(Frames)]
  BY DEF EnginesInv
<1> DEFINE Moved(u) == \E s : stack' = [stack EXCEPT ![u] = s]
<1>2. ASSUME NEW u \in Threads, Moved(u)
      PROVE  u = th
  BY <1>1, <1>2
<1>3. ASSUME NEW u \in Threads, NEW pc, Engines!Goto(u, pc)
      PROVE  Moved(u)
  BY <1>1, <1>3 DEF Engines!Goto
<1>4. ASSUME NEW u \in Threads, NEW pc, NEW todo, Engines!Do(u, pc, todo)
      PROVE  Moved(u)
  BY <1>1, <1>4 DEF Engines!Do
<1>5. ASSUME NEW u \in Threads, Engines!Return(u)
      PROVE  Moved(u)
  BY <1>1, <1>5 DEF Engines!Return
<1>6. ASSUME NEW u \in Threads, NEW kind, NEW t, Engines!Push(u, kind, t)
      PROVE  Moved(u)
  BY <1>1, <1>6 DEF Engines!Push
<1> HIDE DEF Moved
<1>7. ASSUME NEW u \in Threads,
             \/ \E kind \in Engines!Kinds :
                  Engines!Arrive(u, kind) \/ \E t \in Engines!Ids : Engines!Resume(u, t, kind)
             \/ Engines!RunScheduled(u)
      PROVE  stack[th] = <<>>
  <2>1. stack[u] = <<>>
    BY <1>7 DEF Engines!Arrive, Engines!Resume, Engines!RunScheduled
  <2>2. Moved(u)
    BY <1>6, <1>7 DEF Engines!Arrive, Engines!Resume, Engines!RunScheduled
  <2> QED
    BY <1>2, <2>1, <2>2
<1>8. ASSUME NEW u \in Threads, Engines!Behind(u)
      PROVE  Moved(u)
  BY <1>3, <1>5, <1>8 DEF Engines!Behind
<1>9. ASSUME NEW u \in Threads,
             \/ Engines!Check(u) \/ Engines!Begin(u)
             \/ \E status \in {"completed", "failed", "blocked"} : Engines!Finish(u, status)
             \/ Engines!End(u)
      PROVE  Moved(u)
  BY <1>3, <1>5, <1>8, <1>9 DEF Engines!Check, Engines!Begin, Engines!Finish, Engines!End
<1>10. ASSUME NEW u \in Threads,
              \/ \E n \in 1 .. Batch : Engines!Handoff(u, n)
              \/ Engines!Sync(u) \/ Engines!Scan(u) \/ Engines!Retry(u) \/ Engines!ReadFringe(u)
              \/ Engines!FanOut(u)
       PROVE  Moved(u)
  BY <1>4, <1>5, <1>10
     DEF Engines!Handoff, Engines!Sync, Engines!Scan, Engines!Retry, Engines!ReadFringe, Engines!FanOut
<1>11. ASSUME NEW u \in Threads,
              \/ Engines!Create(u) \/ Engines!Call(u) \/ Engines!ReadRetry(u) \/ Engines!ProcessEnds(u)
       PROVE  Moved(u)
  BY <1>1, <1>11
     DEF Engines!Create, Engines!Call, Engines!ReadRetry, Engines!ProcessEnds, Moved
<1>12. ~Engines!Hour
  BY DEF Engines!Hour
<1> QED
  BY <1>2, <1>7, <1>9, <1>10, <1>11, <1>12 DEF Engines!Next

\* What a remote command's thread does while that is on top.
LEMMA RemoteWrites ==
  ASSUME EnginesInv, Engines!Next, NEW th \in Threads, stack[th] # <<>>,
         Engines!Top(th).kind = "remote", stack'[th] # stack[th]
  PROVE  OneWritten(Engines!Top(th).task)
<1> DEFINE f == Head(stack[th])
           t == Engines!Top(th).task
<1>1. f \in Frames /\ Engines!Top(th) = f
  BY TopFrame
<1>2. f.pc \in {"check", "create", "begin", "run"}
  BY <1>1 DEF Frames
<1>3. \/ Engines!Check(th) \/ Engines!Create(th) \/ Engines!Begin(th)
      \/ \E status \in {"completed", "failed", "blocked"} : Engines!Finish(th, status)
      \/ Engines!ProcessEnds(th)
  BY <1>1, <1>2, OwnStackOnly
     DEF Engines!Handoff, Engines!Call, Engines!Sync, Engines!End, Engines!Scan,
         Engines!ReadRetry, Engines!Retry, Engines!ReadFringe, Engines!FanOut, Engines!At
<1>4. CASE Engines!Check(th) \/ Engines!ProcessEnds(th)
  BY <1>4 DEF Engines!Check, Engines!ProcessEnds, OneWritten
<1>5. CASE Engines!Create(th)
  BY <1>5, FreshRow, RowAdded, EnginesAssumption DEF Engines!Create, OneWritten
<1>6. CASE Engines!Begin(th)
  BY <1>6, StatusWritten DEF Engines!Begin
<1>7. ASSUME NEW status \in {"completed", "failed", "blocked"}, Engines!Finish(th, status)
      PROVE  OneWritten(t)
  BY <1>7, StatusWritten DEF Engines!Finish
<1> QED
  BY <1>3, <1>4, <1>5, <1>6, <1>7

\* An orchestration's step is one of the engines, or leaves them as they are.
LEMMA EnginesStep ==
  ASSUME [OrchestrationNext]_<<part, vars, engineVars, planVars, pollVars>>
  PROVE  [Engines!Next]_engineVars
BY DEF OrchestrationNext

LEMMA EnginesAlways == OrchestrationSpec => []EnginesInv
<1>1. OrchestrationInit => EnginesInv
  BY EnginesInit DEF OrchestrationInit
<1>2. EnginesInv /\ [OrchestrationNext]_<<part, vars, engineVars, planVars, pollVars>> => EnginesInv'
  BY EnginesStep, EnginesKept
<1> QED
  BY <1>1, <1>2, PTL DEF OrchestrationSpec

\* However many commands, healings and crashes overlap, no task is queued again
\* more often than the limit allows (SelfHealingEngine.execute_auto_retry).
THEOREM RetriesAreHeld == OrchestrationSpec => []RetriesHeld
BY EnginesAlways, RetriesInRows, PTL

\* A command that came in over the network writes no task but its own, at any
\* point of its run (BotBoy.process_command).
THEOREM RemotesStayOut == OrchestrationSpec => RemoteStaysOut
<1> DEFINE Kept == \A th \in DOMAIN stack, t \in DOMAIN rows :
             (stack[th] # <<>> /\ Engines!Top(th).kind = "remote"
                /\ stack'[th] # stack[th] /\ rows'[t] # rows[t]) => t = Engines!Top(th).task
<1>1. EnginesInv /\ [Engines!Next]_engineVars => [Kept]_engineVars
  <2> SUFFICES ASSUME EnginesInv, Engines!Next
               PROVE  Kept
    OBVIOUS
  <2>1. DOMAIN stack = Threads
    BY DEF EnginesInv
  <2> QED
    BY <2>1, RemoteWrites DEF OneWritten
<1>2. [][Kept]_engineVars <=> RemoteStaysOut
  BY DEF RemoteStaysOut, Engines!RemoteStaysOut, engineVars, Engines!vars
<1> HIDE DEF Kept
<1>3. [OrchestrationNext]_<<part, vars, engineVars, planVars, pollVars>> => [Engines!Next]_engineVars
  BY EnginesStep
<1> QED
  BY <1>1, <1>2, <1>3, EnginesAlways, PTL DEF OrchestrationSpec

(***************************************************************************)
(* The plan that is carried out.                                           *)
(***************************************************************************)

Endings == {"succeeded", "failed", "skipped"}

Succeeded == {i \in DOMAIN outputs : outputs[i] = "succeeded"}

\* What is met are the names of the steps that succeeded, which is what a step
\* is tried against; a draft is not carried out before it is the last one.
PlanInv ==
  /\ steps \in Seq(Plan!Step)
  /\ outputs \in Seq(Endings) /\ Len(outputs) <= Len(steps)
  /\ phase \notin {"execute", "done"} => outputs = <<>>
  /\ met = {steps[j].name : j \in Succeeded}
  /\ \A i \in DOMAIN outputs :
       outputs[i] # "skipped" <=> \A n \in steps[i].needs : Plan!Provided(n, i)
  /\ phase # "done" => result # "success"
  /\ result = "success" =>
       /\ Len(outputs) = Len(steps)
       /\ \A i \in DOMAIN outputs : outputs[i] # "failed"

LEMMA DraftIsSeq == ASSUME NEW d \in Plan!Drafts PROVE d \in Seq(Plan!Step)
<1>1. PICK n \in 0 .. MaxSteps : d \in [1 .. n -> Plan!Step]
  BY DEF Plan!Drafts
<1> QED
  BY <1>1, PlanAssumption, SeqDef

LEMMA PlanInit == Plan!Init => PlanInv
<1> SUFFICES ASSUME Plan!Init
             PROVE  PlanInv
  OBVIOUS
<1>1. steps = <<>> /\ outputs = <<>> /\ met = {} /\ result = "none"
  BY DEF Plan!Init
<1>2. DOMAIN outputs = {} /\ Succeeded = {}
  BY <1>1 DEF Succeeded
<1> QED
  BY <1>1, <1>2 DEF PlanInv

\* The outputs grow by that of the step that is next; whatever it is, the earlier
\* ones are judged as they were.
LEMMA PlanSteps ==
  ASSUME PlanInv, NEW outcome \in Endings,
         phase = "execute" /\ Len(outputs) < Len(steps),
         outcome # "skipped" <=> Plan!Ready,
         outputs' = Append(outputs, outcome),
         met' = (IF outcome = "succeeded" THEN met \cup {Plan!Now.name} ELSE met),
         UNCHANGED <<phase, steps, result>>
  PROVE  PlanInv'
<1> DEFINE k == Len(outputs) + 1
<1>1. /\ steps \in Seq(Plan!Step) /\ outputs \in Seq(Endings)
      /\ Len(outputs) \in Nat /\ Len(steps) \in Nat /\ DOMAIN outputs = 1 .. Len(outputs)
      /\ DOMAIN steps = 1 .. Len(steps) /\ met = {steps[j].name : j \in Succeeded}
  BY DEF PlanInv
<1>2. /\ outputs' \in Seq(Endings) /\ Len(outputs') = k /\ outputs'[k] = outcome
      /\ \A i \in 1 .. Len(outputs) : outputs'[i] = outputs[i]
  BY <1>1, AppendProperties
<1>3. /\ DOMAIN outputs' = 1 .. k /\ k \in Nat /\ k \in DOMAIN steps
      /\ 1 .. k = DOMAIN outputs \cup {k} /\ k \notin DOMAIN outputs
      /\ 1 .. k - 1 = DOMAIN outputs
  BY <1>1, <1>2
<1>4. Plan!Now = steps[k]
  BY DEF Plan!Now
<1> HIDE DEF k
<1>5. Succeeded' = IF outcome = "succeeded" THEN Succeeded \cup {k} ELSE Succeeded
  BY <1>1, <1>2, <1>3 DEF Succeeded
<1>6. met' = {steps'[j].name : j \in Succeeded'}
  BY <1>1, <1>4, <1>5
<1>7. ASSUME NEW i \in DOMAIN outputs'
      PROVE  outputs'[i] # "skipped" <=> \A n \in steps'[i].needs : Plan!Provided(n, i)'
  <2>1. i \in 1 .. k /\ 1 .. i - 1 \subseteq DOMAIN outputs
    BY <1>1, <1>3, <1>7
  <2>2. \A n : Plan!Provided(n, i)' <=> Plan!Provided(n, i)
    BY <1>1, <1>2, <2>1 DEF Plan!Provided
  <2>3. CASE i \in DOMAIN outputs
    <3>1. outputs'[i] = outputs[i]
      BY <1>1, <1>2, <2>3
    <3> QED
      BY <2>2, <2>3, <3>1 DEF PlanInv
  <2>4. CASE i = k
    <3>1. \A n : Plan!Provided(n, i) <=> n \in met
      BY <1>1, <1>3, <2>4 DEF Plan!Provided, Succeeded
    <3>2. Plan!Ready <=> \A n \in steps[i].needs : n \in met
      BY <1>4, <2>4 DEF Plan!Ready
    <3> QED
      BY <1>2, <2>2, <2>4, <3>1, <3>2
  <2> QED
    BY <1>3, <2>1, <2>3, <2>4
<1>8. Len(outputs') <= Len(steps')
  BY <1>1, <1>2, <1>3
<1>9. phase' = "execute" /\ result' # "success"
  BY DEF PlanInv
<1> QED
  BY <1>1, <1>2, <1>6, <1>7, <1>8, <1>9 DEF PlanInv

LEMMA PlanKept ==
  ASSUME PlanInv, [Plan!Next]_planVars
  PROVE  PlanInv'
<1> USE DEF Endings
<1>1. ASSUME phase \notin {"execute", "done"}, UNCHANGED <<outputs, met>>,
             steps' \in Seq(Plan!Step), phase' # "done" => result' # "success", result' # "success"
      PROVE  PlanInv'
  <2>1. outputs = <<>> /\ DOMAIN outputs = {} /\ Succeeded = {} /\ Succeeded' = {}
    BY <1>1 DEF PlanInv, Succeeded
  <2>2. met' = {}
    BY <1>1, <2>1 DEF PlanInv
  <2>3. Len(outputs') <= Len(steps') /\ outputs' \in Seq(Endings)
    BY <1>1, <2>1
  <2> QED
    BY <1>1, <2>1, <2>2, <2>3 DEF PlanInv
<1>2. CASE Plan!Architect
  <2>1. steps' \in Seq(Plan!Step) /\ phase = "architect"
    BY <1>2, DraftIsSeq DEF Plan!Architect
  <2>2. result' # "success"
    BY <1>2, <2>1 DEF Plan!Architect, PlanInv
  <2> QED
    BY <1>1, <1>2, <2>1, <2>2 DEF Plan!Architect
<1>3. ASSUME NEW verdict \in {"approve", "refine", "reject"}, Plan!Entropy(verdict)
      PROVE  PlanInv'
  <2>1. phase = "entropy" /\ UNCHANGED <<outputs, met>>
    BY <1>3 DEF Plan!Entropy
  <2>2. steps' = steps \/ steps' = <<>>
    BY <1>3 DEF Plan!Entropy
  <2>3. steps' \in Seq(Plan!Step)
    <3>1. steps \in Seq(Plan!Step) /\ <<>> \in Seq(Plan!Step)
      BY DEF PlanInv
    <3> QED
      BY <2>2, <3>1
  <2>4. result' # "success"
    BY <1>3, <2>1 DEF Plan!Entropy, PlanInv
  <2> QED
    BY <1>1, <2>1, <2>3, <2>4
<1>4. ASSUME NEW approved \in BOOLEAN, Plan!Auditor(approved)
      PROVE  PlanInv'
  <2>1. phase = "auditor" /\ UNCHANGED <<steps, outputs, met>> /\ result' # "success"
    BY <1>4 DEF Plan!Auditor
  <2> QED
    BY <1>1, <2>1 DEF PlanInv
<1>5. CASE Plan!Skip
  BY <1>5, PlanSteps DEF Plan!Skip
<1>6. ASSUME NEW outcome \in {"succeeded", "failed"}, Plan!Run(outcome)
      PROVE  PlanInv'
  BY <1>6, PlanSteps DEF Plan!Run
<1>7. CASE Plan!Report
  <2>1. /\ UNCHANGED <<steps, outputs, met>> /\ phase' = "done" /\ Len(outputs) = Len(steps)
        /\ result' = "success" => \A i \in DOMAIN outputs : outputs[i] # "failed"
    BY <1>7 DEF Plan!Report
  <2> QED
    BY <2>1 DEF PlanInv, Succeeded, Plan!Provided
<1>8. CASE UNCHANGED planVars
  BY <1>8 DEF planVars, PlanInv, Succeeded, Plan!Provided
<1> QED
  BY <1>2, <1>3, <1>4, <1>5, <1>6, <1>7, <1>8 DEF Plan!Next

\* The first step that did not succeed was skipped for one that did not either,
\* and in an order that can be followed that one came before it.
LEMMA SuccessIsAll ==
  ASSUME PlanInv, result = "success", Plan!Ordered, NEW i \in DOMAIN steps
  PROVE  outputs[i] = "succeeded"
<1> DEFINE Others == {j \in DOMAIN steps : outputs[j] # "succeeded"}
<1>1. /\ steps \in Seq(Plan!Step) /\ outputs \in Seq(Endings)
      /\ DOMAIN steps = 1 .. Len(steps) /\ Len(steps) \in Nat /\ DOMAIN outputs = DOMAIN steps
      /\ \A j \in DOMAIN outputs : outputs[j] # "failed"
  BY DEF PlanInv
<1>2. SUFFICES ASSUME i \in Others
               PROVE  FALSE
  OBVIOUS
<1>3. Others \in SUBSET Nat
  BY <1>1
<1>4. PICK m \in Others : \A j \in Others : m <= j
  BY <1>2, <1>3, LeastExists
<1>5. m \in DOMAIN steps /\ m \in Nat /\ outputs[m] = "skipped"
  <2>1. m \in DOMAIN outputs /\ outputs[m] # "succeeded"
    BY <1>1, <1>4
  <2>2. outputs[m] \in Endings
    BY <1>1, <2>1, ElementOfSeq
  <2> QED
    BY <1>1, <1>3, <1>4, <2>1, <2>2 DEF Endings
<1>6. PICK n \in steps[m].needs : ~Plan!Provided(n, m)
  BY <1>1, <1>5 DEF PlanInv
<1>7. PICK j \in 1 .. m - 1 : steps[j].name = n
  BY <1>5, <1>6 DEF Plan!Ordered
<1>8. j \in DOMAIN steps /\ j < m
  BY <1>1, <1>5, <1>7
<1>9. outputs[j] = "succeeded"
  BY <1>4, <1>5, <1>8
<1> QED
  BY <1>6, <1>7, <1>9 DEF Plan!Provided

\* A plan whose steps are in an order that can be followed is reported as a
\* success only if all of them were run and succeeded, whatever its models
\* answered (PlanningEngine.execute).
THEOREM PlansAreHonest == OrchestrationSpec => []PlanHonest
<1>1. OrchestrationInit => PlanInv
  BY PlanInit DEF OrchestrationInit
<1>2. [OrchestrationNext]_<<part, vars, engineVars, planVars, pollVars>> => [Plan!Next]_planVars
  BY DEF OrchestrationNext
<1>3. PlanInv => PlanHonest
  BY SuccessIsAll DEF PlanInv, PlanHonest, Plan!PlanHonest
<1> QED
  BY <1>1, <1>2, <1>3, PlanKept, PTL DEF OrchestrationSpec

(***************************************************************************)
(* The polls.                                                              *)
(***************************************************************************)

PollsInv == Polls!TypeOK /\ DecisionBacked

\* Adding a vote to a list of numbers counts it once.
LEMMA VoteCounts ==
  ASSUME NEW votes \in Polls!Votes, NEW d \in Polls!Decisions
  PROVE  [votes EXCEPT ![d] = @ + 1] \in Polls!Votes
BY DEF Polls!Votes, Polls!Decisions

\* What is written after a vote is a record of the poll.
LEMMA TallyIsRecord ==
  ASSUME NEW record \in Polls!Record, NEW d \in Polls!Decisions
  PROVE  Polls!Tally(record, d) \in Polls!Record
<1> DEFINE votes == [record.votes EXCEPT ![d] = @ + 1]
<1>1. record.votes \in Polls!Votes
  BY DEF Polls!Record
<1>2. votes \in Polls!Votes
  BY <1>1, VoteCounts
<1> HIDE DEF votes
<1>3. Polls!Tally(record, d) = [record EXCEPT !.votes = votes,
        !.status = IF Polls!Count(votes) < record.quorum THEN "pending"
                   ELSE IF votes["approve"] >= votes["reject"] THEN "reached" ELSE "failed"]
  BY DEF Polls!Tally, votes
<1> QED
  BY <1>2, <1>3 DEF Polls!Record

\* The outcome that is written is the one its own votes give: this asks nothing
\* of the record the voter read, which is why lost votes do no harm to it.
LEMMA TallyIsBacked ==
  ASSUME NEW record \in Polls!Record, NEW d \in Polls!Decisions
  PROVE  Polls!Backed(Polls!Tally(record, d))
<1> DEFINE votes == [record.votes EXCEPT ![d] = @ + 1]
           new == Polls!Tally(record, d)
<1>1. record.votes \in Polls!Votes /\ record.quorum \in Nat
  BY PollsAssumption DEF Polls!Record
<1>2. votes \in Polls!Votes
  BY <1>1, VoteCounts
<1>3. /\ new.votes = votes
      /\ new.quorum = record.quorum
      /\ new.status = IF Polls!Count(votes) < record.quorum THEN "pending"
                      ELSE IF votes["approve"] >= votes["reject"] THEN "reached" ELSE "failed"
  BY DEF Polls!Tally, Polls!Record
<1> HIDE DEF votes, new
<1>4. Polls!Count(votes) \in Nat /\ votes["approve"] \in Nat /\ votes["reject"] \in Nat
  BY <1>2 DEF Polls!Count, Polls!Votes, Polls!Decisions
<1>5. Polls!Backed(new)
  <2>1. CASE Polls!Count(votes) < record.quorum
    BY <2>1, <1>3 DEF Polls!Backed
  <2>2. CASE ~(Polls!Count(votes) < record.quorum)
    BY <2>2, <1>1, <1>3, <1>4 DEF Polls!Backed
  <2> QED
    BY <2>1, <2>2
<1> QED
  BY <1>5 DEF new

\* A new poll is pending with no votes.
LEMMA PollsInit == Polls!Init => PollsInv
BY DEF Polls!Init, PollsInv, Polls!TypeOK, DecisionBacked, Polls!DecisionBacked

\* Each step of a voter keeps the invariant.
LEMMA PollsKept ==
  ASSUME PollsInv, [Polls!Next]_pollVars
  PROVE  PollsInv'
<1> USE DEF PollsInv, Polls!TypeOK, DecisionBacked, Polls!DecisionBacked
<1>1. ASSUME NEW p \in Targets, NEW quorum \in Quorums, Polls!CreatePoll(p, quorum)
      PROVE  PollsInv'
  <2> DEFINE new == [status |-> "pending", quorum |-> quorum,
                     votes |-> [d \in Polls!Decisions |-> 0]]
  <2>1. new \in Polls!Record
    BY DEF Polls!Record, Polls!Votes
  <2>2. Polls!Backed(new)
    BY DEF Polls!Backed, Polls!Count, Polls!Decisions
  <2> HIDE DEF new
  <2>3. records' = [records EXCEPT ![p] = new] /\ UNCHANGED ballot
    BY <1>1 DEF Polls!CreatePoll, new
  <2> QED
    BY <2>1, <2>2, <2>3
<1>2. ASSUME NEW v \in Threads, NEW p \in Targets, NEW d \in Polls!Decisions,
             Polls!ReadRecord(v, p, d)
      PROVE  PollsInv'
  <2>1. [poll |-> p, record |-> records[p], vote |-> d] \in Polls!Ballot
    BY <1>2 DEF Polls!ReadRecord, Polls!Ballot
  <2> QED
    BY <1>2, <2>1 DEF Polls!ReadRecord
<1>3. ASSUME NEW v \in Threads, Polls!WriteRecord(v)
      PROVE  PollsInv'
  <2>1. PICK b \in Polls!Ballot : b = ballot[v]
    BY <1>3 DEF Polls!WriteRecord
  <2>2. b.poll \in Targets /\ b.record \in Polls!Record /\ b.vote \in Polls!Decisions
    BY <2>1 DEF Polls!Ballot
  <2>3. PICK new \in Polls!Record : new = Polls!Tally(b.record, b.vote) /\ Polls!Backed(new)
    BY <2>2, TallyIsRecord, TallyIsBacked
  <2>4. records' = [records EXCEPT ![b.poll] = new] /\ ballot' = [ballot EXCEPT ![v] = None]
    BY <1>3, <2>1, <2>3 DEF Polls!WriteRecord
  <2> QED
    BY <2>2, <2>3, <2>4
<1>4. CASE UNCHANGED pollVars
  BY <1>4 DEF pollVars
<1> QED
  BY <1>1, <1>2, <1>3, <1>4 DEF Polls!Next

\* However the votes of a poll overwrite each other (ConsensusEngine.cast_vote),
\* what a settled poll says is what its recorded votes say.
THEOREM DecisionIsBacked == OrchestrationSpec => []DecisionBacked
<1>1. OrchestrationInit => PollsInv
  BY PollsInit DEF OrchestrationInit
<1>2. [OrchestrationNext]_<<part, vars, engineVars, planVars, pollVars>> => [Polls!Next]_pollVars
  BY DEF OrchestrationNext
<1>3. PollsInv => DecisionBacked
  BY DEF PollsInv
<1> QED
  BY <1>1, <1>2, <1>3, PollsKept, PTL DEF OrchestrationSpec

\* A behaviour of Orchestration is, seen through the variables of any of its
\* modules, a behaviour of that module: what the modules promise, it keeps.
THEOREM OrchestrationImplements ==
  OrchestrationSpec => Spec /\ Engines!Spec /\ Plan!Spec /\ Polls!Spec
<1> DEFINE all == <<part, vars, engineVars, planVars, pollVars>>
<1>1. OrchestrationInit => Init /\ Engines!Init /\ Plan!Init /\ Polls!Init
  BY DEF OrchestrationInit
<1>2. [OrchestrationNext]_all => [Next]_vars
  BY DEF OrchestrationNext
<1>3. [OrchestrationNext]_all => [Engines!Next]_(Engines!vars)
  BY DEF OrchestrationNext, engineVars, Engines!vars
<1>4. [OrchestrationNext]_all => [Plan!Next]_(Plan!vars)
  BY DEF OrchestrationNext, planVars, Plan!vars
<1>5. [OrchestrationNext]_all => [Polls!Next]_(Polls!vars)
  BY DEF OrchestrationNext, pollVars, Polls!vars
<1> QED
  BY <1>1, <1>2, <1>3, <1>4, <1>5, PTL
     DEF OrchestrationSpec, Spec, Engines!Spec, Plan!Spec, Polls!Spec

\* What the requests promise of approvals holds of every behaviour of Orchestration:
\* they implement the one-shot approval, and each run is paid for by one of its own.
THEOREM ExecutionCorrect == OrchestrationSpec => OneShotSpec /\ []RunsPaidFor
BY OrchestrationImplements, ImplementsOneShot, RunsArePaidFor, PTL
=============================================================================
