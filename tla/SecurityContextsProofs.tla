----------------------- MODULE SecurityContextsProofs -----------------------
(* That a stored authority only shrinks, for any number of threads, tasks,
   owners, credentials, privileges, approvals and versions. *)
EXTENDS SecurityContexts, TLAPS

IInv == TypeOK /\ Validated

\* A record with another pc is no save in flight.
LEMMA IdleIsNoSave == \A r \in Saving : r # Idle /\ r.pc = "saving"
  BY DEF Saving, Idle

\* Init establishes the invariant.
LEMMA InitEstablishes == Init => IInv
  BY DEF Init, IInv, TypeOK, Validated, Row, Idle

\* Each step of a thread keeps it.
LEMMA StepPreserves == IInv /\ [Next]_vars => IInv'
<1> SUFFICES ASSUME IInv, [Next]_vars PROVE IInv'
  OBVIOUS
<1> USE DEF IInv, TypeOK, Validated
<1>1. ASSUME NEW c \in Threads, NEW t \in Tasks, SaveRead(c, t)
      PROVE  IInv'
  <2> PICK new \in Context :
        /\ contexts[t] # Absent => Continues(contexts[t], new)
        /\ req' = [req EXCEPT ![c] =
                     [pc |-> "saving", task |-> t, read |-> contexts[t], new |-> new]]
    BY <1>1 DEF SaveRead
  <2> DEFINE save == [pc |-> "saving", task |-> t, read |-> contexts[t], new |-> new]
  <2>1. save \in Saving
    BY <1>1 DEF Saving
  <2>2. TypeOK'
    BY <1>1, <2>1 DEF SaveRead
  <2>3. ASSUME NEW d \in Threads, req'[d].pc = "saving", req'[d].read # Absent
        PROVE  Continues(req'[d].read, req'[d].new)
    <3>1. CASE d = c
      <4>1. req'[d] = save
        BY <1>1, <3>1 DEF SaveRead
      <4> QED BY <4>1, <2>3, <1>1 DEF SaveRead
    <3>2. CASE d # c
      BY <1>1, <2>3, <3>2 DEF SaveRead
    <3> QED BY <3>1, <3>2
  <2> QED BY <2>2, <2>3
<1>2. ASSUME NEW c \in Threads, SaveWrite(c) PROVE IInv'
  <2>1. req[c] \in Saving
    BY <1>2 DEF SaveWrite, Idle
  <2>2. req[c].new \in Row
    BY <2>1 DEF Saving, Row
  <2>3. TypeOK'
    BY <1>2, <2>2 DEF SaveWrite
  <2>4. Validated'
    BY <1>2 DEF SaveWrite, Idle
  <2> QED BY <2>3, <2>4
<1>3. ASSUME NEW c \in Threads, SaveConflict(c) PROVE IInv'
  BY <1>3 DEF SaveConflict, Idle
<1>4. ASSUME NEW c \in Threads, NEW t \in Tasks, Delete(c, t) PROVE IInv'
  BY <1>4 DEF Delete, Row
<1>5. ASSUME NEW c \in Threads, ProcessEnds(c) PROVE IInv'
  BY <1>5 DEF ProcessEnds, Idle
<1>6. CASE UNCHANGED vars
  BY <1>6 DEF vars
<1> QED
  BY <1>1, <1>2, <1>3, <1>4, <1>5, <1>6 DEF Next

\* The table and the requests hold what they should, always.
THEOREM TypeCorrect == Spec => []TypeOK
<1>1. Init => IInv
  BY InitEstablishes
<1>2. IInv /\ [Next]_vars => IInv'
  BY StepPreserves
<1>3. IInv => TypeOK
  BY DEF IInv
<1> QED BY <1>1, <1>2, <1>3, PTL DEF Spec

\* What validation allows is what AuthorityOnlyShrinks says.
LEMMA ContinuesIsWithin ==
  ASSUME NEW old \in Context, NEW new \in Context, Continues(old, new)
  PROVE  Within(old, new)
<1>1. new.privileges \ old.privileges = {}
  BY DEF Continues, Context
<1>2. new.version \in old.version .. MaxVersion
  BY VersionAssumption DEF Continues, Context
<1>3. new.credential \in {old.credential} \cup
        (IF old.credential = Unbound THEN Credentials ELSE {})
  BY DEF Continues, Context
<1>4. new.approval \in {old.approval} \cup
        (IF old.approval = Unbound THEN Approvals ELSE {})
  BY DEF Continues, Context
<1> QED BY <1>1, <1>2, <1>3, <1>4 DEF Within, Continues

\* A context stays within itself.
LEMMA WithinItself == ASSUME NEW old \in Context PROVE Within(old, old)
<1>1. Continues(old, old)
  BY VersionAssumption DEF Continues, Context
<1> QED BY <1>1, ContinuesIsWithin

\* A task's stored authority never grows and never changes hands while it is
\* stored, whatever the threads save and in whatever order.  The write goes through
\* only if the row is the one the save was validated against.
THEOREM AuthorityShrinks == Spec => AuthorityOnlyShrinks
<1> DEFINE Shrinks ==
      \A t \in Tasks :
        contexts[t] # Absent /\ contexts'[t] # Absent => Within(contexts[t], contexts'[t])
<1>1. Init => IInv
  BY InitEstablishes
<1>2. IInv /\ [Next]_vars => IInv'
  BY StepPreserves
<1>3. ASSUME IInv, [Next]_vars PROVE [Shrinks]_vars
  <2> SUFFICES ASSUME NEW t \in Tasks, contexts[t] # Absent, contexts'[t] # Absent
               PROVE  Within(contexts[t], contexts'[t])
    OBVIOUS
  <2>1. contexts[t] \in Context
    BY <1>3 DEF IInv, TypeOK, Row
  <2>2. contexts'[t] = contexts[t] => Within(contexts[t], contexts'[t])
    BY <2>1, WithinItself
  <2>3. ASSUME NEW c \in Threads, SaveWrite(c)
        PROVE  Within(contexts[t], contexts'[t])
    <3>1. req[c] \in Saving
      BY <1>3, <2>3 DEF IInv, TypeOK, SaveWrite, Idle
    <3>2. CASE t = req[c].task
      <4>1. contexts'[t] = req[c].new /\ contexts[t] = req[c].read
        BY <1>3, <2>3, <3>2 DEF SaveWrite, IInv, TypeOK
      <4>2. Continues(contexts[t], contexts'[t])
        BY <1>3, <2>3, <4>1 DEF IInv, Validated, SaveWrite
      <4>3. contexts'[t] \in Context
        BY <3>1, <4>1 DEF Saving
      <4> QED BY <2>1, <4>2, <4>3, ContinuesIsWithin
    <3>3. CASE t # req[c].task
      BY <1>3, <2>2, <2>3, <3>3 DEF SaveWrite, IInv, TypeOK
    <3> QED BY <3>2, <3>3
  <2>4. ASSUME NEW c \in Threads, NEW s \in Tasks, Delete(c, s)
        PROVE  Within(contexts[t], contexts'[t])
    BY <1>3, <2>2, <2>4 DEF Delete, IInv, TypeOK
  <2>5. ASSUME contexts' = contexts PROVE Within(contexts[t], contexts'[t])
    BY <2>2, <2>5
  <2> QED
    BY <1>3, <2>3, <2>4, <2>5
    DEF Next, vars, SaveRead, SaveConflict, ProcessEnds
<1> QED BY <1>1, <1>2, <1>3, PTL DEF Spec, AuthorityOnlyShrinks

=============================================================================
