--------------------------- MODULE GatewayProofs ---------------------------
(***************************************************************************)
(* Proofs about Gateway: for any number of threads, principals, keys,      *)
(* tenants, nodes, queues and tokens, and any limit and window.            *)
(***************************************************************************)
EXTENDS Gateway, FiniteSetTheorems, SequenceTheorems, TLAPS

(***************************************************************************)
(* Credentials.                                                            *)
(***************************************************************************)

\* What a request presents has been issued, and what it disables is there.
Presented ==
  \A t \in Threads :
    /\ thread[t].pc \in {"state", "again", "consume"} => thread[t].id \in DOMAIN pairs
    /\ thread[t].pc = "disable" => cred[thread[t].of] # None

\* The clock is ahead of every version, written, issued or read.
Older ==
  /\ \A c \in Creds : cred[c] # None => cred[c].version < stamp
  /\ \A i \in DOMAIN pairs : pairs[i].version < stamp
  /\ \A t \in Threads : thread[t].pc = "login" => thread[t].row.version < stamp

\* A login is a pair's index, and all its pairs are of one credential.
LoginsKept ==
  /\ dead \subseteq DOMAIN pairs
  /\ \A i \in DOMAIN pairs : pairs[i].login \in DOMAIN pairs
  /\ \A i, j \in DOMAIN pairs : pairs[i].login = pairs[j].login => pairs[i].of = pairs[j].of

\* A token that was exchanged is revoked.
ParentsRevoked == \A i \in DOMAIN pairs : pairs[i].parent # None => pairs[i].parent \in revoked

\* A row that may be logged in with is not the one a dead login was made with.
Ended ==
  \A i \in DOMAIN pairs :
    pairs[i].login \in dead =>
      ~(Usable(pairs[i].of) /\ cred[pairs[i].of].version = pairs[i].version)

\* An administrator of one org asks for nothing out of it.
AskedInScope ==
  \A t \in Threads :
    thread[t].pc = "upsert" /\ thread[t].scope # None => thread[t].org = thread[t].scope

CredentialsInv ==
  /\ TypeOK /\ Presented /\ Older /\ LoginsKept /\ ParentsRevoked
  /\ RefreshOnce /\ Ended /\ AskedInScope

-----------------------------------------------------------------------------

\* What a step may make of a row: nothing, an unusable one, or one of this moment.
Renewed(c) ==
  \/ cred'[c] = None
  \/ cred'[c] # None /\ cred'[c].active = FALSE
  \/ cred'[c] # None /\ cred'[c].version = stamp /\ stamp' = stamp + 1

\* A write of rows that ends the logins of c.
Written(c) ==
  /\ c \in Creds
  /\ dead' = dead \cup LoginsOf(c)
  /\ UNCHANGED <<pairs, revoked, expired>>
  /\ cred' \in [Creds -> Row \cup {None}]
  /\ stamp' \in Stamps /\ stamp' \in {stamp, stamp + 1}
  /\ Renewed(c)
  /\ \A d \in Creds : cred'[d] = cred[d] \/ Renewed(d)
  /\ \A d \in Creds : cred'[d] # None => cred'[d].version < stamp'
  /\ \A p \in Principals : cred[p] # None => cred'[p] # None

\* A row of this moment, written with the clock.
LEMMA NewRow ==
  ASSUME CredentialsInv, NEW c \in Creds, NEW row \in Row, row.version = stamp, Tick,
         Change(c, row)
  PROVE  Written(c)
<1>1. /\ cred' = [cred EXCEPT ![c] = row] /\ cred \in [Creds -> Row \cup {None}]
      /\ stamp' = stamp + 1 /\ stamp' \in Stamps /\ row # None
  BY CredentialAssumption, BoundAssumption DEF Change, Tick, CredentialsInv, TypeOK, Stamps
<1>2. /\ cred' \in [Creds -> Row \cup {None}] /\ cred'[c] = row
      /\ \A d \in Creds : d # c => cred'[d] = cred[d]
  BY <1>1
<1>3. ASSUME NEW d \in Creds, cred'[d] # None
      PROVE  cred'[d].version < stamp'
  <2>1. CASE d = c
    BY <1>1, <1>2, <2>1 DEF CredentialsInv, TypeOK, Stamps
  <2>2. CASE d # c
    <3>1. cred[d].version < stamp /\ cred[d].version \in Nat /\ stamp \in Nat
      BY <1>1, <1>2, <1>3, <2>2 DEF CredentialsInv, TypeOK, Older, Stamps, Row
    <3> QED
      BY <1>1, <1>2, <2>2, <3>1
  <2> QED
    BY <2>1, <2>2
<1> QED
  BY <1>1, <1>2, <1>3 DEF Written, Renewed, Change

\* A row withdrawn, with or without the clock.
LEMMA OldRow ==
  ASSUME CredentialsInv, NEW c \in Creds, NEW row \in Row, row.active = FALSE,
         \/ UNCHANGED stamp /\ row.version < stamp
         \/ Tick /\ row.version = stamp,
         Change(c, row)
  PROVE  Written(c)
<1>1. /\ cred' = [cred EXCEPT ![c] = row] /\ cred \in [Creds -> Row \cup {None}]
      /\ stamp' \in {stamp, stamp + 1} /\ stamp' \in Stamps /\ row # None
  BY CredentialAssumption, BoundAssumption DEF Change, Tick, CredentialsInv, TypeOK, Stamps
<1>2. /\ cred' \in [Creds -> Row \cup {None}] /\ cred'[c] = row
      /\ \A d \in Creds : d # c => cred'[d] = cred[d]
  BY <1>1
<1>3. ASSUME NEW d \in Creds, cred'[d] # None
      PROVE  cred'[d].version < stamp'
  <2>1. CASE d = c
    BY <1>1, <1>2, <2>1 DEF CredentialsInv, TypeOK, Stamps, Tick
  <2>2. CASE d # c
    <3>1. cred[d].version < stamp /\ cred[d].version \in Nat /\ stamp \in Nat
      BY <1>1, <1>2, <1>3, <2>2 DEF CredentialsInv, TypeOK, Older, Stamps, Row
    <3> QED
      BY <1>1, <1>2, <2>2, <3>1
  <2> QED
    BY <2>1, <2>2
<1> QED
  BY <1>1, <1>2, <1>3 DEF Written, Renewed, Change

\* A pending request that a step has let through to its write.
LEMMA AskFacts ==
  ASSUME CredentialsInv, NEW t \in Threads
  PROVE  /\ thread[t].pc = "upsert" => /\ thread[t].of \in Principals
                                       /\ thread[t].role \in Roles /\ thread[t].org \in Orgs
         /\ thread[t].pc = "disable" => /\ thread[t].of \in Principals
                                        /\ cred[thread[t].of] \in Row
BY DEF CredentialsInv, TypeOK, Thread, Idle, Presented, Creds

\* Every step leaves the rows alone or writes them as a whole.
LEMMA CredStep ==
  ASSUME CredentialsInv, [Next]_vars
  PROVE  UNCHANGED <<cred, stamp, dead>> \/ \E c \in Creds : Written(c)
<1>1. ASSUME NEW t \in Threads, Upsert(t)
      PROVE  UNCHANGED <<cred, stamp, dead>> \/ \E c \in Creds : Written(c)
  <2> DEFINE a == thread[t]
             row == [role |-> a.role, org |-> a.org, version |-> stamp, active |-> TRUE]
  <2>1. a.pc = "upsert" /\ a.of \in Creds /\ row \in Row
    BY <1>1, AskFacts DEF Upsert, Row, CredentialsInv, TypeOK, Creds
  <2>2. UNCHANGED <<cred, stamp, dead>> \/ (Tick /\ Change(a.of, row))
    BY <1>1 DEF Upsert
  <2>3. row.version = stamp
    OBVIOUS
  <2> HIDE DEF row
  <2> QED
    BY <2>1, <2>2, <2>3, NewRow
<1>2. ASSUME NEW t \in Threads, Disable(t)
      PROVE  UNCHANGED <<cred, stamp, dead>> \/ \E c \in Creds : Written(c)
  <2> DEFINE a == thread[t]
             row == [cred[a.of] EXCEPT !.active = FALSE, !.version = stamp]
  <2>1. a.pc = "disable" /\ a.of \in Creds /\ cred[a.of] \in Row /\ stamp \in Stamps
    BY <1>2, AskFacts DEF Disable, Creds, CredentialsInv, TypeOK
  <2>2. row \in Row /\ row.active = FALSE /\ row.version = stamp
    BY <2>1 DEF Row
  <2>3. UNCHANGED <<cred, stamp, dead>> \/ (Tick /\ Change(a.of, row))
    BY <1>2 DEF Disable
  <2> HIDE DEF row
  <2> QED
    BY <2>1, <2>2, <2>3, OldRow
<1>3. ASSUME NEW k \in ApiKeys, IssueKey(k)
      PROVE  \E c \in Creds : Written(c)
  <2>1. PICK role \in Roles, org \in Orgs :
          Change(k, [role |-> role, org |-> org, version |-> stamp, active |-> TRUE])
    BY <1>3 DEF IssueKey
  <2> DEFINE row == [role |-> role, org |-> org, version |-> stamp, active |-> TRUE]
  <2>2. row \in Row /\ row.version = stamp /\ k \in Creds /\ Tick
    BY <1>3 DEF IssueKey, Row, CredentialsInv, TypeOK, Creds
  <2> HIDE DEF row
  <2> QED
    BY <2>1, <2>2, NewRow DEF row
<1>4. ASSUME NEW k \in ApiKeys, RevokeKey(k)
      PROVE  \E c \in Creds : Written(c)
  <2> DEFINE row == [cred[k] EXCEPT !.active = FALSE]
  <2>1. k \in Creds /\ cred[k] \in Row /\ cred[k].version < stamp /\ UNCHANGED stamp
    BY <1>4 DEF RevokeKey, Usable, CredentialsInv, TypeOK, Older, Creds
  <2>2. row \in Row /\ row.active = FALSE /\ row.version < stamp
    BY <2>1 DEF Row
  <2>3. Change(k, row)
    BY <1>4 DEF RevokeKey
  <2> HIDE DEF row
  <2> QED
    BY <2>1, <2>2, <2>3, OldRow
<1>5. ASSUME NEW k \in ApiKeys, PurgeKey(k)
      PROVE  Written(k)
  <2>1. /\ cred' = [cred EXCEPT ![k] = None] /\ k \in Creds /\ k \notin Principals
        /\ cred \in [Creds -> Row \cup {None}] /\ UNCHANGED stamp
    BY <1>5, CredentialAssumption DEF PurgeKey, Change, CredentialsInv, TypeOK, Creds
  <2>2. /\ cred' \in [Creds -> Row \cup {None}] /\ cred'[k] = None
        /\ \A d \in Creds : d # k => cred'[d] = cred[d]
    BY <2>1
  <2> QED
    BY <1>5, <2>1, <2>2
    DEF PurgeKey, Change, Written, Renewed, CredentialsInv, TypeOK, Older, Creds
<1>6. ASSUME NEW k \in ApiKeys, Rotate(k)
      PROVE  Written(k)
  <2>1. PICK new \in ApiKeys :
          /\ cred[new] = None
          /\ cred' = [cred EXCEPT ![k].active = FALSE, ![new] = [cred[k] EXCEPT !.version = stamp]]
    BY <1>6 DEF Rotate
  <2> DEFINE off == [cred[k] EXCEPT !.active = FALSE]
             row == [cred[k] EXCEPT !.version = stamp]
  <2>2. /\ k \in Creds /\ new \in Creds /\ new # k /\ cred[k] \in Row /\ cred[k].version < stamp
        /\ stamp' = stamp + 1 /\ stamp \in Stamps /\ stamp' \in Stamps
        /\ cred \in [Creds -> Row \cup {None}]
    BY <1>6, <2>1, BoundAssumption
    DEF Rotate, Usable, Tick, CredentialsInv, TypeOK, Older, Creds, Stamps
  <2>3. /\ off \in Row /\ off.active = FALSE /\ off.version < stamp
        /\ row \in Row /\ row.version = stamp
    BY <2>2 DEF Row
  <2>4. /\ DOMAIN cred' = Creds /\ cred'[k] = off /\ cred'[new] = row
        /\ \A d \in Creds : d \notin {k, new} => cred'[d] = cred[d]
    BY <2>1, <2>2
  <2> HIDE DEF off, row
  <2>5. cred' \in [Creds -> Row \cup {None}]
    <3>1. \A d \in Creds : cred'[d] \in Row \cup {None}
      BY <2>2, <2>3, <2>4
    <3>2. cred' = [d \in Creds |-> cred'[d]]
      BY <2>1, <2>2
    <3> QED
      BY <3>1, <3>2
  <2>6. off # None /\ row # None
    BY <2>3, CredentialAssumption
  <2>7. \A d \in Creds : cred'[d] # None => cred'[d].version < stamp'
    BY <2>2, <2>3, <2>4 DEF CredentialsInv, TypeOK, Older, Stamps, Row
  <2>8. \A d \in Creds : cred'[d] = cred[d] \/ Renewed(d)
    BY <2>2, <2>3, <2>4, <2>6 DEF Renewed
  <2>9. \A p \in Principals : cred[p] # None => cred'[p] # None
    BY <2>4, CredentialAssumption DEF Creds
  <2> QED
    BY <1>6, <2>2, <2>3, <2>4, <2>5, <2>6, <2>7, <2>8, <2>9 DEF Rotate, Written, Renewed
<1>7. \/ UNCHANGED <<cred, stamp, dead>>
      \/ \E t \in Threads : Upsert(t) \/ Disable(t)
      \/ \E k \in ApiKeys : IssueKey(k) \/ RevokeKey(k) \/ PurgeKey(k) \/ Rotate(k)
  BY DEF Next, vars, Login, LoginIssue, Refresh, RefreshState, RefreshVerify, RefreshConsume,
         AskUpsert, AskDisable, Abort, Expire
<1> QED
  BY <1>1, <1>2, <1>3, <1>4, <1>5, <1>6, <1>7 DEF Creds

-----------------------------------------------------------------------------

\* What a new pair is: one of a login that was read, or of a token not yet spent.
LoggedIn(p) ==
  \E t \in Threads :
    /\ thread[t].pc = "login" /\ p.of = thread[t].of /\ p.version = thread[t].row.version
    /\ p.login = Len(pairs) + 1 /\ p.parent = None
    /\ UNCHANGED revoked
Exchanged(p) ==
  \E i \in DOMAIN pairs :
    /\ i \notin revoked /\ revoked' = revoked \cup {i}
    /\ p.of = pairs[i].of /\ p.version = pairs[i].version /\ p.login = pairs[i].login
    /\ p.parent = i

\* Every step leaves the pairs alone or adds one.
LEMMA PairStep ==
  ASSUME CredentialsInv, [Next]_vars
  PROVE  \/ UNCHANGED pairs /\ revoked \subseteq revoked'
         \/ /\ UNCHANGED <<cred, stamp, dead>> /\ Len(pairs) < MaxPairs
            /\ \E p \in Pair : pairs' = Append(pairs, p) /\ (LoggedIn(p) \/ Exchanged(p))
<1>1. ASSUME NEW t \in Threads, LoginIssue(t)
      PROVE  /\ UNCHANGED <<cred, stamp, dead>> /\ Len(pairs) < MaxPairs
             /\ \E p \in Pair : pairs' = Append(pairs, p) /\ LoggedIn(p)
  <2> DEFINE row == thread[t].row
             p == [of |-> thread[t].of, role |-> row.role, org |-> row.org,
                   version |-> row.version, login |-> Len(pairs) + 1, parent |-> None]
  <2>1. /\ thread[t].pc = "login" /\ thread[t].of \in Creds /\ row \in Row
        /\ Len(pairs) \in Nat /\ Len(pairs) < MaxPairs
    BY <1>1 DEF LoginIssue, Issue, CredentialsInv, TypeOK, Thread, Idle
  <2>2. Len(pairs) + 1 \in Ids
    BY <2>1, BoundAssumption DEF Ids
  <2>3. p \in Pair
    BY <2>1, <2>2 DEF Pair, Row
  <2>4. pairs' = Append(pairs, p) /\ UNCHANGED <<cred, stamp, dead, revoked>>
    BY <1>1 DEF LoginIssue, Issue
  <2>5. LoggedIn(p)
    BY <2>1, <2>4 DEF LoggedIn
  <2> QED
    BY <2>1, <2>3, <2>4, <2>5
<1>2. ASSUME NEW t \in Threads, RefreshConsume(t)
      PROVE  \/ UNCHANGED pairs /\ revoked \subseteq revoked'
             \/ /\ UNCHANGED <<cred, stamp, dead>> /\ Len(pairs) < MaxPairs
                /\ \E p \in Pair : pairs' = Append(pairs, p) /\ Exchanged(p)
  <2> DEFINE i == thread[t].id
             p == [pairs[i] EXCEPT !.parent = i]
  <2>1. /\ thread[t].pc = "consume" /\ i \in Ids /\ i \in DOMAIN pairs /\ pairs[i] \in Pair
    BY <1>2, ElementOfSeq DEF RefreshConsume, CredentialsInv, TypeOK, Thread, Idle, Presented
  <2>2. p \in Pair /\ p.of = pairs[i].of /\ p.version = pairs[i].version
        /\ p.login = pairs[i].login /\ p.parent = i
    BY <2>1 DEF Pair
  <2>3. /\ revoked' = revoked \cup {i} /\ UNCHANGED <<cred, stamp, dead>>
        /\ IF i \in revoked THEN UNCHANGED pairs
           ELSE Len(pairs) < MaxPairs /\ pairs' = Append(pairs, p)
    BY <1>2 DEF RefreshConsume, Issue
  <2> HIDE DEF i, p
  <2> QED
    BY <2>1, <2>2, <2>3 DEF Exchanged
<1>3. \/ UNCHANGED pairs /\ revoked \subseteq revoked'
      \/ \E t \in Threads : LoginIssue(t) \/ RefreshConsume(t)
  BY DEF Next, vars, Login, Refresh, RefreshState, RefreshVerify,
         AskUpsert, Upsert, AskDisable, Disable, Abort, Expire, IssueKey, RevokeKey, PurgeKey,
         Rotate, Change
<1> QED
  BY <1>1, <1>2, <1>3

\* The pairs after a step are those before it, and one more at most.
LEMMA PairsGrow ==
  ASSUME CredentialsInv, [Next]_vars
  PROVE  /\ pairs' \in Seq(Pair) /\ Len(pairs') \in Nat /\ Len(pairs') <= MaxPairs
         /\ DOMAIN pairs \subseteq DOMAIN pairs'
         /\ \A i \in DOMAIN pairs : pairs'[i] = pairs[i] /\ pairs[i] \in Pair
<1>1. pairs \in Seq(Pair) /\ Len(pairs) \in Nat /\ Len(pairs) <= MaxPairs
  BY DEF CredentialsInv, TypeOK
<1>2. \A i \in DOMAIN pairs : pairs[i] \in Pair
  BY <1>1, ElementOfSeq
<1>3. ASSUME NEW p \in Pair, pairs' = Append(pairs, p), Len(pairs) < MaxPairs
      PROVE  /\ pairs' \in Seq(Pair) /\ Len(pairs') = Len(pairs) + 1
             /\ DOMAIN pairs \subseteq DOMAIN pairs'
             /\ \A i \in DOMAIN pairs : pairs'[i] = pairs[i]
  BY <1>1, <1>3, AppendProperties
<1> QED
  BY <1>1, <1>2, <1>3, PairStep, BoundAssumption

\* What a thread does next.
LEMMA PendingStep ==
  ASSUME CredentialsInv, [Next]_vars
  PROVE  \/ UNCHANGED thread
         \/ \E t \in Threads, x \in Thread :
              /\ thread' = [thread EXCEPT ![t] = x]
              /\ x.pc = "login" => \E c \in Creds : Usable(c) /\ x.row = cred[c]
              /\ x.pc \in {"state", "again", "consume"} => x.id \in DOMAIN pairs
              /\ x.pc = "upsert" => (x.scope # None => x.org = x.scope)
              /\ x.pc = "disable" => cred[x.of] # None
<1> DEFINE Goes(t, x) ==
      /\ thread' = [thread EXCEPT ![t] = x]
      /\ x.pc = "login" => \E c \in Creds : Usable(c) /\ x.row = cred[c]
      /\ x.pc \in {"state", "again", "consume"} => x.id \in DOMAIN pairs
      /\ x.pc = "upsert" => (x.scope # None => x.org = x.scope)
      /\ x.pc = "disable" => cred[x.of] # None
<1>1. ASSUME NEW t \in Threads, thread' = [thread EXCEPT ![t] = Idle]
      PROVE  \E x \in Thread : Goes(t, x)
  <2>1. Idle \in Thread /\ Idle.pc = "idle"
    BY DEF Idle, Thread
  <2> QED
    BY <1>1, <2>1
<1>2. ASSUME NEW t \in Threads, Login(t)
      PROVE  \E x \in Thread : Goes(t, x)
  <2>1. PICK c \in Creds : Usable(c) /\ Go(t, [pc |-> "login", of |-> c, row |-> cred[c]])
    BY <1>2 DEF Login
  <2>2. [pc |-> "login", of |-> c, row |-> cred[c]] \in Thread
    BY <2>1 DEF Thread, Usable, CredentialsInv, TypeOK
  <2> QED
    BY <2>1, <2>2 DEF Go
<1>3. ASSUME NEW t \in Threads, NEW pc \in {"state", "again", "consume"}, NEW i \in DOMAIN pairs,
             Go(t, [pc |-> pc, id |-> i])
      PROVE  \E x \in Thread : Goes(t, x)
  <2>1. i \in Ids
    BY BoundAssumption DEF Ids, CredentialsInv, TypeOK
  <2>2. [pc |-> pc, id |-> i] \in Thread
    BY <2>1 DEF Thread
  <2> QED
    BY <1>3, <2>2 DEF Go
<1>4. ASSUME NEW t \in Threads, Refresh(t) \/ RefreshState(t) \/ RefreshVerify(t)
      PROVE  \E x \in Thread : Goes(t, x)
  <2>1. thread[t].pc \in {"state", "again", "consume"} => thread[t].id \in DOMAIN pairs
    BY DEF CredentialsInv, Presented
  <2>2. \/ Go(t, Idle)
        \/ \E pc \in {"state", "again", "consume"}, i \in DOMAIN pairs : Go(t, [pc |-> pc, id |-> i])
    BY <1>4, <2>1 DEF Refresh, RefreshState, RefreshVerify
  <2> QED
    BY <1>1, <1>3, <2>2 DEF Go
<1>5. ASSUME NEW t \in Threads, AskUpsert(t)
      PROVE  \E x \in Thread : Goes(t, x)
  <2>1. PICK c \in Principals, role \in Roles, org \in Orgs, scope \in Orgs \cup {None} :
          /\ scope # None => org = scope
          /\ Go(t, [pc |-> "upsert", of |-> c, role |-> role, org |-> org, scope |-> scope])
    BY <1>5 DEF AskUpsert
  <2>2. [pc |-> "upsert", of |-> c, role |-> role, org |-> org, scope |-> scope] \in Thread
    BY DEF Thread
  <2> QED
    BY <2>1, <2>2 DEF Go
<1>6. ASSUME NEW t \in Threads, AskDisable(t)
      PROVE  \E x \in Thread : Goes(t, x)
  <2>1. PICK c \in Principals, scope \in Orgs \cup {None} :
          cred[c] # None /\ Go(t, [pc |-> "disable", of |-> c, scope |-> scope])
    BY <1>6 DEF AskDisable
  <2>2. [pc |-> "disable", of |-> c, scope |-> scope] \in Thread
    BY DEF Thread
  <2> QED
    BY <2>1, <2>2 DEF Go
<1>7. \/ UNCHANGED thread
      \/ \E t \in Threads :
           \/ Login(t) \/ Refresh(t) \/ RefreshState(t) \/ RefreshVerify(t)
           \/ AskUpsert(t) \/ AskDisable(t)
           \/ thread' = [thread EXCEPT ![t] = Idle]
  BY DEF Next, vars, LoginIssue, RefreshConsume, Upsert, Disable, Abort, Expire, IssueKey,
         RevokeKey, PurgeKey, Rotate, Go
<1> QED
  BY <1>1, <1>2, <1>4, <1>5, <1>6, <1>7

\* A pair after a step: one that was there, or the new one.
LEMMA OldOrNew ==
  ASSUME CredentialsInv, [Next]_vars, NEW i \in DOMAIN pairs'
  PROVE  \/ i \in DOMAIN pairs /\ pairs'[i] = pairs[i]
         \/ /\ i = Len(pairs) + 1 /\ i \notin DOMAIN pairs
            /\ UNCHANGED <<cred, stamp, dead>> /\ pairs'[i] \in Pair
            /\ LoggedIn(pairs'[i]) \/ Exchanged(pairs'[i])
<1>1. pairs \in Seq(Pair) /\ Len(pairs) \in Nat
  BY DEF CredentialsInv, TypeOK
<1>2. CASE UNCHANGED pairs
  BY <1>2
<1>3. ASSUME NEW p \in Pair, pairs' = Append(pairs, p)
      PROVE  \/ i \in DOMAIN pairs /\ pairs'[i] = pairs[i]
             \/ i = Len(pairs) + 1 /\ i \notin DOMAIN pairs /\ pairs'[i] = p
  BY <1>1, <1>3, AppendProperties
<1> QED
  BY <1>2, <1>3, PairStep

LEMMA TypeKept ==
  ASSUME CredentialsInv, [Next]_vars
  PROVE  TypeOK'
<1>1. cred' \in [Creds -> Row \cup {None}] /\ stamp' \in Stamps
  BY CredStep DEF CredentialsInv, TypeOK, Written
<1>2. pairs' \in Seq(Pair) /\ Len(pairs') <= MaxPairs
  BY PairsGrow
<1>3. thread' \in [Threads -> Thread]
  <2>1. ASSUME NEW t \in Threads, NEW x \in Thread, thread' = [thread EXCEPT ![t] = x]
        PROVE  thread' \in [Threads -> Thread]
    BY <2>1 DEF CredentialsInv, TypeOK
  <2> QED
    BY <2>1, PendingStep DEF CredentialsInv, TypeOK
<1>4. DOMAIN pairs \subseteq Ids
  BY BoundAssumption DEF CredentialsInv, TypeOK, Ids
<1>5. dead' \in SUBSET Ids
  <2>1. ASSUME NEW c \in Creds
        PROVE  LoginsOf(c) \subseteq Ids
    BY <1>4 DEF CredentialsInv, LoginsKept, LoginsOf
  <2> QED
    BY <2>1, CredStep DEF CredentialsInv, TypeOK, Written
<1>6. revoked' \in SUBSET Ids /\ expired' \in SUBSET Ids
  <2>1. \A t \in Threads : thread[t].pc \in {"state", "again", "consume"} => thread[t].id \in Ids
    BY <1>4 DEF CredentialsInv, Presented
  <2>2. revoked' \subseteq revoked \cup Ids
    <3>1. \/ UNCHANGED revoked
          \/ \E t \in Threads : RefreshState(t) \/ RefreshConsume(t)
      BY DEF Next, vars, Login, LoginIssue, Refresh, RefreshVerify, AskUpsert, Upsert, AskDisable,
         Disable, Abort, Expire, IssueKey, RevokeKey, PurgeKey, Rotate, Change
    <3>2. ASSUME NEW t \in Threads, RefreshState(t) \/ RefreshConsume(t)
          PROVE  revoked' \subseteq revoked \cup Ids
      BY <2>1, <3>2 DEF RefreshState, RefreshConsume
    <3> QED
      BY <3>1, <3>2
  <2>3. expired' \subseteq expired \cup Ids
    BY <1>4 DEF Next, vars, Login, LoginIssue, Refresh, RefreshState, RefreshVerify,
       RefreshConsume, AskUpsert, Upsert, AskDisable, Disable, Abort, Expire, IssueKey,
       RevokeKey, PurgeKey, Rotate, Change
  <2> QED
    BY <2>2, <2>3 DEF CredentialsInv, TypeOK
<1> QED
  BY <1>1, <1>2, <1>3, <1>5, <1>6 DEF TypeOK

LEMMA PresentedKept ==
  ASSUME CredentialsInv, [Next]_vars
  PROVE  Presented' /\ AskedInScope'
<1>1. DOMAIN pairs \subseteq DOMAIN pairs'
  BY PairsGrow
<1>2. \A p \in Principals : cred[p] # None => cred'[p] # None
  BY CredStep DEF Written
<1>3. \A t \in Threads : thread[t].pc = "disable" => thread[t].of \in Principals
  BY AskFacts
<1>4. CASE UNCHANGED thread
  BY <1>1, <1>2, <1>3, <1>4 DEF CredentialsInv, Presented, AskedInScope
<1>5. ASSUME NEW t \in Threads, NEW x \in Thread, thread' = [thread EXCEPT ![t] = x],
             x.pc \in {"state", "again", "consume"} => x.id \in DOMAIN pairs,
             x.pc = "upsert" => (x.scope # None => x.org = x.scope),
             x.pc = "disable" => cred[x.of] # None
      PROVE  Presented' /\ AskedInScope'
  <2>1. thread'[t] = x /\ \A u \in Threads : u # t => thread'[u] = thread[u]
    BY <1>5 DEF CredentialsInv, TypeOK
  <2>2. x.pc = "disable" => x.of \in Principals
    BY DEF Thread, Idle
  <2>3. Presented'
    BY <1>1, <1>2, <1>3, <1>5, <2>1, <2>2 DEF CredentialsInv, Presented
  <2>4. AskedInScope'
    BY <1>5, <2>1 DEF CredentialsInv, AskedInScope
  <2> QED
    BY <2>3, <2>4
<1> QED
  BY <1>4, <1>5, PendingStep

LEMMA OlderKept ==
  ASSUME CredentialsInv, [Next]_vars
  PROVE  Older'
<1>1. stamp \in Nat /\ stamp' \in Nat /\ stamp <= stamp'
  BY CredStep, BoundAssumption DEF Written, CredentialsInv, TypeOK, Stamps
<1>2. \A c \in Creds : cred'[c] # None => cred'[c].version < stamp'
  BY CredStep DEF Written, CredentialsInv, Older
<1>3. ASSUME NEW i \in DOMAIN pairs'
      PROVE  pairs'[i].version < stamp'
  <2>1. CASE i \in DOMAIN pairs /\ pairs'[i] = pairs[i]
    <3>1. pairs[i] \in Pair
      BY <2>1, PairsGrow
    <3> QED
      BY <1>1, <2>1, <3>1 DEF CredentialsInv, Older, Pair, Stamps
  <2>2. CASE UNCHANGED stamp /\ LoggedIn(pairs'[i])
    BY <2>2 DEF LoggedIn, CredentialsInv, Older
  <2>3. CASE UNCHANGED stamp /\ Exchanged(pairs'[i])
    BY <2>3 DEF Exchanged, CredentialsInv, Older
  <2> QED
    BY <2>1, <2>2, <2>3, OldOrNew
<1>4. \A u \in Threads : thread[u].pc = "login" =>
        thread[u].row.version \in Nat /\ thread[u].row.version < stamp'
  <2> SUFFICES ASSUME NEW u \in Threads, thread[u].pc = "login"
               PROVE  thread[u].row.version \in Nat /\ thread[u].row.version < stamp'
    OBVIOUS
  <2>1. thread[u].row \in Row
    BY DEF CredentialsInv, TypeOK, Thread, Idle
  <2>2. thread[u].row.version \in Nat /\ thread[u].row.version < stamp
    BY <2>1 DEF Row, Stamps, CredentialsInv, Older
  <2> QED
    BY <1>1, <2>2
<1>5. \A u \in Threads : thread'[u].pc = "login" => thread'[u].row.version < stamp'
  <2>1. CASE UNCHANGED thread
    BY <1>4, <2>1
  <2>2. ASSUME NEW t \in Threads, NEW x \in Thread, thread' = [thread EXCEPT ![t] = x],
               x.pc = "login" => \E c \in Creds : Usable(c) /\ x.row = cred[c]
        PROVE  \A u \in Threads : thread'[u].pc = "login" => thread'[u].row.version < stamp'
    <3>1. thread'[t] = x /\ \A u \in Threads : u # t => thread'[u] = thread[u]
      BY <2>2 DEF CredentialsInv, TypeOK
    <3>2. ASSUME x.pc = "login"
          PROVE  x.row.version < stamp'
      <4>1. PICK c \in Creds : Usable(c) /\ x.row = cred[c]
        BY <2>2, <3>2
      <4>2. cred[c] \in Row /\ cred[c].version < stamp
        BY <4>1 DEF Usable, CredentialsInv, TypeOK, Older
      <4> QED
        BY <1>1, <4>1, <4>2 DEF Row, Stamps
    <3> QED
      BY <1>4, <3>1, <3>2
  <2> QED
    BY <2>1, <2>2, PendingStep
<1> QED
  BY <1>2, <1>3, <1>5 DEF Older

LEMMA LoginsKeptOn ==
  ASSUME CredentialsInv, [Next]_vars
  PROVE  LoginsKept'
<1>1. /\ DOMAIN pairs \subseteq DOMAIN pairs' /\ Len(pairs) \in Nat
      /\ DOMAIN pairs' = 1 .. Len(pairs') /\ Len(pairs') \in Nat
      /\ DOMAIN pairs = 1 .. Len(pairs)
  BY PairsGrow DEF CredentialsInv, TypeOK
<1>2. dead' \subseteq DOMAIN pairs'
  <2>1. \A c \in Creds : LoginsOf(c) \subseteq DOMAIN pairs
    BY DEF LoginsOf, CredentialsInv, LoginsKept
  <2> QED
    BY <1>1, <2>1, CredStep DEF Written, CredentialsInv, LoginsKept
\* A pair has the login and the credential of one that was there, or a new login.
<1>3. ASSUME NEW i \in DOMAIN pairs'
      PROVE  \/ \E j \in DOMAIN pairs : pairs'[i].login = pairs[j].login /\ pairs'[i].of = pairs[j].of
             \/ i = Len(pairs) + 1 /\ pairs'[i].login = i
  <2>1. CASE i = Len(pairs) + 1 /\ LoggedIn(pairs'[i])
    BY <2>1 DEF LoggedIn
  <2>2. CASE Exchanged(pairs'[i])
    BY <2>2 DEF Exchanged
  <2> QED
    BY <2>1, <2>2, OldOrNew
<1>4. \A i \in DOMAIN pairs' : pairs'[i].login \in DOMAIN pairs'
  BY <1>1, <1>3 DEF CredentialsInv, LoginsKept
<1>5. ASSUME NEW i \in DOMAIN pairs', NEW j \in DOMAIN pairs', pairs'[i].login = pairs'[j].login
      PROVE  pairs'[i].of = pairs'[j].of
  <2>1. Len(pairs) + 1 \notin DOMAIN pairs
    BY <1>1
  <2> QED
    BY <1>3, <1>5, <2>1 DEF CredentialsInv, LoginsKept
<1> QED
  BY <1>2, <1>4, <1>5 DEF LoginsKept

LEMMA OnceKept ==
  ASSUME CredentialsInv, [Next]_vars
  PROVE  ParentsRevoked' /\ RefreshOnce'
<1>1. revoked \subseteq revoked'
  BY PairStep DEF LoggedIn, Exchanged
\* A new pair's token was not spent before.
<1>2. ASSUME NEW i \in DOMAIN pairs', pairs'[i].parent # None
      PROVE  /\ pairs'[i].parent \in revoked'
             /\ \/ i \in DOMAIN pairs /\ pairs'[i] = pairs[i] /\ pairs'[i].parent \in revoked
                \/ i = Len(pairs) + 1 /\ pairs'[i].parent \notin revoked
  <2>1. CASE i \in DOMAIN pairs /\ pairs'[i] = pairs[i]
    BY <1>1, <1>2, <2>1 DEF CredentialsInv, ParentsRevoked
  <2>2. CASE i = Len(pairs) + 1 /\ LoggedIn(pairs'[i])
    BY <1>2, <2>2 DEF LoggedIn
  <2>3. CASE i = Len(pairs) + 1 /\ Exchanged(pairs'[i])
    BY <2>3 DEF Exchanged
  <2> QED
    BY <2>1, <2>2, <2>3, OldOrNew
<1>3. ASSUME NEW i \in DOMAIN pairs', NEW j \in DOMAIN pairs',
             pairs'[i].parent # None, pairs'[i].parent = pairs'[j].parent
      PROVE  i = j
  BY <1>2, <1>3 DEF CredentialsInv, RefreshOnce
<1> QED
  BY <1>2, <1>3 DEF ParentsRevoked, RefreshOnce

LEMMA EndedKept ==
  ASSUME CredentialsInv, [Next]_vars
  PROVE  Ended'
<1> SUFFICES ASSUME NEW i \in DOMAIN pairs', pairs'[i].login \in dead',
                    cred'[pairs'[i].of] # None, cred'[pairs'[i].of].active,
                    cred'[pairs'[i].of].version = pairs'[i].version
             PROVE  FALSE
  BY DEF Ended, Usable
<1>1. CASE UNCHANGED <<cred, stamp, dead>>
  <2>1. CASE i \in DOMAIN pairs /\ pairs'[i] = pairs[i]
    BY <1>1, <2>1 DEF CredentialsInv, Ended, Usable
  <2>2. CASE i \notin DOMAIN pairs /\ i = Len(pairs) + 1 /\ LoggedIn(pairs'[i])
    BY <1>1, <2>2 DEF LoggedIn, CredentialsInv, LoginsKept
  <2>3. CASE Exchanged(pairs'[i])
    BY <1>1, <2>3 DEF Exchanged, CredentialsInv, Ended, Usable
  <2> QED
    BY <2>1, <2>2, <2>3, OldOrNew
<1>2. ASSUME NEW c \in Creds, Written(c)
      PROVE  FALSE
  <2> DEFINE d == pairs[i].of
  <2>1. i \in DOMAIN pairs /\ pairs'[i] = pairs[i] /\ dead' = dead \cup LoginsOf(c)
    BY <1>2 DEF Written
  <2>2. d \in Creds /\ pairs[i].version \in Nat /\ pairs[i].version < stamp /\ stamp \in Nat
    <3>1. pairs[i] \in Pair
      BY <2>1, PairsGrow
    <3> QED
      BY <2>1, <3>1 DEF Pair, Stamps, CredentialsInv, TypeOK, Older
  <2>3. ~Renewed(d)
    BY <2>1, <2>2 DEF Renewed
  <2>4. pairs[i].login \in dead
    <3>1. CASE pairs[i].login \in LoginsOf(c)
      <4>1. d = c
        BY <2>1, <3>1 DEF LoginsOf, CredentialsInv, LoginsKept
      <4> QED
        BY <1>2, <2>3, <4>1 DEF Written
    <3> QED
      BY <2>1, <3>1
  <2>5. cred'[d] = cred[d]
    BY <1>2, <2>2, <2>3 DEF Written
  <2> QED
    BY <2>1, <2>4, <2>5 DEF CredentialsInv, Ended, Usable
<1> QED
  BY <1>1, <1>2, CredStep

LEMMA CredentialsInit == Init => CredentialsInv
<1> SUFFICES ASSUME Init
             PROVE  CredentialsInv
  OBVIOUS
<1>1. DOMAIN pairs = {} /\ pairs \in Seq(Pair) /\ Len(pairs) = 0
  BY DEF Init
<1>2. TypeOK
  BY <1>1, BoundAssumption DEF Init, TypeOK, Stamps, Thread
<1>3. Presented /\ Older /\ AskedInScope
  BY <1>1 DEF Init, Presented, Older, AskedInScope, Idle
<1>4. LoginsKept /\ ParentsRevoked /\ RefreshOnce /\ Ended
  BY <1>1 DEF Init, LoginsKept, ParentsRevoked, RefreshOnce, Ended
<1> QED
  BY <1>2, <1>3, <1>4 DEF CredentialsInv

LEMMA CredentialsKept == CredentialsInv /\ [Next]_vars => CredentialsInv'
BY TypeKept, PresentedKept, OlderKept, LoginsKeptOn, OnceKept, EndedKept DEF CredentialsInv

\* Which administration a step may finish, and what of.
LEMMA ScopeStep ==
  ASSUME CredentialsInv, [Next]_vars, NEW t \in Threads,
         thread[t].pc \in {"upsert", "disable"}, thread[t].scope # None,
         cred' # cred, thread'[t] = Idle
  PROVE  LET c == thread[t].of IN
           /\ cred[c] # None => (cred[c].org = thread[t].scope /\ cred[c].role # "system")
           /\ cred'[c].org = thread[t].scope
<1> DEFINE a == thread[t]
           c == a.of
<1>1. c \in Creds /\ DOMAIN cred = Creds /\ DOMAIN thread = Threads
  BY DEF CredentialsInv, TypeOK, Thread, Idle, Creds
<1>2. Upsert(t) \/ Disable(t)
  <2>1. \/ UNCHANGED cred \/ UNCHANGED thread
        \/ \E u \in Threads : Upsert(u) \/ Disable(u)
    BY DEF Next, vars, Login, LoginIssue, Refresh, RefreshState, RefreshVerify, RefreshConsume,
       AskUpsert, AskDisable, Abort, Expire, IssueKey, RevokeKey, PurgeKey, Rotate
  <2>2. \A u \in Threads : u # t => thread' # [thread EXCEPT ![u] = Idle]
    BY <1>1 DEF Idle
  <2>3. thread' # thread
    BY DEF Idle
  <2> QED
    BY <2>1, <2>2, <2>3 DEF Upsert, Disable, Go
<1>3. CASE Upsert(t)
  <2>1. /\ cred[c] = None \/ Manageable(c, a.scope)
        /\ cred' = [cred EXCEPT ![c] =
             [role |-> a.role, org |-> a.org, version |-> stamp, active |-> TRUE]]
    BY <1>3 DEF Upsert, Change
  <2>2. a.org = a.scope
    BY <1>3 DEF Upsert, CredentialsInv, AskedInScope
  <2> QED
    BY <1>1, <2>1, <2>2 DEF Manageable
<1>4. CASE Disable(t)
  <2>1. /\ Manageable(c, a.scope)
        /\ cred' = [cred EXCEPT ![c] = [cred[c] EXCEPT !.active = FALSE, !.version = stamp]]
    BY <1>4 DEF Disable, Change
  <2>2. cred[c] \in Row
    BY <1>4, AskFacts DEF Disable
  <2> QED
    BY <1>1, <2>1, <2>2 DEF Manageable, Row
<1> QED
  BY <1>2, <1>3, <1>4

-----------------------------------------------------------------------------

\* In each behaviour of the composite the credentials behave as Credentials says.
LEMMA CredentialsHeld == GatewaySpec => []CredentialsInv /\ [][Next]_vars
<1>1. GatewayInit => CredentialsInv
  BY CredentialsInit DEF GatewayInit
<1>2. [GatewayNext]_<<part, vars, fabricVars, gateVars>> => [Next]_vars
  BY DEF GatewayNext, vars
<1> QED
  BY <1>1, <1>2, CredentialsKept, PTL DEF GatewaySpec

\* The state of the stores of credentials and of the calls that use them has
\* the form that secrets.py and auth.py give it.
THEOREM CredentialsTyped == GatewaySpec => []TypeOK
<1>1. CredentialsInv => TypeOK
  BY DEF CredentialsInv
<1> QED
  BY <1>1, CredentialsHeld, PTL

\* A refresh token yields one pair, however many threads present it at once:
\* of those that passed both verifications one inserts the row (JWTAuth.refresh).
THEOREM TokenSpentOnce == GatewaySpec => []RefreshOnce
<1>1. CredentialsInv => RefreshOnce
  BY DEF CredentialsInv
<1> QED
  BY <1>1, CredentialsHeld, PTL

\* A token that goes back to a login before the credential was changed is not
\* current again, whatever is done to the credential after (validate_credential_state).
THEOREM LoginsEnd == GatewaySpec => []TokensDie
<1>1. CredentialsInv => TokensDie
  BY DEF CredentialsInv, Ended, TokensDie, Current
<1> QED
  BY <1>1, CredentialsHeld, PTL

\* What an administrator of one tenant writes was his before and is his after,
\* however long ago he looked (upsert_principal, disable_principal).
THEOREM AdminsStayInScope == GatewaySpec => AdminInScope
<1> DEFINE Kept == \A t \in Threads :
             (/\ thread[t].pc \in {"upsert", "disable"}
              /\ thread[t].scope # None
              /\ cred' # cred /\ thread'[t] = Idle) =>
             LET c == thread[t].of IN
               /\ cred[c] # None => (cred[c].org = thread[t].scope /\ cred[c].role # "system")
               /\ cred'[c].org = thread[t].scope
<1>1. CredentialsInv /\ [Next]_vars => Kept
  BY ScopeStep
<1>2. [][Kept]_vars <=> AdminInScope
  BY DEF AdminInScope
<1> HIDE DEF Kept
<1>3. CredentialsInv /\ [Next]_vars => [Kept]_vars
  BY <1>1
<1>4. []CredentialsInv /\ [][Next]_vars => [][Kept]_vars
  BY <1>3, PTL
<1> QED
  BY <1>2, <1>4, CredentialsHeld, PTL

(***************************************************************************)
(* The worker fabric.                                                      *)
(***************************************************************************)

\* What a pending request was let through for is still so when it writes: only
\* the system moves a node to another tenant, and leases do not move.
StillOwn ==
  \A t \in Threads : LET r == request[t] IN
    /\ r.op = "register" /\ ~Fabric!System(r.caller) => r.org = r.caller.org
    /\ r.op = "beat" =>
         /\ node[r.node] # None
         /\ r.node \in moved \/ node[r.node].org = r.org
         /\ ~Fabric!System(r.caller) => r.org = r.caller.org
    /\ r.op = "release" =>
         /\ lease[r.lease] # None
         /\ ~Fabric!System(r.caller) => lease[r.lease].org = r.caller.org

FabricInv == Fabric!TypeOK /\ StillOwn

\* What a pending request is made of.
LEMMA RequestFacts ==
  ASSUME Fabric!TypeOK, NEW t \in Threads
  PROVE  LET r == request[t] IN
         /\ r.op = "register" =>
              /\ r.caller \in Callers /\ r.node \in Nodes /\ r.queue \in Queues
              /\ r.org \in Fabric!Tenants /\ r.owner \in Fabric!Whos
         /\ r.op = "beat" =>
              /\ r.caller \in Callers /\ r.node \in Nodes
              /\ r.org \in Fabric!Tenants /\ r.owner \in Fabric!Whos
         /\ r.op = "acquire" =>
              /\ r.caller \in Callers /\ r.node \in Nodes /\ r.queue \in Queues
              /\ r.task \in Tasks \cup {None}
         /\ r.op = "release" => r.caller \in Callers /\ r.lease \in Leases
BY DEF Fabric!TypeOK, Fabric!Request, Fabric!Idle

\* What a request that begins looks for holds then.
LEMMA FabricCheck ==
  ASSUME FabricInv, NEW t \in Threads,
         \/ Fabric!RegisterCheck(t) \/ Fabric!BeatCheck(t)
         \/ Fabric!AcquireCheck(t) \/ Fabric!ReleaseCheck(t)
  PROVE  FabricInv'
<1>1. ASSUME NEW x \in Fabric!Request, Fabric!Check(t, x),
             x.op = "register" /\ ~Fabric!System(x.caller) => x.org = x.caller.org,
             x.op = "beat" =>
               /\ node[x.node] # None /\ node[x.node].org = x.org
               /\ ~Fabric!System(x.caller) => x.org = x.caller.org,
             x.op = "release" =>
               /\ lease[x.lease] # None
               /\ ~Fabric!System(x.caller) => lease[x.lease].org = x.caller.org
      PROVE  FabricInv'
  <2>1. /\ request' = [request EXCEPT ![t] = x] /\ UNCHANGED <<node, queue, lease, moved>>
        /\ request'[t] = x /\ \A u \in Threads : u # t => request'[u] = request[u]
    BY <1>1 DEF Fabric!Check, FabricInv, Fabric!TypeOK
  <2>2. Fabric!TypeOK'
    BY <2>1 DEF FabricInv, Fabric!TypeOK
  <2>3. StillOwn'
    BY <1>1, <2>1 DEF FabricInv, StillOwn, Fabric!System
  <2> QED
    BY <2>2, <2>3 DEF FabricInv
<1>2. CASE Fabric!RegisterCheck(t)
  <2>1. PICK c \in Callers, n \in Nodes, q \in Queues, org \in Fabric!Tenants :
          /\ Fabric!SameOrg(c, org)
          /\ Fabric!Check(t, [op |-> "register", caller |-> c, node |-> n, queue |-> q,
               org |-> org, owner |-> IF node[n] = None THEN c.who ELSE node[n].owner])
    BY <1>2 DEF Fabric!RegisterCheck
  <2> DEFINE owner == IF node[n] = None THEN c.who ELSE node[n].owner
             x == [op |-> "register", caller |-> c, node |-> n, queue |-> q, org |-> org,
                   owner |-> owner]
  <2>2. owner \in Fabric!Whos
    BY DEF FabricInv, Fabric!TypeOK, Fabric!Node, Fabric!Whos
  <2> HIDE DEF owner
  <2>3. x \in Fabric!Request
    BY <2>2 DEF Fabric!Request
  <2> QED
    BY <1>1, <2>1, <2>3 DEF Fabric!SameOrg, owner
<1>3. CASE Fabric!BeatCheck(t)
  <2>1. PICK c \in Callers, n \in Nodes :
          /\ node[n] # None /\ Fabric!SameOrg(c, node[n].org)
          /\ Fabric!Check(t, [op |-> "beat", caller |-> c, node |-> n,
               org |-> node[n].org, owner |-> node[n].owner])
    BY <1>3 DEF Fabric!BeatCheck
  <2>2. node[n].org \in Fabric!Tenants /\ node[n].owner \in Fabric!Whos
    BY <2>1 DEF FabricInv, Fabric!TypeOK, Fabric!Node
  <2>3. [op |-> "beat", caller |-> c, node |-> n, org |-> node[n].org, owner |-> node[n].owner]
          \in Fabric!Request
    BY <2>2 DEF Fabric!Request
  <2> QED
    BY <1>1, <2>1, <2>3 DEF Fabric!SameOrg
<1>4. CASE Fabric!AcquireCheck(t)
  <2>1. PICK c \in Callers, n \in Nodes, k \in Tasks \cup {None} :
          /\ node[n] # None
          /\ Fabric!Check(t, [op |-> "acquire", caller |-> c, node |-> n,
               queue |-> node[n].queue, task |-> k])
    BY <1>4 DEF Fabric!AcquireCheck
  <2>2. node[n].queue \in Queues
    BY <2>1 DEF FabricInv, Fabric!TypeOK, Fabric!Node
  <2>3. [op |-> "acquire", caller |-> c, node |-> n, queue |-> node[n].queue, task |-> k]
          \in Fabric!Request
    BY <2>2 DEF Fabric!Request
  <2> QED
    BY <1>1, <2>1, <2>3
<1>5. CASE Fabric!ReleaseCheck(t)
  <2>1. PICK c \in Callers, l \in Leases :
          /\ lease[l] # None /\ Fabric!SameOrg(c, lease[l].org)
          /\ Fabric!Check(t, [op |-> "release", caller |-> c, lease |-> l])
    BY <1>5 DEF Fabric!ReleaseCheck
  <2>2. [op |-> "release", caller |-> c, lease |-> l] \in Fabric!Request
    BY DEF Fabric!Request
  <2> QED
    BY <1>1, <2>1, <2>2 DEF Fabric!SameOrg
<1> QED
  BY <1>2, <1>3, <1>4, <1>5

\* What a write leaves of the rows there were: a node's tenant, unless the system
\* wrote it, and a lease's.
RowsKept ==
  /\ moved \subseteq moved'
  /\ \A n \in Nodes : node[n] # None =>
       node'[n] # None /\ (n \in moved' \/ node'[n].org = node[n].org)
  /\ \A l \in Leases : lease[l] # None => lease'[l] # None /\ lease'[l].org = lease[l].org

\* What a caller may write: what is nobody's and what is his tenant's.
OwnWritten(c) ==
  /\ \A n \in Nodes \ moved : node'[n] # node[n] /\ node[n] # None => node[n].org = c.org
  /\ \A q \in Queues \ moved : queue'[q] # queue[q] => queue[q] = None
  /\ \A l \in Leases : lease'[l] # lease[l] /\ lease[l] # None => lease[l].org = c.org

LEMMA FabricWrite ==
  ASSUME FabricInv, NEW t \in Threads,
         \/ Fabric!Register(t) \/ Fabric!Beat(t) \/ Fabric!Acquire(t) \/ Fabric!Release(t)
         \/ Fabric!Abort(t)
  PROVE  /\ request' = [request EXCEPT ![t] = Fabric!Idle]
         /\ node' \in [Nodes -> Fabric!Node \cup {None}]
         /\ queue' \in [Queues -> Fabric!Tenants \cup {None}]
         /\ lease' \in [Leases -> Fabric!Lease \cup {None}]
         /\ moved' \in SUBSET (Nodes \cup Queues)
         /\ RowsKept
         /\ ~Fabric!System(request[t].caller) => OwnWritten(request[t].caller)
<1> DEFINE r == request[t]
           c == r.caller
<1>1. /\ node \in [Nodes -> Fabric!Node \cup {None}]
      /\ queue \in [Queues -> Fabric!Tenants \cup {None}]
      /\ lease \in [Leases -> Fabric!Lease \cup {None}]
      /\ moved \in SUBSET (Nodes \cup Queues)
  BY DEF FabricInv, Fabric!TypeOK
<1>2. request' = [request EXCEPT ![t] = Fabric!Idle]
  BY DEF Fabric!Register, Fabric!Beat, Fabric!Acquire, Fabric!Release, Fabric!Abort, Fabric!Done
<1>3. CASE Fabric!Register(t)
  <2>1. /\ c \in Callers /\ r.node \in Nodes /\ r.queue \in Queues
        /\ r.org \in Fabric!Tenants /\ r.owner \in Fabric!Whos /\ UNCHANGED lease
        /\ ~Fabric!System(c) => r.org = c.org
    BY <1>3, RequestFacts DEF Fabric!Register, FabricInv, StillOwn
  <2>2. ASSUME NEW owner \in Fabric!Whos, Fabric!Registered(r, owner),
               \/ Fabric!System(c)
               \/ /\ node[r.node] # None => node[r.node].org = c.org
                  /\ queue[r.queue] # None => queue[r.queue] = c.org
        PROVE  /\ node' \in [Nodes -> Fabric!Node \cup {None}]
               /\ queue' \in [Queues -> Fabric!Tenants \cup {None}]
               /\ moved' \in SUBSET (Nodes \cup Queues)
               /\ RowsKept
               /\ ~Fabric!System(c) => OwnWritten(c)
    <3> DEFINE row == [org |-> r.org, owner |-> owner, queue |-> r.queue]
    <3>1. row \in Fabric!Node /\ row # None
      BY <2>1, FabricAssumption DEF Fabric!Node
    <3>2. /\ node' = [node EXCEPT ![r.node] = row] /\ queue' = [queue EXCEPT ![r.queue] = r.org]
          /\ moved \subseteq moved' /\ moved' \subseteq moved \cup {r.node, r.queue}
          /\ Fabric!System(c) /\ node[r.node] # None => r.node \in moved'
      BY <2>2 DEF Fabric!Registered
    <3>3. /\ node' \in [Nodes -> Fabric!Node \cup {None}] /\ node'[r.node] = row
          /\ \A n \in Nodes : n # r.node => node'[n] = node[n]
          /\ queue' \in [Queues -> Fabric!Tenants \cup {None}] /\ queue'[r.queue] = r.org
          /\ \A q \in Queues : q # r.queue => queue'[q] = queue[q]
      BY <1>1, <2>1, <3>1, <3>2
    <3>4. row.org = r.org
      OBVIOUS
    <3> HIDE DEF row
    <3>5. RowsKept
      BY <2>1, <2>2, <3>1, <3>2, <3>3, <3>4 DEF RowsKept
    <3>6. ~Fabric!System(c) => OwnWritten(c)
      BY <2>1, <2>2, <3>3 DEF OwnWritten
    <3> QED
      BY <1>1, <2>1, <3>2, <3>3, <3>5, <3>6
  <2>3. CASE UNCHANGED <<node, queue, moved>>
    BY <1>1, <1>2, <2>1, <2>3 DEF RowsKept, OwnWritten
  <2>4. node[r.node] # None => node[r.node].owner \in Fabric!Whos
    BY <1>1, <2>1 DEF Fabric!Node
  <2>5. \/ UNCHANGED <<node, queue, moved>>
        \/ \E owner \in Fabric!Whos :
             /\ Fabric!Registered(r, owner)
             /\ \/ Fabric!System(c)
                \/ /\ node[r.node] # None => node[r.node].org = c.org
                   /\ queue[r.queue] # None => queue[r.queue] = c.org
    BY <1>3, <2>1, <2>4 DEF Fabric!Register
  <2>6. lease' \in [Leases -> Fabric!Lease \cup {None}]
    BY <1>1, <2>1
  <2> QED
    BY <1>2, <2>2, <2>3, <2>5, <2>6
<1>4. CASE Fabric!Beat(t)
  <2>1. /\ r.node \in Nodes /\ node[r.node] \in Fabric!Node
        /\ r.org \in Fabric!Tenants /\ r.owner \in Fabric!Whos
        /\ r.node \in moved \/ node[r.node].org = r.org
        /\ ~Fabric!System(c) => r.org = c.org
    BY <1>1, <1>4, RequestFacts DEF Fabric!Beat, FabricInv, StillOwn
  <2> DEFINE row == [node[r.node] EXCEPT !.org = r.org, !.owner = r.owner]
  <2>2. row \in Fabric!Node /\ row # None /\ row.org = r.org
    BY <2>1, FabricAssumption DEF Fabric!Node
  <2>3. node' = [node EXCEPT ![r.node] = row] /\ UNCHANGED <<queue, lease, moved>>
    BY <1>1, <1>4, <2>1 DEF Fabric!Beat
  <2> HIDE DEF row
  <2> QED
    BY <1>1, <1>2, <2>1, <2>2, <2>3 DEF RowsKept, OwnWritten
<1>5. CASE Fabric!Acquire(t)
  <2>1. /\ c \in Callers /\ r.node \in Nodes /\ r.queue \in Queues /\ r.task \in Tasks \cup {None}
        /\ UNCHANGED <<node, queue, moved>>
    BY <1>5, RequestFacts DEF Fabric!Acquire, FabricInv
  <2> DEFINE row == [org |-> c.org, holder |-> c.who, node |-> r.node, queue |-> r.queue,
                     task |-> r.task, active |-> TRUE, system |-> Fabric!System(c)]
  <2>2. \/ UNCHANGED lease
        \/ \E l \in Leases : lease[l] = None /\ lease' = [lease EXCEPT ![l] = row]
    BY <1>5 DEF Fabric!Acquire
  <2>3. row \in Fabric!Lease
    <3>1. c.org \in Fabric!Tenants /\ c.who \in Fabric!Whos
      BY <2>1 DEF Fabric!Tenants, Fabric!Whos
    <3>2. Fabric!System(c) \in BOOLEAN
      BY DEF Fabric!System
    <3> QED
      BY <2>1, <3>1, <3>2 DEF Fabric!Lease
  <2> HIDE DEF row
  <2>4. lease' \in [Leases -> Fabric!Lease \cup {None}]
    BY <1>1, <2>2, <2>3
  <2>5. \A l \in Leases : lease[l] # None => lease'[l] = lease[l]
    BY <1>1, <2>2
  <2> QED
    BY <1>1, <1>2, <2>1, <2>4, <2>5 DEF RowsKept, OwnWritten
<1>6. CASE Fabric!Release(t)
  <2>1. /\ r.lease \in Leases /\ lease[r.lease] \in Fabric!Lease
        /\ ~Fabric!System(c) => lease[r.lease].org = c.org
    BY <1>1, <1>6, RequestFacts DEF Fabric!Release, FabricInv, StillOwn
  <2> DEFINE row == [lease[r.lease] EXCEPT !.active = FALSE]
  <2>2. row \in Fabric!Lease /\ row # None /\ row.org = lease[r.lease].org
    BY <2>1, FabricAssumption DEF Fabric!Lease
  <2>3. lease' = [lease EXCEPT ![r.lease] = row] /\ UNCHANGED <<node, queue, moved>>
    BY <1>1, <1>6, <2>1 DEF Fabric!Release
  <2> HIDE DEF row
  <2> QED
    BY <1>1, <1>2, <2>1, <2>2, <2>3 DEF RowsKept, OwnWritten
<1>7. CASE Fabric!Abort(t)
  BY <1>1, <1>2, <1>7 DEF Fabric!Abort, RowsKept, OwnWritten
<1> QED
  BY <1>3, <1>4, <1>5, <1>6, <1>7

LEMMA FabricKept == FabricInv /\ [Fabric!Next]_fabricVars => FabricInv'
<1> SUFFICES ASSUME FabricInv, [Fabric!Next]_fabricVars
             PROVE  FabricInv'
  OBVIOUS
<1>1. CASE UNCHANGED fabricVars
  BY <1>1 DEF fabricVars, FabricInv, Fabric!TypeOK, StillOwn
<1>2. ASSUME NEW t \in Threads,
             \/ Fabric!Register(t) \/ Fabric!Beat(t) \/ Fabric!Acquire(t) \/ Fabric!Release(t)
             \/ Fabric!Abort(t)
      PROVE  FabricInv'
  <2>1. /\ request' = [request EXCEPT ![t] = Fabric!Idle] /\ RowsKept /\ Fabric!TypeOK'
    BY <1>2, FabricWrite DEF FabricInv, Fabric!TypeOK, Fabric!Request
  <2>2. request'[t] = Fabric!Idle /\ \A u \in Threads : u # t => request'[u] = request[u]
    BY <2>1 DEF FabricInv, Fabric!TypeOK
  <2>3. ASSUME NEW u \in Threads, u # t
        PROVE  LET r == request'[u] IN
               /\ r.op = "register" /\ ~Fabric!System(r.caller) => r.org = r.caller.org
               /\ r.op = "beat" =>
                    /\ node'[r.node] # None
                    /\ r.node \in moved' \/ node'[r.node].org = r.org
                    /\ ~Fabric!System(r.caller) => r.org = r.caller.org
               /\ r.op = "release" =>
                    /\ lease'[r.lease] # None
                    /\ ~Fabric!System(r.caller) => lease'[r.lease].org = r.caller.org
    <3> DEFINE r == request[u]
    <3>1. /\ r.op = "beat" => r.node \in Nodes
          /\ r.op = "release" => r.lease \in Leases
      BY RequestFacts DEF FabricInv
    <3>2. request'[u] = r
      BY <2>2, <2>3
    <3> QED
      BY <2>1, <3>1, <3>2 DEF FabricInv, StillOwn, RowsKept
  <2>4. StillOwn'
    BY <2>2, <2>3 DEF StillOwn, Fabric!Idle, Fabric!System
  <2> QED
    BY <2>1, <2>4 DEF FabricInv
<1> QED
  BY <1>1, <1>2, FabricCheck DEF Fabric!Next

LEMMA FabricInit == Fabric!Init => FabricInv
BY DEF Fabric!Init, FabricInv, Fabric!TypeOK, Fabric!Request, Fabric!Idle, StillOwn

LEMMA FabricHeld == GatewaySpec => []FabricInv /\ [][Fabric!Next]_fabricVars
<1>1. GatewayInit => FabricInv
  BY FabricInit DEF GatewayInit
<1>2. [GatewayNext]_<<part, vars, fabricVars, gateVars>> => [Fabric!Next]_fabricVars
  BY DEF GatewayNext, vars, fabricVars
<1> QED
  BY <1>1, <1>2, FabricKept, PTL DEF GatewaySpec

\* Between looking at a node, a queue or a lease and writing it, a request of a
\* tenant loses no ground that matters: what it writes is still its tenant's
\* (register_worker_node, _preserve_node_identity, release_queue_lease).
THEOREM TenantsKeepApart == GatewaySpec => OwnTenantOnly
<1> DEFINE Kept == \A t \in Threads :
             LET r == request[t] IN
             (r # Fabric!Idle /\ request'[t] = Fabric!Idle /\ ~Fabric!System(r.caller)) =>
               /\ \A n \in Nodes \ moved :
                    node'[n] # node[n] /\ node[n] # None => node[n].org = r.caller.org
               /\ \A q \in Queues \ moved : queue'[q] # queue[q] => queue[q] = None
               /\ \A l \in Leases :
                    lease'[l] # lease[l] /\ lease[l] # None => lease[l].org = r.caller.org
<1>1. ASSUME FabricInv, Fabric!Next
      PROVE  Kept
  <2> SUFFICES ASSUME NEW t \in Threads, request[t] # Fabric!Idle, request'[t] = Fabric!Idle,
                      ~Fabric!System(request[t].caller)
               PROVE  OwnWritten(request[t].caller)
    BY DEF OwnWritten
  <2>1. DOMAIN request = Threads
    BY <1>1 DEF FabricInv, Fabric!TypeOK
  <2>2. PICK u \in Threads :
          \/ Fabric!RegisterCheck(u) \/ Fabric!BeatCheck(u)
          \/ Fabric!AcquireCheck(u) \/ Fabric!ReleaseCheck(u)
          \/ Fabric!Register(u) \/ Fabric!Beat(u) \/ Fabric!Acquire(u) \/ Fabric!Release(u)
          \/ Fabric!Abort(u)
    BY <1>1 DEF Fabric!Next
  <2>3. CASE \/ Fabric!RegisterCheck(u) \/ Fabric!BeatCheck(u)
             \/ Fabric!AcquireCheck(u) \/ Fabric!ReleaseCheck(u)
    BY <2>3 DEF Fabric!RegisterCheck, Fabric!BeatCheck, Fabric!AcquireCheck,
       Fabric!ReleaseCheck, Fabric!Check, OwnWritten
  <2>4. CASE \/ Fabric!Register(u) \/ Fabric!Beat(u) \/ Fabric!Acquire(u) \/ Fabric!Release(u)
             \/ Fabric!Abort(u)
    <3>1. request' = [request EXCEPT ![u] = Fabric!Idle]
      BY <1>1, <2>4, FabricWrite
    <3>2. u = t
      BY <2>1, <3>1
    <3> QED
      BY <1>1, <2>4, <3>2, FabricWrite
  <2> QED
    BY <2>2, <2>3, <2>4
<1>2. ASSUME UNCHANGED fabricVars
      PROVE  Kept
  BY <1>2 DEF fabricVars
<1>3. [][Kept]_fabricVars <=> OwnTenantOnly
  BY DEF OwnTenantOnly, Fabric!OwnTenantOnly, Fabric!vars, fabricVars
<1> HIDE DEF Kept
<1>4. []FabricInv /\ [][Fabric!Next]_fabricVars => [][Kept]_fabricVars
  BY <1>1, <1>2, PTL
<1> QED
  BY <1>3, <1>4, FabricHeld, PTL

(***************************************************************************)
(* The gate.                                                               *)
(***************************************************************************)

\* Nothing comes in before the start, and what is reached from elsewhere
\* authenticates.
Shut ==
  /\ gate = None => \A t \in Threads : asked[t] = Gate!Idle
  /\ gate # None /\ gate.remote => gate.auth

\* A token that is current on the way in was so on arrival; past the first look,
\* what the look said is remembered.
Living ==
  \A t \in Threads : LET r == asked[t] IN
    /\ r.pc \in {"arrived", "knocking"} /\ Gate!Current(r.token) => r.living
    /\ r.pc \in {"counting", "admitted", "serving"} /\ r.verified => r.living
    /\ r.pc = "serving" /\ gate.auth => r.verified

\* The clock that a request has read is at most the wait for the lock behind.
Prompt ==
  \A t \in Threads : LET r == asked[t] IN
    r.pc \in {"knocking", "counting"} => r.stamp <= now /\ now <= r.stamp + Delay

\* The admissions that the limiter holds are the last of the history, each at
\* the time that was read for it; what it has let go of is out of the window.
Tallied(w, e, c) ==
  /\ Len(w) <= Max
  /\ \A p \in 1 .. Len(e) : e[p] <= c
  /\ \A p \in 1 .. Len(e), q \in 1 .. Len(w) :
       Len(e) - p = Len(w) - q => w[q] <= e[p] /\ e[p] <= w[q] + Delay
  /\ \A j \in 1 .. (Len(e) - Len(w)) : e[j] + Window <= e[Len(e)] + Delay

GateInv ==
  /\ Gate!TypeOK /\ Shut /\ Living /\ Prompt
  /\ \A i \in Gate!Ids : Tallied(window[i], entered[i], now)

-----------------------------------------------------------------------------

\* The instance of RequestGate counts as this module does.
LEMMA SameCardinality == \A S : Gate!Cardinality(S) = Cardinality(S)
BY DEF Gate!Cardinality, Gate!IsFiniteSet, Cardinality, IsFiniteSet

\* The front of a sequence of times, as far as it is out of the window at c, and
\* what is left of it (Evicted, Recent).
Spent(w, c) == {i \in 1 .. Len(w) : \A j \in 1 .. i : w[j] + Window <= c}
Left(w, c) == SubSeq(w, Cardinality(Spent(w, c)) + 1, Len(w))

LEMMA Cut ==
  ASSUME NEW w \in Seq(0 .. Horizon), NEW c \in Nat
  PROVE  \E k \in 0 .. Len(w) :
           /\ \A j \in 1 .. k : w[j] + Window <= c
           /\ Left(w, c) \in Seq(0 .. Horizon) /\ Len(Left(w, c)) = Len(w) - k
           /\ \A j \in 1 .. (Len(w) - k) : Left(w, c)[j] = w[k + j]
<1> DEFINE old == Spent(w, c)
           n == Len(w)
           k == Cardinality(old)
           rest == SubSeq(w, k + 1, n)
<1>1. n \in Nat /\ old \subseteq 1 .. n
  BY DEF Spent
<1>2. \A i \in old : \A j \in 1 .. i : j \in old
  BY <1>1 DEF Spent
<1>3. \A i \in old : i \in 1 .. i /\ w[i] + Window <= c
  BY <1>1 DEF Spent
<1>4. \A j \in 1 .. n : w[j] \in 0 .. Horizon
  BY ElementOfSeq
<1>5. rest = Left(w, c)
  BY DEF Left
<1> HIDE DEF n, old
<1>6. IsFiniteSet(old) /\ k \in Nat /\ k <= n
  <2>1. IsFiniteSet(1 .. n) /\ Cardinality(1 .. n) = n
    BY <1>1, FS_Interval
  <2>2. IsFiniteSet(old) /\ k <= Cardinality(1 .. n)
    BY <1>1, <2>1, FS_Subset
  <2> QED
    BY <2>1, <2>2, FS_CardinalityType
<1>7. old \subseteq 1 .. k
  <2> SUFFICES ASSUME NEW i \in old
               PROVE  i \in 1 .. k
    OBVIOUS
  <2>1. 1 .. i \in SUBSET old /\ i \in Nat /\ i >= 1
    BY <1>1, <1>2
  <2>2. Cardinality(1 .. i) = i
    BY <2>1, FS_Interval
  <2>3. Cardinality(1 .. i) <= k
    BY <1>6, <2>1, FS_Subset
  <2> QED
    BY <1>6, <2>1, <2>2, <2>3
<1>8. old = 1 .. k
  <2>1. IsFiniteSet(1 .. k) /\ Cardinality(1 .. k) = k
    BY <1>6, FS_Interval
  <2>2. old \in SUBSET (1 .. k)
    BY <1>7
  <2> QED
    BY <2>1, <2>2, FS_Subset
<1>9. \A j \in 1 .. k : w[j] + Window <= c
  BY <1>3, <1>8
<1> HIDE DEF k
<1>10. /\ rest \in Seq(0 .. Horizon)
       /\ Len(rest) = IF k + 1 <= n THEN n - (k + 1) + 1 ELSE 0
       /\ \A j \in 1 .. (n - (k + 1) + 1) : rest[j] = w[k + 1 + j - 1]
  BY <1>1, <1>4, <1>6, SubSeqProperties
<1> HIDE DEF rest
<1>11. /\ rest \in Seq(0 .. Horizon) /\ Len(rest) = n - k
       /\ \A j \in 1 .. (n - k) : rest[j] = w[k + j]
  BY <1>1, <1>6, <1>10
<1> QED
  BY <1>1, <1>5, <1>6, <1>9, <1>11 DEF n

LEMMA TimesAreNat ==
  ASSUME NEW w \in Seq(0 .. Horizon)
  PROVE  \A j \in 1 .. Len(w) : w[j] \in Nat
<1>1. \A j \in 1 .. Len(w) : w[j] \in 0 .. Horizon
  BY ElementOfSeq
<1> QED
  BY <1>1, GateAssumption

\* An admission at time c, for a request that read s.
LEMMA TalliedAdmitted ==
  ASSUME NEW w \in Seq(0 .. Horizon), NEW e \in Seq(0 .. Horizon),
         NEW c \in 0 .. Horizon, NEW s \in 0 .. Horizon, s <= c, c <= s + Delay,
         Tallied(w, e, c), Len(Left(w, s)) < Max
  PROVE  /\ Tallied(Append(Left(w, s), s), Append(Left(e, c), c), c)
         /\ Append(Left(w, s), s) \in Seq(0 .. Horizon)
         /\ Append(Left(e, c), c) \in Seq(0 .. Horizon)
<1>1. /\ c \in Nat /\ s \in Nat
      /\ Max \in Nat /\ Window \in Nat /\ Delay \in Nat /\ Horizon \in Nat
  BY GateAssumption
<1>2. PICK k \in 0 .. Len(w) :
         /\ \A j \in 1 .. k : w[j] + Window <= s
         /\ Left(w, s) \in Seq(0 .. Horizon) /\ Len(Left(w, s)) = Len(w) - k
         /\ \A j \in 1 .. (Len(w) - k) : Left(w, s)[j] = w[k + j]
  BY <1>1, Cut
<1>3. PICK m \in 0 .. Len(e) :
         /\ \A j \in 1 .. m : e[j] + Window <= c
         /\ Left(e, c) \in Seq(0 .. Horizon) /\ Len(Left(e, c)) = Len(e) - m
         /\ \A j \in 1 .. (Len(e) - m) : Left(e, c)[j] = e[m + j]
  BY <1>1, Cut
<1> DEFINE nw == Append(Left(w, s), s)
           ne == Append(Left(e, c), c)
           lw == Len(w)
           le == Len(e)
<1>4. /\ nw \in Seq(0 .. Horizon) /\ Len(nw) = lw - k + 1 /\ nw[lw - k + 1] = s
      /\ \A j \in 1 .. (lw - k) : nw[j] = w[k + j]
  BY <1>2, AppendProperties
<1>5. /\ ne \in Seq(0 .. Horizon) /\ Len(ne) = le - m + 1 /\ ne[le - m + 1] = c
      /\ \A j \in 1 .. (le - m) : ne[j] = e[m + j]
  BY <1>3, AppendProperties
<1>6. /\ \A j \in 1 .. lw : w[j] \in Nat
      /\ \A j \in 1 .. le : e[j] \in Nat
  BY TimesAreNat
<1>7. lw \in Nat /\ le \in Nat /\ k \in 0 .. lw /\ m \in 0 .. le
  OBVIOUS
<1>8. /\ \A p \in 1 .. le : e[p] <= c
      /\ \A p \in 1 .. le, q \in 1 .. lw :
           le - p = lw - q => w[q] <= e[p] /\ e[p] <= w[q] + Delay
      /\ \A j \in 1 .. (le - lw) : e[j] + Window <= e[le] + Delay
  BY DEF Tallied
<1>9. lw - k + 1 <= Max
  BY <1>1, <1>2, <1>7
<1>10. \A j \in 1 .. k : w[j] + Window <= s
  BY <1>2
<1> HIDE DEF nw, ne, lw, le
<1>11. Len(nw) <= Max
  BY <1>4, <1>9
<1>12. ASSUME NEW p \in 1 .. Len(ne)
       PROVE  ne[p] <= c
  <2>1. CASE p = le - m + 1
    BY <1>1, <1>5, <2>1
  <2>2. CASE p # le - m + 1
    <3>1. p \in 1 .. (le - m) /\ m + p \in 1 .. le
      BY <1>5, <1>7, <2>2
    <3> QED
      BY <1>5, <1>8, <3>1
  <2> QED
    BY <2>1, <2>2
<1>13. ASSUME NEW p \in 1 .. Len(ne), NEW q \in 1 .. Len(nw), Len(ne) - p = Len(nw) - q
       PROVE  nw[q] <= ne[p] /\ ne[p] <= nw[q] + Delay
  <2>1. CASE p = le - m + 1
    <3>1. q = lw - k + 1
      BY <1>4, <1>5, <1>7, <1>13, <2>1
    <3> QED
      BY <1>1, <1>4, <1>5, <2>1, <3>1
  <2>2. CASE p # le - m + 1
    <3>1. /\ p \in 1 .. (le - m) /\ q \in 1 .. (lw - k)
          /\ m + p \in 1 .. le /\ k + q \in 1 .. lw /\ le - (m + p) = lw - (k + q)
      BY <1>4, <1>5, <1>7, <1>13, <2>2
    <3>2. ne[p] = e[m + p] /\ nw[q] = w[k + q]
      BY <1>4, <1>5, <3>1
    <3> QED
      BY <1>8, <3>1, <3>2
  <2> QED
    BY <2>1, <2>2
<1>14. ASSUME NEW j \in 1 .. (Len(ne) - Len(nw))
       PROVE  ne[j] + Window <= ne[Len(ne)] + Delay
  <2> DEFINE p == m + j
  <2>1. /\ j \in 1 .. (le - m) /\ p \in 1 .. le /\ p <= le - lw + k
        /\ ne[j] = e[p] /\ ne[Len(ne)] = c /\ e[p] \in Nat
    BY <1>4, <1>5, <1>6, <1>7
  <2>2. CASE p <= le - lw
    <3>1. e[p] + Window <= e[le] + Delay /\ e[le] <= c /\ e[le] \in Nat
      BY <1>6, <1>7, <1>8, <2>1, <2>2
    <3>2. e[p] + Window <= c + Delay
      <4> DEFINE x == e[p]
                 y == e[le]
      <4>1. x \in Nat /\ y \in Nat /\ x + Window <= y + Delay /\ y <= c
        BY <2>1, <3>1
      <4> HIDE DEF x, y
      <4>2. x + Window <= c + Delay
        BY <1>1, <4>1
      <4> QED
        BY <4>2 DEF x
    <3> QED
      BY <2>1, <3>2
  <2>3. CASE p > le - lw
    <3> DEFINE q == lw - (le - p)
    <3>1. q \in 1 .. k /\ q \in 1 .. lw /\ le - p = lw - q
      BY <1>7, <2>1, <2>3
    <3>2. w[q] + Window <= s /\ e[p] <= w[q] + Delay /\ w[q] \in Nat
      BY <1>6, <1>8, <1>10, <2>1, <3>1
    <3>3. e[p] + Window <= c + Delay
      <4> DEFINE x == e[p]
                 y == w[q]
      <4>1. x \in Nat /\ y \in Nat /\ y + Window <= s /\ x <= y + Delay
        BY <2>1, <3>2
      <4> HIDE DEF x, y
      <4>2. x + Window <= c + Delay
        BY <1>1, <4>1
      <4> QED
        BY <4>2 DEF x
    <3> QED
      BY <2>1, <3>3
  <2> QED
    BY <1>7, <2>1, <2>2, <2>3
<1>15. Tallied(nw, ne, c)
  BY <1>11, <1>12, <1>13, <1>14 DEF Tallied
<1> QED
  BY <1>4, <1>5, <1>15 DEF nw, ne

\* A refusal lets go of nothing.
LEMMA TalliedRefused ==
  ASSUME NEW w \in Seq(0 .. Horizon), NEW e \in Seq(0 .. Horizon),
         NEW c \in 0 .. Horizon, NEW s \in 0 .. Horizon,
         Tallied(w, e, c), ~(Len(Left(w, s)) < Max)
  PROVE  Tallied(Left(w, s), e, c) /\ Left(w, s) \in Seq(0 .. Horizon)
<1>1. s \in Nat /\ Max \in Nat
  BY GateAssumption
<1>2. PICK k \in 0 .. Len(w) :
         /\ Left(w, s) \in Seq(0 .. Horizon) /\ Len(Left(w, s)) = Len(w) - k
         /\ \A j \in 1 .. (Len(w) - k) : Left(w, s)[j] = w[k + j]
  BY <1>1, Cut
<1>3. Len(w) <= Max /\ Len(w) \in Nat
  BY DEF Tallied
<1>4. k = 0
  BY <1>1, <1>2, <1>3
<1>5. Len(Left(w, s)) = Len(w) /\ \A j \in 1 .. Len(w) : Left(w, s)[j] = w[j]
  BY <1>2, <1>3, <1>4
<1> QED
  BY <1>2, <1>3, <1>5 DEF Tallied

\* Of the history, no more than the limiter holds are within a window.
LEMMA TalliedWindow ==
  ASSUME NEW w \in Seq(0 .. Horizon), NEW e \in Seq(0 .. Horizon), NEW c, Tallied(w, e, c)
  PROVE  Cardinality({j \in 1 .. Len(e) : e[j] + Window > e[Len(e)] + Delay}) <= Max
<1> DEFINE S == {j \in 1 .. Len(e) : e[j] + Window > e[Len(e)] + Delay}
           a == IF Len(w) <= Len(e) THEN Len(e) - Len(w) + 1 ELSE 1
<1>1. Len(w) \in Nat /\ Len(e) \in Nat /\ Len(w) <= Max
      /\ Max \in Nat /\ Window \in Nat /\ Delay \in Nat /\ Horizon \in Nat
  BY GateAssumption DEF Tallied
<1>2. \A j \in 1 .. Len(e) : e[j] \in Nat
  BY <1>1, TimesAreNat
<1>3. S \in SUBSET (a .. Len(e))
  <2> SUFFICES ASSUME NEW j \in S
               PROVE  j \in a .. Len(e)
    OBVIOUS
  <2>1. j \in 1 .. Len(e) /\ e[j] \in Nat /\ e[Len(e)] \in Nat
    BY <1>1, <1>2
  <2>2. ~(e[j] + Window <= e[Len(e)] + Delay)
    BY <1>1, <2>1
  <2>3. j \notin 1 .. (Len(e) - Len(w))
    BY <2>2 DEF Tallied
  <2> QED
    BY <1>1, <2>1, <2>3
<1>4. a \in Int /\ Len(e) \in Int
  BY <1>1
<1> HIDE DEF S
<1>5. /\ IsFiniteSet(a .. Len(e))
      /\ Cardinality(a .. Len(e)) = IF a > Len(e) THEN 0 ELSE Len(e) - a + 1
  BY <1>4, FS_Interval
<1>6. Cardinality(S) <= Cardinality(a .. Len(e)) /\ IsFiniteSet(S)
  BY <1>3, <1>5, FS_Subset
<1>7. Cardinality(S) \in Nat
  BY <1>6, FS_CardinalityType
<1>8. Cardinality(a .. Len(e)) \in Nat /\ Cardinality(a .. Len(e)) <= Max
  <2>1. CASE Len(w) = 0
    BY <1>1, <1>5, <2>1
  <2>2. CASE Len(w) # 0 /\ Len(w) <= Len(e)
    BY <1>1, <1>5, <2>2
  <2>3. CASE ~(Len(w) <= Len(e))
    BY <1>1, <1>5, <2>3
  <2> QED
    BY <2>1, <2>2, <2>3
<1> HIDE DEF a
<1>9. Cardinality(S) <= Max
  BY <1>1, <1>6, <1>7, <1>8
<1> QED
  BY <1>9 DEF S

-----------------------------------------------------------------------------

\* What a request may become.
Sound(x) ==
  /\ x \in Gate!Request
  /\ gate = None => x = Gate!Idle
  /\ x.pc \in {"arrived", "knocking"} /\ Gate!Current(x.token) => x.living
  /\ x.pc \in {"counting", "admitted", "serving"} /\ x.verified => x.living
  /\ x.pc = "serving" /\ gate.auth => x.verified
  /\ x.pc \in {"knocking", "counting"} => x.stamp <= now /\ now <= x.stamp + Delay

LEMMA GateMove ==
  ASSUME GateInv, NEW t \in Threads, NEW x, Sound(x), Gate!Move(t, x),
         UNCHANGED <<gate, token, now>>
  PROVE  /\ asked' \in [Threads -> Gate!Request]
         /\ Shut' /\ Living' /\ Prompt'
<1>1. /\ x \in Gate!Request /\ asked' = [asked EXCEPT ![t] = x]
      /\ asked \in [Threads -> Gate!Request]
  BY DEF Sound, Gate!Move, GateInv, Gate!TypeOK
<1>2. asked'[t] = x /\ \A u \in Threads : u # t => asked'[u] = asked[u]
  BY <1>1
<1>3. \A k : Gate!Current(k)' <=> Gate!Current(k)
  BY DEF Gate!Current
<1>4. Shut' /\ Prompt'
  BY <1>2 DEF Sound, GateInv, Shut, Prompt
<1>5. Living'
  BY <1>2 DEF Sound, GateInv, Living, Gate!Current
<1> QED
  BY <1>1, <1>4, <1>5

\* A request under way is a record of all its fields, at a gate that is open.
LEMMA AskedFacts ==
  ASSUME GateInv, NEW t \in Threads, asked[t].pc # "idle"
  PROVE  /\ gate # None
         /\ asked[t] \in
              [pc: {"open", "knocking", "arrived", "counting", "admitted", "serving"},
               socket: BOOLEAN, token: Tokens \cup {None}, peer: Peers, id: Gate!Ids,
               stamp: 0 .. Horizon, verified: BOOLEAN, living: BOOLEAN]
BY DEF GateInv, Gate!TypeOK, Shut, Gate!Request, Gate!Idle

\* The requests after a step that leaves the windows alone.
LEMMA GateRest ==
  ASSUME GateInv, UNCHANGED <<gate, token, now, window, entered>>,
         asked' \in [Threads -> Gate!Request], Shut', Living', Prompt'
  PROVE  GateInv'
<1>1. Gate!TypeOK'
  BY DEF GateInv, Gate!TypeOK
<1>2. \A i \in Gate!Ids : Tallied(window'[i], entered'[i], now')
  BY DEF GateInv
<1> QED
  BY <1>1, <1>2 DEF GateInv

LEMMA GateWalk ==
  ASSUME GateInv, NEW t \in Threads,
         \/ Gate!Arrive(t) \/ Gate!Open(t) \/ Gate!Message(t) \/ Gate!Verify(t)
         \/ Gate!Establish(t) \/ Gate!Serve(t) \/ Gate!Close(t)
  PROVE  GateInv'
<1> DEFINE r == asked[t]
<1>1. ASSUME NEW x, Sound(x), Gate!Move(t, x), UNCHANGED <<gate, token, now, window, entered>>
      PROVE  GateInv'
  BY <1>1, GateMove, GateRest
<1>2. Sound(Gate!Idle)
  BY DEF Sound, Gate!Idle, Gate!Request
<1>3. now \in 0 .. Horizon /\ 0 \in 0 .. Horizon
      /\ Horizon \in Nat /\ Delay \in Nat /\ now \in Nat
  BY GateAssumption DEF GateInv, Gate!TypeOK
<1>4. CASE Gate!Arrive(t)
  <2>1. PICK k \in Tokens \cup {None}, peer \in Peers :
          Gate!Move(t, [pc |-> "arrived", socket |-> FALSE, token |-> k, peer |-> peer,
                        id |-> peer, stamp |-> 0, verified |-> FALSE,
                        living |-> Gate!Current(k)])
    BY <1>4 DEF Gate!Arrive
  <2> DEFINE x == [pc |-> "arrived", socket |-> FALSE, token |-> k, peer |-> peer,
                   id |-> peer, stamp |-> 0, verified |-> FALSE, living |-> Gate!Current(k)]
  <2>2. Gate!Current(k) \in BOOLEAN /\ peer \in Gate!Ids
    BY DEF Gate!Current, Gate!Ids
  <2>3. x \in Gate!Request
    BY <1>3, <2>2 DEF Gate!Request
  <2>4. Sound(x)
    BY <1>4, <2>3 DEF Sound, Gate!Arrive
  <2> QED
    BY <1>1, <1>4, <2>1, <2>4 DEF Gate!Arrive
<1>5. CASE Gate!Open(t)
  <2>1. PICK k \in Tokens \cup {None}, peer \in Peers :
          Gate!Move(t, [pc |-> "open", socket |-> TRUE, token |-> k, peer |-> peer,
                        id |-> IF Gate!Signed(k) THEN Who(k) ELSE peer,
                        stamp |-> 0, verified |-> FALSE, living |-> FALSE])
    BY <1>5 DEF Gate!Open
  <2> DEFINE id == IF Gate!Signed(k) THEN Who(k) ELSE peer
             x == [pc |-> "open", socket |-> TRUE, token |-> k, peer |-> peer, id |-> id,
                   stamp |-> 0, verified |-> FALSE, living |-> FALSE]
  <2>2. id \in Gate!Ids
    BY DEF Gate!Signed, Gate!Ids
  <2> HIDE DEF id
  <2>3. x \in Gate!Request
    BY <1>3, <2>2 DEF Gate!Request
  <2>4. Sound(x)
    BY <1>5, <2>3 DEF Sound, Gate!Open
  <2> QED
    BY <1>1, <1>5, <2>1, <2>4 DEF Gate!Open, id
<1>6. CASE Gate!Message(t)
  <2> DEFINE living == Gate!Current(r.token)
             x == [r EXCEPT !.pc = "knocking", !.stamp = now, !.living = living]
  <2>1. r.pc = "open"
    BY <1>6 DEF Gate!Message
  <2>2. living \in BOOLEAN
    BY DEF Gate!Current
  <2>3. /\ x \in Gate!Request /\ gate # None /\ x.pc = "knocking" /\ x.stamp = now
        /\ x.living = living /\ x.token = r.token
    BY <1>3, <2>1, <2>2, AskedFacts DEF Gate!Request
  <2>4. Sound(x)
    BY <1>3, <2>3 DEF Sound
  <2> QED
    BY <1>1, <1>6, <2>4 DEF Gate!Message
<1>7. CASE Gate!Verify(t)
  <2> DEFINE id == Gate!Identity(r.token, r.peer)
             current == Gate!Current(r.token)
             x == [r EXCEPT !.pc = "counting", !.id = id, !.stamp = now, !.verified = current]
  <2>1. r.pc = "arrived"
    BY <1>7 DEF Gate!Verify
  <2>2. current \in BOOLEAN /\ id \in Gate!Ids
    BY <2>1, AskedFacts DEF Gate!Current, Gate!Identity, Gate!Ids
  <2>3. current => r.living
    BY <2>1 DEF GateInv, Living
  <2> HIDE DEF id, current
  <2>4. /\ x \in Gate!Request /\ gate # None /\ x.pc = "counting" /\ x.stamp = now
        /\ x.living = r.living /\ x.verified = current
    BY <1>3, <2>1, <2>2, AskedFacts DEF Gate!Request
  <2>5. Sound(x)
    BY <1>3, <2>3, <2>4 DEF Sound
  <2> QED
    BY <1>1, <1>7, <2>5 DEF Gate!Verify, id, current
<1>8. CASE Gate!Establish(t)
  <2> DEFINE x == [r EXCEPT !.pc = "serving"]
  <2>1. r.pc = "admitted"
    BY <1>8 DEF Gate!Establish
  <2>2. /\ x \in Gate!Request /\ gate # None /\ x.pc = "serving"
        /\ x.living = r.living /\ x.verified = r.verified
    BY <2>1, AskedFacts DEF Gate!Request
  <2>3. r.verified => r.living
    BY <2>1 DEF GateInv, Living
  <2>4. CASE (gate.auth => r.verified) /\ Gate!Move(t, x)
    <3>1. Sound(x)
      BY <2>2, <2>3, <2>4 DEF Sound
    <3> QED
      BY <1>1, <1>8, <2>4, <3>1 DEF Gate!Establish
  <2>5. CASE Gate!Move(t, Gate!Idle)
    BY <1>1, <1>2, <1>8, <2>5 DEF Gate!Establish
  <2> QED
    BY <1>8, <2>4, <2>5 DEF Gate!Establish, Gate!End
<1>9. CASE Gate!Serve(t)
  <2> DEFINE x == [r EXCEPT !.pc = "open", !.verified = FALSE, !.living = FALSE]
  <2>1. r.pc = "serving"
    BY <1>9 DEF Gate!Serve
  <2>2. x \in Gate!Request /\ gate # None /\ x.pc = "open"
    BY <2>1, AskedFacts DEF Gate!Request
  <2>3. Sound(x)
    BY <2>2 DEF Sound
  <2> QED
    BY <1>1, <1>2, <1>9, <2>3 DEF Gate!Serve, Gate!End
<1>10. CASE Gate!Close(t)
  BY <1>1, <1>2, <1>10 DEF Gate!Close, Gate!End
<1> QED
  BY <1>4, <1>5, <1>6, <1>7, <1>8, <1>9, <1>10

LEMMA GateCount ==
  ASSUME GateInv, NEW t \in Threads, Gate!CountMessage(t) \/ Gate!CountRequest(t)
  PROVE  GateInv'
<1> DEFINE r == asked[t]
           s == r.stamp
           i == r.id
           w == Left(window[i], s)
           e == Left(entered[i], now)
           again == [r EXCEPT !.pc = "arrived", !.stamp = 0]
           still == [r EXCEPT !.pc = "open", !.stamp = 0, !.living = FALSE]
           admitted == [r EXCEPT !.pc = "admitted", !.stamp = 0]
<1>1. r.pc \in {"knocking", "counting"} /\ UNCHANGED <<gate, token, now>>
  BY DEF Gate!CountMessage, Gate!CountRequest, Gate!Count
<1>2. /\ gate # None /\ i \in Gate!Ids /\ s \in 0 .. Horizon /\ now \in 0 .. Horizon
      /\ s <= now /\ now <= s + Delay
      /\ window \in [Gate!Ids -> Seq(0 .. Horizon)] /\ entered \in [Gate!Ids -> Seq(0 .. Horizon)]
      /\ Tallied(window[i], entered[i], now)
  BY <1>1, AskedFacts DEF GateInv, Gate!TypeOK, Prompt
<1>3. 0 \in 0 .. Horizon
  BY GateAssumption
<1>4. \/ Sound(again) /\ r.pc = "knocking"
      \/ Sound(admitted) /\ r.pc = "counting"
  <2>1. CASE r.pc = "knocking"
    <3>1. /\ again \in Gate!Request /\ again.pc = "arrived" /\ again.living = r.living
          /\ again.token = r.token
      BY <1>1, <1>3, AskedFacts DEF Gate!Request
    <3> QED
      BY <1>2, <2>1, <3>1 DEF Sound, GateInv, Living
  <2>2. CASE r.pc = "counting"
    <3>1. /\ admitted \in Gate!Request /\ admitted.pc = "admitted"
          /\ admitted.living = r.living /\ admitted.verified = r.verified
      BY <1>1, <1>3, AskedFacts DEF Gate!Request
    <3> QED
      BY <1>2, <2>2, <3>1 DEF Sound, GateInv, Living
  <2> QED
    BY <1>1, <2>1, <2>2
<1>5. Sound(still) /\ Sound(Gate!Idle)
  <2>1. still \in Gate!Request /\ still.pc = "open"
    BY <1>1, <1>3, AskedFacts DEF Gate!Request
  <2>2. Sound(Gate!Idle)
    BY DEF Sound, Gate!Idle, Gate!Request
  <2> HIDE DEF still
  <2>3. Sound(still)
    BY <1>2, <2>1 DEF Sound
  <2> QED
    BY <2>2, <2>3
<1>6. w = Gate!Evicted(window[i], s) /\ e = Gate!Recent(entered[i])
  BY SameCardinality DEF Left, Spent, Gate!Evicted, Gate!Recent
<1>7. \E x : Sound(x) /\ Gate!Move(t, x)
  <2>1. \/ Gate!Move(t, again) /\ r.pc = "knocking"
        \/ Gate!Move(t, admitted) /\ r.pc = "counting"
        \/ Gate!Move(t, still) \/ Gate!Move(t, Gate!Idle)
    BY DEF Gate!CountMessage, Gate!CountRequest, Gate!Count
  <2> QED
    BY <1>4, <1>5, <2>1
<1>8. asked' \in [Threads -> Gate!Request] /\ Shut' /\ Living' /\ Prompt'
  BY <1>1, <1>7, GateMove
<1> HIDE DEF again, still, admitted
<1>9. IF Len(w) < Max
      THEN /\ window' = [window EXCEPT ![i] = Append(w, s)]
           /\ entered' = [entered EXCEPT ![i] = Append(e, now)]
      ELSE window' = [window EXCEPT ![i] = w] /\ UNCHANGED entered
  BY <1>6 DEF Gate!CountMessage, Gate!CountRequest, Gate!Count
<1> HIDE DEF w, e
<1>10. ASSUME NEW nw \in Seq(0 .. Horizon), NEW ne \in Seq(0 .. Horizon), Tallied(nw, ne, now),
              window' = [window EXCEPT ![i] = nw],
              entered' = [entered EXCEPT ![i] = ne]
       PROVE  GateInv'
  <2>1. /\ window' \in [Gate!Ids -> Seq(0 .. Horizon)]
        /\ entered' \in [Gate!Ids -> Seq(0 .. Horizon)]
    BY <1>2, <1>10
  <2>2. \A j \in Gate!Ids : Tallied(window'[j], entered'[j], now)
    BY <1>2, <1>10 DEF GateInv
  <2>3. \A j \in Gate!Ids : Tallied(window'[j], entered'[j], now')
    BY <1>1, <2>2
  <2>4. Gate!TypeOK'
    BY <1>1, <1>8, <2>1 DEF GateInv, Gate!TypeOK
  <2> QED
    BY <1>8, <2>3, <2>4 DEF GateInv
<1>11. window[i] \in Seq(0 .. Horizon) /\ entered[i] \in Seq(0 .. Horizon)
  BY <1>2
<1>12. CASE Len(w) < Max
  <2>1. /\ Tallied(Append(w, s), Append(e, now), now)
        /\ Append(w, s) \in Seq(0 .. Horizon) /\ Append(e, now) \in Seq(0 .. Horizon)
    BY <1>2, <1>11, <1>12, TalliedAdmitted DEF w, e
  <2> QED
    BY <1>9, <1>10, <1>12, <2>1
<1>13. CASE ~(Len(w) < Max)
  <2>1. Tallied(w, entered[i], now) /\ w \in Seq(0 .. Horizon)
    BY <1>2, <1>11, <1>13, TalliedRefused DEF w
  <2>2. window' = [window EXCEPT ![i] = w] /\ entered' = [entered EXCEPT ![i] = entered[i]]
    BY <1>2, <1>9, <1>13
  <2> QED
    BY <1>10, <1>11, <2>1, <2>2
<1> QED
  BY <1>12, <1>13

LEMMA GateRound ==
  ASSUME GateInv, Gate!Start \/ Gate!Tick \/ \E k \in Tokens : Gate!Wither(k)
  PROVE  GateInv'
<1>1. CASE Gate!Start
  <2>1. PICK remote, auth, secret, wildcard \in BOOLEAN :
          /\ Gate!Ready(remote, auth, secret, TRUE, wildcard)
          /\ gate' = [remote |-> remote, auth |-> auth]
    BY <1>1 DEF Gate!Start
  <2>2. /\ UNCHANGED <<token, window, asked, now, entered>>
        /\ \A t \in Threads : asked[t] = Gate!Idle
    BY <1>1 DEF Gate!Start, GateInv, Shut
  <2>3. gate' \in Gate!Gate /\ gate'.remote => gate'.auth
    BY <2>1 DEF Gate!Gate, Gate!Ready
  <2>4. Gate!TypeOK' /\ Shut'
    BY <2>1, <2>2, <2>3 DEF GateInv, Gate!TypeOK, Shut, Gate!Gate, Gate!Ready
  <2>5. Living' /\ Prompt'
    BY <2>2 DEF Living, Prompt, Gate!Idle
  <2>6. \A i \in Gate!Ids : Tallied(window'[i], entered'[i], now')
    BY <2>2 DEF GateInv
  <2> QED
    BY <2>4, <2>5, <2>6 DEF GateInv
<1>2. CASE Gate!Tick
  <2>1. /\ UNCHANGED <<gate, token, window, asked, entered>> /\ now' = now + 1
        /\ now \in Nat /\ Horizon \in Nat /\ Delay \in Nat /\ now' \in 0 .. Horizon
    BY <1>2, GateAssumption DEF Gate!Tick, GateInv, Gate!TypeOK
  <2>2. Gate!TypeOK' /\ Shut'
    BY <2>1 DEF GateInv, Gate!TypeOK, Shut
  <2>3. Living'
    BY <2>1 DEF GateInv, Living, Gate!Current
  <2>4. Prompt'
    <3> SUFFICES ASSUME NEW t \in Threads, asked[t].pc \in {"knocking", "counting"}
                 PROVE  asked[t].stamp <= now' /\ now' <= asked[t].stamp + Delay
      BY <2>1 DEF Prompt
    <3>1. asked[t].stamp \in Nat
      BY <2>1, AskedFacts
    <3>2. asked[t].stamp <= now /\ now < asked[t].stamp + Delay
      BY <1>2 DEF Gate!Tick, GateInv, Prompt
    <3> QED
      BY <2>1, <3>1, <3>2
  <2>5. ASSUME NEW i \in Gate!Ids
        PROVE  Tallied(window'[i], entered'[i], now')
    <3>1. /\ entered[i] \in Seq(0 .. Horizon) /\ Tallied(window[i], entered[i], now)
      BY DEF GateInv, Gate!TypeOK
    <3>2. \A p \in 1 .. Len(entered[i]) : entered[i][p] \in Nat
      BY <3>1, TimesAreNat
    <3>3. \A p \in 1 .. Len(entered[i]) : entered[i][p] <= now + 1
      BY <2>1, <3>1, <3>2 DEF Tallied
    <3> QED
      BY <2>1, <3>1, <3>3 DEF Tallied
  <2> QED
    BY <2>2, <2>3, <2>4, <2>5 DEF GateInv
<1>3. ASSUME NEW k \in Tokens, Gate!Wither(k)
      PROVE  GateInv'
  <2>1. /\ UNCHANGED <<gate, window, asked, now, entered>> /\ token \in [Tokens -> Gate!States]
        /\ token' = [token EXCEPT ![k] = IF token[k] = "current" THEN "superseded" ELSE "dead"]
    BY <1>3 DEF Gate!Wither, GateInv, Gate!TypeOK
  <2>2. token' \in [Tokens -> Gate!States]
    BY <2>1 DEF Gate!States
  <2>3. \A j \in Tokens \cup {None} : Gate!Current(j)' => Gate!Current(j)
    BY <2>1 DEF Gate!Current
  <2>4. Gate!TypeOK' /\ Shut' /\ Prompt'
    BY <2>1, <2>2 DEF GateInv, Gate!TypeOK, Shut, Prompt
  <2>5. Living'
    <3>1. \A t \in Threads : asked[t].pc # "idle" => asked[t].token \in Tokens \cup {None}
      BY AskedFacts
    <3> QED
      BY <2>1, <2>3, <3>1 DEF GateInv, Living
  <2>6. \A i \in Gate!Ids : Tallied(window'[i], entered'[i], now')
    BY <2>1 DEF GateInv
  <2> QED
    BY <2>4, <2>5, <2>6 DEF GateInv
<1> QED
  BY <1>1, <1>2, <1>3

LEMMA GateKept == GateInv /\ [Gate!Next]_gateVars => GateInv'
<1>1. ASSUME GateInv, UNCHANGED gateVars
      PROVE  GateInv'
  <2>1. UNCHANGED <<gate, token, now, window, entered, asked>>
    BY <1>1 DEF gateVars
  <2>2. asked' \in [Threads -> Gate!Request] /\ Shut' /\ Living' /\ Prompt'
    BY <1>1, <2>1 DEF GateInv, Gate!TypeOK, Shut, Living, Prompt, Gate!Current
  <2> QED
    BY <1>1, <2>1, <2>2, GateRest
<1> QED
  BY <1>1, GateRound, GateWalk, GateCount DEF Gate!Next

LEMMA GateStart == Gate!Init => GateInv
<1> SUFFICES ASSUME Gate!Init
             PROVE  GateInv
  OBVIOUS
<1>1. /\ <<>> \in Seq(0 .. Horizon) /\ Len(<<>>) = 0 /\ 0 \in 0 .. Horizon /\ Max \in Nat
  BY GateAssumption
<1>2. Gate!TypeOK
  BY <1>1 DEF Gate!Init, Gate!TypeOK, Gate!States, Gate!Request
<1>3. Shut /\ Living /\ Prompt
  BY DEF Gate!Init, Shut, Living, Prompt, Gate!Idle
<1>4. \A i \in Gate!Ids : Tallied(window[i], entered[i], now)
  BY <1>1 DEF Gate!Init, Tallied
<1> QED
  BY <1>2, <1>3, <1>4 DEF GateInv

LEMMA GateHeld == GatewaySpec => []GateInv
<1>1. GatewayInit => GateInv
  BY GateStart DEF GatewayInit
<1>2. [GatewayNext]_<<part, vars, fabricVars, gateVars>> => [Gate!Next]_gateVars
  BY DEF GatewayNext, vars, gateVars
<1> QED
  BY <1>1, <1>2, GateKept, PTL DEF GatewaySpec

\* The limiter admits no more than max_requests of an identity within a window,
\* less the wait for its lock, however the requests that read the clock before
\* they had it overtake one another (RateLimiter.check).
THEOREM LimitIsHeld == GatewaySpec => []WindowHeld
<1>1. ASSUME GateInv
      PROVE  WindowHeld
  <2> SUFFICES ASSUME NEW i \in Gate!Ids
               PROVE  Cardinality({j \in 1 .. Len(entered[i]) :
                        entered[i][j] + Window > entered[i][Len(entered[i])] + Delay}) <= Max
    BY SameCardinality DEF WindowHeld, Gate!WindowHeld
  <2>1. /\ window[i] \in Seq(0 .. Horizon) /\ entered[i] \in Seq(0 .. Horizon)
        /\ Tallied(window[i], entered[i], now)
    BY <1>1 DEF GateInv, Gate!TypeOK
  <2> QED
    BY <2>1, TalliedWindow
<1> QED
  BY <1>1, GateHeld, PTL

\* Where tokens are asked for, what is served came in with a token that was
\* current on arrival, over a socket that was opened long before, too
\* (websocket_chat, establish_context).
THEOREM ServedLive == GatewaySpec => []ServedWereCurrent
<1>1. GateInv => ServedWereCurrent
  BY DEF GateInv, Shut, Living, ServedWereCurrent, Gate!ServedWereCurrent, Gate!Idle
<1> QED
  BY <1>1, GateHeld, PTL

\* A behaviour of Gateway is, seen through the variables of any of its modules, a
\* behaviour of that module: what the modules promise, Gateway keeps.
THEOREM GatewayImplements == GatewaySpec => Spec /\ Fabric!Spec /\ Gate!Spec
<1> DEFINE all == <<part, vars, fabricVars, gateVars>>
<1>1. GatewayInit => Init /\ Fabric!Init /\ Gate!Init
  BY DEF GatewayInit
<1>2. [GatewayNext]_all => [Next]_vars
  BY DEF GatewayNext
<1>3. [GatewayNext]_all => [Fabric!Next]_(Fabric!vars)
  BY DEF GatewayNext, fabricVars, Fabric!vars
<1>4. [GatewayNext]_all => [Gate!Next]_(Gate!vars)
  BY DEF GatewayNext, gateVars, Gate!vars
<1> QED
  BY <1>1, <1>2, <1>3, <1>4, PTL DEF GatewaySpec, Spec, Fabric!Spec, Gate!Spec
=============================================================================
