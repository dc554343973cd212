---------------------------- MODULE Credentials ----------------------------
(***************************************************************************)
(* What a gateway's callers identify themselves with: principals with a    *)
(* password and API keys (gateway/secrets.py), the pairs of tokens that    *)
(* are issued for them (gateway/auth.py), and the routes that log in,      *)
(* refresh, admit a request and administer credentials (routes_auth.py,    *)
(* simple_auth_handlers.py, server.py). Several threads, and processes     *)
(* that share the databases, are at work at once; each call of a store is  *)
(* a step. Signatures and hashes are taken to do their job.                *)
(***************************************************************************)
EXTENDS Naturals, Sequences, FiniteSets

CONSTANTS
  Threads,
  Principals,  \* usernames
  ApiKeys,     \* ids of API keys
  Orgs,
  Roles,       \* of which "system" is one
  MaxPairs,    \* bound on the pairs of tokens that are issued
  MaxLogins,   \* bound on the logins they go back to
  MaxStamp,    \* bound on the changes of credentials
  None

VARIABLES
  cred,     \* the rows of principals and api_keys
  stamp,    \* the clock that updated_at and created_at are taken from
  pairs,    \* the pairs of tokens, in the order in which they were issued
  revoked,  \* the pairs whose refresh token is in revoked_tokens
  expired,  \* the pairs whose refresh token's time is over
  thread,   \* what each thread is doing
  dead      \* history: logins whose credential was changed or withdrawn since

vars == <<cred, stamp, pairs, revoked, expired, thread, dead>>

Creds == Principals \cup ApiKeys
Stamps == 0 .. MaxStamp
Ids == 1 .. MaxPairs

Row == [role: Roles, org: Orgs, version: Stamps, active: BOOLEAN]

\* principals and api_keys are two tables, and None is none of their rows.
ASSUME CredentialAssumption ==
  /\ Principals \cap ApiKeys = {}
  /\ None \notin Row /\ None \notin Nat

ASSUME BoundAssumption == MaxPairs \in Nat /\ MaxStamp \in Nat

\* The claims of a pair, the login it goes back to, and the pair whose refresh
\* token it was issued for.
Pair == [of: Creds, role: Roles, org: Orgs, version: Stamps,
         login: Ids, parent: Ids \cup {None}]

Idle == [pc |-> "idle"]

Thread ==
  {Idle}
  \cup [pc: {"login"}, of: Creds, row: Row]
  \cup [pc: {"state", "again", "consume"}, id: Ids]
  \cup [pc: {"upsert"}, of: Principals, role: Roles, org: Orgs, scope: Orgs \cup {None}]
  \cup [pc: {"disable"}, of: Principals, scope: Orgs \cup {None}]

TypeOK ==
  /\ cred \in [Creds -> Row \cup {None}]
  /\ stamp \in Stamps
  /\ pairs \in Seq(Pair) /\ Len(pairs) <= MaxPairs
  /\ revoked \in SUBSET Ids
  /\ expired \in SUBSET Ids
  /\ thread \in [Threads -> Thread]
  /\ dead \in SUBSET Ids

Init ==
  /\ cred = [c \in Creds |-> None]
  /\ stamp = 0
  /\ pairs = <<>>
  /\ revoked = {}
  /\ expired = {}
  /\ thread = [t \in Threads |-> Idle]
  /\ dead = {}

Go(t, next) == thread' = [thread EXCEPT ![t] = next]

-----------------------------------------------------------------------------
(* Credentials and tokens.                                                 *)

\* authenticate, validate and get_active_key.
Usable(c) == cred[c] # None /\ cred[c].active

\* JWTAuth.verify, of a refresh token.
Verified(i) == i \notin expired /\ i \notin revoked

\* validate_credential_state: the claims are those of the row.
\* Slip: the version is not compared.
SlipCurrent(i) ==
  LET p == pairs[i] IN
  Usable(p.of) /\ cred[p.of].role = p.role /\ cred[p.of].org = p.org

Current(i) ==
  LET p == pairs[i] IN
  /\ Usable(p.of)
  /\ cred[p.of].role = p.role /\ cred[p.of].org = p.org
  /\ cred[p.of].version = p.version

\* The logins that end with a change of the credential.
LoginsOf(c) == {pairs[i].login : i \in {j \in DOMAIN pairs : pairs[j].of = c}}

\* A write of the row of c.
Change(c, row) ==
  /\ cred' = [cred EXCEPT ![c] = row]
  /\ dead' = dead \cup LoginsOf(c)
  /\ UNCHANGED <<pairs, revoked, expired>>

\* A write that takes its time from the clock.
Tick == stamp < MaxStamp /\ stamp' = stamp + 1

\* create_pair.
Issue(pair) == Len(pairs) < MaxPairs /\ pairs' = Append(pairs, pair)

-----------------------------------------------------------------------------
(* Login and refresh.                                                      *)

\* The password or the key is checked ...
Login(t) ==
  /\ thread[t].pc = "idle"
  /\ \E c \in Creds : Usable(c) /\ Go(t, [pc |-> "login", of |-> c, row |-> cred[c]])
  /\ UNCHANGED <<cred, stamp, pairs, revoked, expired, dead>>

\* ... and a pair issued for what was read.
LoginIssue(t) ==
  /\ thread[t].pc = "login"
  /\ Cardinality({i \in DOMAIN pairs : pairs[i].parent = None}) < MaxLogins
  /\ LET row == thread[t].row IN
     Issue([of |-> thread[t].of, role |-> row.role, org |-> row.org, version |-> row.version,
            login |-> Len(pairs) + 1, parent |-> None])
  /\ Go(t, Idle)
  /\ UNCHANGED <<cred, stamp, revoked, expired, dead>>

\* The refresh route: the token is verified,
Refresh(t) ==
  /\ thread[t].pc = "idle"
  /\ \E i \in DOMAIN pairs : Verified(i) /\ Go(t, [pc |-> "state", id |-> i])
  /\ UNCHANGED <<cred, stamp, pairs, revoked, expired, dead>>

\* the credential's state compared, and the token revoked if it has changed,
RefreshState(t) ==
  LET i == thread[t].id IN
  /\ thread[t].pc = "state"
  /\ IF Current(i) THEN Go(t, [pc |-> "again", id |-> i]) /\ UNCHANGED revoked
     ELSE Go(t, Idle) /\ revoked' = revoked \cup {i}
  /\ UNCHANGED <<cred, stamp, pairs, expired, dead>>

\* and JWTAuth.refresh verifies it again
RefreshVerify(t) ==
  LET i == thread[t].id IN
  /\ thread[t].pc = "again"
  /\ Go(t, IF Verified(i) THEN [pc |-> "consume", id |-> i] ELSE Idle)
  /\ UNCHANGED <<cred, stamp, pairs, revoked, expired, dead>>

\* and consumes it: of several that insert the row, one has inserted it, and
\* the new pair makes the claims of the old one.
\* Slip: the insert is not asked whether it inserted anything.
SlipRefreshConsume(t) ==
  LET i == thread[t].id IN
  /\ thread[t].pc = "consume"
  /\ revoked' = revoked \cup {i}
  /\ Issue([pairs[i] EXCEPT !.parent = i])
  /\ Go(t, Idle)
  /\ UNCHANGED <<cred, stamp, expired, dead>>

RefreshConsume(t) ==
  LET i == thread[t].id IN
  /\ thread[t].pc = "consume"
  /\ revoked' = revoked \cup {i}
  /\ IF i \in revoked THEN UNCHANGED pairs ELSE Issue([pairs[i] EXCEPT !.parent = i])
  /\ Go(t, Idle)
  /\ UNCHANGED <<cred, stamp, expired, dead>>

\* Time passes.
Expire(i) ==
  /\ i \in DOMAIN pairs
  /\ expired' = expired \cup {i}
  /\ UNCHANGED <<cred, stamp, pairs, revoked, thread, dead>>

-----------------------------------------------------------------------------
(* Administration.                                                         *)

\* _principal_manageable, for an administrator of one org; None is the system.
Manageable(c, scope) ==
  scope = None \/ (cred[c].org = scope /\ cred[c].role # "system")

\* An administrator asks to create or change a principal. Out of the system's
\* scope go neither another org nor the role "system".
AskUpsert(t) ==
  /\ thread[t].pc = "idle"
  /\ \E c \in Principals, role \in Roles, org \in Orgs, scope \in Orgs \cup {None} :
       /\ scope # None => (org = scope /\ role # "system")
       /\ cred[c] # None => Manageable(c, scope)
       /\ Go(t, [pc |-> "upsert", of |-> c, role |-> role, org |-> org, scope |-> scope])
  /\ UNCHANGED <<cred, stamp, pairs, revoked, expired, dead>>

\* upsert_principal: the write has the condition once more.
\* Slip: it has not.
SlipUpsert(t) ==
  LET a == thread[t]
      c == a.of
  IN
  /\ a.pc = "upsert"
  /\ Tick
  /\ Change(c, [role |-> a.role, org |-> a.org, version |-> stamp, active |-> TRUE])
  /\ Go(t, Idle)

Upsert(t) ==
  LET a == thread[t]
      c == a.of
  IN
  /\ a.pc = "upsert"
  /\ IF cred[c] = None \/ Manageable(c, a.scope)
     THEN /\ Tick
          /\ Change(c, [role |-> a.role, org |-> a.org, version |-> stamp, active |-> TRUE])
     ELSE UNCHANGED <<cred, stamp, pairs, revoked, expired, dead>>
  /\ Go(t, Idle)

AskDisable(t) ==
  /\ thread[t].pc = "idle"
  /\ \E c \in Principals, scope \in Orgs \cup {None} :
       /\ cred[c] # None /\ Manageable(c, scope)
       /\ Go(t, [pc |-> "disable", of |-> c, scope |-> scope])
  /\ UNCHANGED <<cred, stamp, pairs, revoked, expired, dead>>

\* disable_principal.
Disable(t) ==
  LET a == thread[t]
      c == a.of
  IN
  /\ a.pc = "disable"
  /\ IF Manageable(c, a.scope)
     THEN /\ Tick
          /\ Change(c, [cred[c] EXCEPT !.active = FALSE, !.version = stamp])
     ELSE UNCHANGED <<cred, stamp, pairs, revoked, expired, dead>>
  /\ Go(t, Idle)

\* issue_principal_secret, of an id that has no row.
IssueKey(k) ==
  /\ cred[k] = None
  /\ Tick
  /\ \E role \in Roles, org \in Orgs :
       Change(k, [role |-> role, org |-> org, version |-> stamp, active |-> TRUE])
  /\ UNCHANGED thread

\* revoke; and the time of the key is over.
RevokeKey(k) ==
  /\ Usable(k)
  /\ Change(k, [cred[k] EXCEPT !.active = FALSE])
  /\ UNCHANGED <<stamp, thread>>

\* purge_expired: the id may be issued again.
PurgeKey(k) ==
  /\ cred[k] # None /\ ~cred[k].active
  /\ Change(k, None)
  /\ UNCHANGED <<stamp, thread>>

\* rotate, in one transaction: role and org go over to the new key.
\* Slip: the time of the new key is left out.
SlipRotate(k) ==
  /\ Usable(k)
  /\ Tick
  /\ \E new \in ApiKeys :
       /\ cred[new] = None
       /\ cred' = [cred EXCEPT ![k].active = FALSE, ![new] = [cred[k] EXCEPT !.version = None]]
  /\ dead' = dead \cup LoginsOf(k)
  /\ UNCHANGED <<pairs, revoked, expired, thread>>

Rotate(k) ==
  /\ Usable(k)
  /\ Tick
  /\ \E new \in ApiKeys :
       /\ cred[new] = None
       /\ cred' = [cred EXCEPT ![k].active = FALSE, ![new] = [cred[k] EXCEPT !.version = stamp]]
  /\ dead' = dead \cup LoginsOf(k)
  /\ UNCHANGED <<pairs, revoked, expired, thread>>

\* The thread's process ends.
Abort(t) ==
  /\ thread[t].pc # "idle"
  /\ Go(t, Idle)
  /\ UNCHANGED <<cred, stamp, pairs, revoked, expired, dead>>

Next ==
  \/ \E t \in Threads :
       \/ Login(t) \/ LoginIssue(t)
       \/ Refresh(t) \/ RefreshState(t) \/ RefreshVerify(t) \/ RefreshConsume(t)
       \/ AskUpsert(t) \/ Upsert(t) \/ AskDisable(t) \/ Disable(t)
       \/ Abort(t)
  \/ \E k \in ApiKeys : IssueKey(k) \/ RevokeKey(k) \/ PurgeKey(k) \/ Rotate(k)
  \/ \E i \in Ids : Expire(i)

Spec == Init /\ [][Next]_vars

-----------------------------------------------------------------------------
(* Properties.                                                             *)

\* A refresh token is good for one pair, however many present it at once.
RefreshOnce ==
  \A i, j \in DOMAIN pairs :
    pairs[i].parent # None /\ pairs[i].parent = pairs[j].parent => i = j

\* Once a principal is changed or disabled, or a key withdrawn, no token that
\* goes back to an earlier login passes the check a request begins with
\* (_verify_current_token), by whatever refreshes it was passed on and even if
\* the same credential with the same role is restored.
TokensDie ==
  \A i \in DOMAIN pairs : pairs[i].login \in dead => ~Current(i)

\* An administrator of one org changes only principals that are in it, although
\* another administrator may create or move one after it was looked up.
AdminInScope ==
  [][\A t \in Threads :
       (/\ thread[t].pc \in {"upsert", "disable"}
        /\ thread[t].scope # None
        /\ cred' # cred /\ thread'[t] = Idle) =>
       LET c == thread[t].of IN
         /\ cred[c] # None => (cred[c].org = thread[t].scope /\ cred[c].role # "system")
         /\ cred'[c].org = thread[t].scope]_vars
=============================================================================
