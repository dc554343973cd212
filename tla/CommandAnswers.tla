---------------------------- MODULE CommandAnswers ----------------------------
(***************************************************************************)
(* How a command is answered: from the response cache when it can be, else *)
(* by the handler of its verb, which may read and write the one memory of  *)
(* the process; the answer is then kept for whoever asks the same again.   *)
(* Commands run at once; the cache and each statement on the memory are    *)
(* atomic, a command is not.                                               *)
(***************************************************************************)
EXTENDS Naturals, Sequences, FiniteSets, SequencesExt

CONSTANTS
  Threads,
  Scopes,      \* principal, tenant, roles, credential: _cache_security_scope
  Local,       \* the scopes of the command line and the scheduler
  Verbs,       \* among "remember", "save" (and "store"), "forget", "delete", "search", "calculate"
  Texts,       \* what is remembered and looked for
  Capacity,    \* max_size of the cache
  Short,       \* _SHORT
  Hits,        \* how many matches one forget deletes
  Rows,        \* bound on the memories ever stored
  Horizon,     \* bound on the time
  None

VARIABLES
  cache,     \* ResponseCache._cache, the least recently used first
  memories,  \* the table memories: the text of each row there is
  next,      \* the next AUTOINCREMENT id
  request,   \* what each thread is in the middle of
  now        \* the time

vars == <<cache, memories, next, request, now>>

Ids == 1 .. Rows

\* An answer, abstracted to for whom and for which command it was computed.
Answer == [scope: Scopes, verb: Verbs, text: Texts]

Entry == [scope: Scopes, verb: Verbs, text: Texts, answer: Answer, at: 0 .. Horizon]

Idle == [pc |-> "idle"]

\* hits are the rows to delete; disturbed says whether somebody deleted a row
\* with the text since the command was asked.
Request == {Idle} \cup
  [pc: {"asked", "missed", "deleting", "handled", "answered"},
   scope: Scopes, verb: Verbs, text: Texts, hits: SUBSET Ids, answer: Answer \cup {None},
   disturbed: BOOLEAN]

TypeOK ==
  /\ cache \in Seq(Entry) /\ Len(cache) =< Capacity
  /\ \A i, j \in 1 .. Len(cache) :
       i # j => <<cache[i].scope, cache[i].verb, cache[i].text>>
                  # <<cache[j].scope, cache[j].verb, cache[j].text>>
  /\ memories \in [Ids -> Texts \cup {None}]
  /\ next \in 1 .. Rows + 1
  /\ request \in [Threads -> Request]
  /\ now \in 0 .. Horizon

Init ==
  /\ cache = <<>>
  /\ memories = [i \in Ids |-> None]
  /\ next = 1
  /\ request = [t \in Threads |-> Idle]
  /\ now = 0

-----------------------------------------------------------------------------
(* The cache.                                                              *)

\* Slip: everything that changes the memory lives for the default time.
SlipTtl(verb) == IF verb = "calculate" THEN "permanent" ELSE "short"

\* _CMD_TTL: what is not listed, among it "save" and "delete", lives _SHORT.
Ttl(verb) ==
  CASE verb = "calculate" -> "permanent"
    [] verb \in {"remember", "forget"} -> "bypass"
    [] OTHER -> "short"

\* Slip: the scope is not part of the key.
SlipSame(e, scope, verb, text) == e.verb = verb /\ e.text = text

\* _scope_key
Same(e, scope, verb, text) == e.scope = scope /\ e.verb = verb /\ e.text = text

Expired(e) == Ttl(e.verb) = "short" /\ now > e.at + Short

\* Where the entry of a key is, if there is one: a key has one at most.
Places(scope, verb, text) == {i \in DOMAIN cache : Same(cache[i], scope, verb, text)}
Place(scope, verb, text) == CHOOSE i \in Places(scope, verb, text) : TRUE

Without(scope, verb, text) ==
  IF Places(scope, verb, text) = {} THEN cache ELSE RemoveAt(cache, Place(scope, verb, text))

\* _require_remote_command_surface: the memory is for local scopes only.
Admitted(scope, verb) == scope \in Local \/ verb = "calculate"

Ask(t) ==
  /\ request[t] = Idle
  /\ \E scope \in Scopes, verb \in Verbs, text \in Texts :
       /\ Admitted(scope, verb)
       /\ request' = [request EXCEPT ![t] =
            [pc |-> "asked", scope |-> scope, verb |-> verb, text |-> text, hits |-> {},
             answer |-> None, disturbed |-> FALSE]]
  /\ UNCHANGED <<cache, memories, next, now>>

\* ResponseCache.get: an expired entry goes, a hit becomes the most recent.
Get(t) ==
  LET r == request[t]
      rest == Without(r.scope, r.verb, r.text)
      found == cache[Place(r.scope, r.verb, r.text)]
      miss == [request EXCEPT ![t].pc = "missed"]
  IN
  /\ r.pc = "asked"
  /\ IF Ttl(r.verb) = "bypass" \/ Places(r.scope, r.verb, r.text) = {}
     THEN request' = miss /\ UNCHANGED cache
     ELSE IF Expired(found)
     THEN request' = miss /\ cache' = rest
     ELSE /\ request' = [request EXCEPT ![t].pc = "answered", ![t].answer = found.answer]
          /\ cache' = Append(rest, found)
  /\ UNCHANGED <<memories, next, now>>

\* ResponseCache.set evicts the least recent entry when a new one is too many.
Keep(t) ==
  LET r == request[t]
      rest == Without(r.scope, r.verb, r.text)
      entry == [scope |-> r.scope, verb |-> r.verb, text |-> r.text,
                answer |-> r.answer, at |-> now]
  IN
  /\ r.pc = "handled"
  /\ cache' = IF Ttl(r.verb) = "bypass" THEN cache
              ELSE Append(IF Len(rest) = Capacity THEN Tail(rest) ELSE rest, entry)
  /\ request' = [request EXCEPT ![t].pc = "answered"]
  /\ UNCHANGED <<memories, next, now>>

Done(t) ==
  /\ request[t].pc = "answered"
  /\ request' = [request EXCEPT ![t] = Idle]
  /\ UNCHANGED <<cache, memories, next, now>>

-----------------------------------------------------------------------------
(* The handlers of the memory.                                             *)

Matches(text) == {i \in Ids : memories[i] = text}

Handled(r) ==
  [r EXCEPT !.pc = "handled", !.hits = {},
            !.answer = [scope |-> r.scope, verb |-> r.verb, text |-> r.text]]

\* memory_service.store of "remember" and "save".
Store(t) ==
  LET r == request[t] IN
  /\ r.pc = "missed" /\ r.verb \in {"remember", "save"}
  /\ next \in Ids
  /\ memories' = [memories EXCEPT ![next] = r.text]
  /\ next' = next + 1
  /\ request' = [request EXCEPT ![t] = Handled(r)]
  /\ UNCHANGED <<cache, now>>

\* search and calculate
Look(t) ==
  LET r == request[t] IN
  /\ r.pc = "missed" /\ r.verb \in {"search", "calculate"}
  /\ request' = [request EXCEPT ![t] = Handled(r)]
  /\ UNCHANGED <<cache, memories, next, now>>

\* forget finds what to delete, the best matches first, ...
Find(t) ==
  LET r == request[t] IN
  /\ r.pc = "missed" /\ r.verb \in {"forget", "delete"}
  /\ \E hits \in SUBSET Matches(r.text) :
       /\ Cardinality(hits) = IF Cardinality(Matches(r.text)) < Hits
                              THEN Cardinality(Matches(r.text)) ELSE Hits
       /\ request' = [request EXCEPT ![t].pc = "deleting", ![t].hits = hits]
  /\ UNCHANGED <<cache, memories, next, now>>

\* A command that stored the text must know that it may be gone again.
Disturb(text) ==
  [u \in Threads |-> IF /\ request[u] # Idle /\ request[u].text = text
                        /\ request[u].verb \in {"remember", "save"}
                     THEN [request[u] EXCEPT !.disturbed = TRUE] ELSE request[u]]

\* ... and deletes one after the other, by id, whatever the row holds by then.
Delete(t) ==
  LET r == request[t] IN
  /\ r.pc = "deleting" /\ r.hits # {}
  /\ \E i \in r.hits :
       /\ memories' = [memories EXCEPT ![i] = None]
       /\ request' = [Disturb(memories[i]) EXCEPT ![t].hits = r.hits \ {i}]
  /\ UNCHANGED <<cache, next, now>>

Deleted(t) ==
  LET r == request[t] IN
  /\ r.pc = "deleting" /\ r.hits = {}
  /\ request' = [request EXCEPT ![t] = Handled(r)]
  /\ UNCHANGED <<cache, memories, next, now>>

\* A handler that raises: the task fails, and nothing is kept.
Fail(t) ==
  /\ request[t].pc \in {"missed", "deleting"}
  /\ request' = [request EXCEPT ![t] = Idle]
  /\ UNCHANGED <<cache, memories, next, now>>

Tick ==
  /\ now < Horizon
  /\ now' = now + 1
  /\ UNCHANGED <<cache, memories, next, request>>

Next ==
  \/ Tick
  \/ \E t \in Threads :
       \/ Ask(t) \/ Get(t) \/ Keep(t) \/ Done(t)
       \/ Store(t) \/ Look(t) \/ Find(t) \/ Delete(t) \/ Deleted(t) \/ Fail(t)

Spec == Init /\ [][Next]_vars

-----------------------------------------------------------------------------
(* Properties.                                                             *)

\* An answer, also one from the cache, was computed for this very command and
\* for the same principal, tenant, roles and credential.
AnswersInScope ==
  \A t \in Threads : request[t].pc = "answered" =>
    /\ request[t].answer.scope = request[t].scope
    /\ request[t].answer.verb = request[t].verb
    /\ request[t].answer.text = request[t].text

\* What "remember" acknowledges is in the memory, unless it was deleted since.
RememberedMeansStored ==
  \A t \in Threads :
    request[t].pc = "answered" /\ request[t].verb = "remember" /\ ~ request[t].disturbed
      => Matches(request[t].text) # {}
==============================================================================
