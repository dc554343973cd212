----------------------------- MODULE HybridMemory -----------------------------
(***************************************************************************)
(* The hybrid memory (memory/hybrid.py): what was remembered, in the store  *)
(* of SimpleMemoryEngine, and what happened, the episodes, in a database of *)
(* its own.  A hybrid search reads the one, then the other, and fuses the   *)
(* hits into one list without duplicates.  Both number their rows from 1.   *)
(* Every text of the model matches the query, and as ages and ranks are     *)
(* anything the order of the fused hits is any.                             *)
(***************************************************************************)
EXTENDS Naturals, FiniteSets

CONSTANTS
  Threads,
  Texts,   \* the contents, up to the 120 characters a duplicate is known by
  Rows,    \* bound on the rows ever stored in either table
  Limit,   \* hits a search asks for
  None

VARIABLES
  memories,  \* the text of each row of memories, None where there is none
  episodes,  \* the text of each episode
  next,      \* the next AUTOINCREMENT id of each table
  op         \* what each thread is in the middle of

vars == <<memories, episodes, next, op>>

Ids == 1 .. Rows
Table == [Ids -> Texts \cup {None}]

\* A hit: an id, the text, and which of the stores it is said to be from.
Hit == [id: Ids, text: Texts, source: {"semantic", "episodic", "both"}]

Idle == [pc |-> "idle"]

Op == {Idle, [pc |-> "clear"]}
      \cup [pc: {"search"}, sem: Table]
      \cup [pc: {"found"}, sem: Table, epi: Table, hits: SUBSET Hit]

TypeOK ==
  /\ memories \in Table /\ episodes \in Table
  /\ next \in [{"memories", "episodes"} -> 1 .. Rows + 1]
  /\ op \in [Threads -> Op]

Empty == [i \in Ids |-> None]

Init ==
  /\ memories = Empty /\ episodes = Empty
  /\ next = [table \in {"memories", "episodes"} |-> 1]
  /\ op = [t \in Threads |-> Idle]

-----------------------------------------------------------------------------
Store(t, text) ==
  /\ op[t] = Idle /\ next["memories"] =< Rows
  /\ memories' = [memories EXCEPT ![next["memories"]] = text]
  /\ next' = [next EXCEPT !["memories"] = @ + 1]
  /\ UNCHANGED <<episodes, op>>

RecordEpisode(t, text) ==
  /\ op[t] = Idle /\ next["episodes"] =< Rows
  /\ episodes' = [episodes EXCEPT ![next["episodes"]] = text]
  /\ next' = [next EXCEPT !["episodes"] = @ + 1]
  /\ UNCHANGED <<memories, op>>

\* An id that is not there any more is updated and deleted without effect.
Update(t, id, text) ==
  /\ op[t] = Idle /\ memories[id] # None
  /\ memories' = [memories EXCEPT ![id] = text]
  /\ UNCHANGED <<episodes, next, op>>

Delete(t, id) ==
  /\ op[t] = Idle /\ memories[id] # None
  /\ memories' = [memories EXCEPT ![id] = None]
  /\ UNCHANGED <<episodes, next, op>>

\* clear_all: the memories, and then, in the other database, the episodes.
Clear(t) ==
  /\ op[t] = Idle
  /\ memories' = Empty
  /\ op' = [op EXCEPT ![t] = [pc |-> "clear"]]
  /\ UNCHANGED <<episodes, next>>

ClearEpisodes(t) ==
  /\ op[t].pc = "clear"
  /\ episodes' = Empty
  /\ op' = [op EXCEPT ![t] = Idle]
  /\ UNCHANGED <<memories, next>>

-----------------------------------------------------------------------------
Hits(table) == {id \in Ids : table[id] # None}

\* What is read of a table: up to three times what is asked for.
Fetched(table) ==
  {read \in {[id \in Ids |-> IF id \in ids THEN table[id] ELSE None] : ids \in SUBSET Hits(table)} :
     Cardinality(Hits(read)) = Cardinality(Hits(table)) \/ Cardinality(Hits(read)) = 3 * Limit}

Search(t) ==
  /\ op[t] = Idle
  /\ \E read \in Fetched(memories) : op' = [op EXCEPT ![t] = [pc |-> "search", sem |-> read]]
  /\ UNCHANGED <<memories, episodes, next>>

\* A slip for TLC: of the twins the memory is left out.
SlipCandidates(sem, epi) ==
  {[id |-> id, text |-> sem[id], source |-> "semantic"] : id \in Hits(sem) \ Hits(epi)}
  \cup {[id |-> id, text |-> epi[id], source |-> "episodic"] : id \in Hits(epi)}

\* A memory and an episode with the same id count as twins: the memory is marked
\* as found in both, the episode is left out.
Candidates(sem, epi) ==
  {[id |-> id, text |-> sem[id], source |-> IF id \in Hits(epi) THEN "both" ELSE "semantic"] :
     id \in Hits(sem)}
  \cup {[id |-> id, text |-> epi[id], source |-> "episodic"] : id \in Hits(epi) \ Hits(sem)}

\* The first so many in the order of their scores, of those with the same text
\* the first.
Fused(candidates) ==
  LET texts == {c.text : c \in candidates} IN
  {hits \in SUBSET candidates :
     /\ \A h, k \in hits : h.text = k.text => h = k
     /\ \/ Cardinality(hits) = Limit
        \/ Cardinality(hits) < Limit /\ {h.text : h \in hits} = texts}

Fuse(t) ==
  /\ op[t].pc = "search"
  /\ \E epi \in Fetched(episodes) : \E hits \in Fused(Candidates(op[t].sem, epi)) :
       op' = [op EXCEPT ![t] = [pc |-> "found", sem |-> op[t].sem, epi |-> epi, hits |-> hits]]
  /\ UNCHANGED <<memories, episodes, next>>

\* The answer is given.
Answer(t) ==
  /\ op[t].pc = "found"
  /\ op' = [op EXCEPT ![t] = Idle]
  /\ UNCHANGED <<memories, episodes, next>>

Next ==
  \E t \in Threads :
    \/ \E text \in Texts : Store(t, text) \/ RecordEpisode(t, text)
    \/ \E id \in Ids, text \in Texts : Update(t, id, text)
    \/ \E id \in Ids : Delete(t, id)
    \/ Clear(t) \/ ClearEpisodes(t) \/ Search(t) \/ Fuse(t) \/ Answer(t)

Spec == Init /\ [][Next]_vars

-----------------------------------------------------------------------------
(* Properties. *)

Texted(table, text) == {id \in Ids : table[id] = text}

\* An answer names no text twice, and lacks a text that was found only if it is
\* full, or if every row with the text is an episode whose id is also that of a
\* memory, whatever is stored, changed and cleared between the two reads
\* (hybrid_search).
MissingIsHidden ==
  \A t \in Threads : op[t].pc = "found" =>
    LET hits == op[t].hits IN
    /\ \A h, k \in hits : h.text = k.text => h = k
    /\ \A text \in Texts :
         LET found == Texted(op[t].sem, text)
             happened == Texted(op[t].epi, text) IN
         \/ found \cup happened = {}
         \/ \E h \in hits : h.text = text
         \/ Cardinality(hits) = Limit
         \/ found = {} /\ happened \subseteq Hits(op[t].sem)
=============================================================================
