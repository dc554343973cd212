---------------------------- MODULE CommandsProofs ----------------------------
(***************************************************************************)
(* Proofs about Commands: for any number of threads, callers, texts, rows, *)
(* servers and samples.                                                    *)
(***************************************************************************)
EXTENDS Commands, SecurityContextsProofs, FiniteSetTheorems, SequenceTheorems, TLAPS

(***************************************************************************)
(* A skill that is run.                                                    *)
(***************************************************************************)

\* Past the front, what needs an approval has one of the store; what reaches a
\* runtime is a skill nobody trusts, with a grant and the policy's runtime; and
\* what has run passed that runtime's own checks.
SkillInv ==
  /\ skill \in Skill!Contract
  /\ run # None =>
       /\ skill.needs /\ run.pc \in {"routed", "permitted", "checked", "custom", "builtin"} =>
            run.grant = "store"
       /\ run.pc \in {"checked", "custom"} =>
            /\ ~skill.trusted
            /\ run.grant # "none" \/ run.admin
            /\ run.runtime = Skill!Runtime(skill)
       /\ run.pc = "custom" =>
            /\ run.runtime \in {"subprocess", "isolated"}
            /\ skill.access = {}

\* Whatever the metadata of a skill says, its contract is one.
LEMMA SkillInferred ==
  ASSUME NEW meta \in Skill!Written \cup Skill!Builtins
  PROVE  Skill!Inferred(meta) \in Skill!Contract
<1>1. /\ meta.builtin \in BOOLEAN /\ meta.access \in SUBSET Skill!Accesses
      /\ meta.code \in {"plain", "blocked", "empty"}
      /\ meta.level \in Skill!Levels \cup {"unknown", None}
      /\ meta.tier \in {"auto", "inprocess", "builtin", "subprocess", "isolated", "docker", None}
      /\ meta.needs \in BOOLEAN \cup {None}
  BY DEF Skill!Written, Skill!Builtins, Skill!Levels, Skill!Accesses
<1>2. Skill!Level(meta) \in Skill!Levels
  BY <1>1 DEF Skill!Level, Skill!Levels
<1>3. Skill!Tier(meta) \in Skill!Tiers
  BY <1>1, <1>2 DEF Skill!Tier, Skill!Tiers, Skill!DefaultTier
<1>4. Skill!Needs(meta) \in BOOLEAN
  BY <1>1 DEF Skill!Needs
<1> QED
  BY <1>1, <1>2, <1>3, <1>4 DEF Skill!Inferred, Skill!Contract

LEMMA SkillStart == CommandsInit => SkillInv
<1> SUFFICES ASSUME CommandsInit
             PROVE  SkillInv
  OBVIOUS
<1>1. run = None /\ \E meta \in Skill!Written \cup Skill!Builtins : skill = Skill!Inferred(meta)
  <2>1. CASE part = "skill"
    BY <2>1 DEF CommandsInit, Skill!Init
  <2>2. CASE part # "skill"
    <3>1. [builtin |-> TRUE, level |-> "BEGINNER", tier |-> "inprocess", access |-> {},
           needs |-> None, code |-> "empty"] \in Skill!Builtins
      BY DEF Skill!Builtins
    <3>2. (CHOOSE meta \in Skill!Builtins : TRUE) \in Skill!Builtins
      BY <3>1
    <3> QED
      BY <2>2, <3>2 DEF CommandsInit, StillSkill
  <2> QED
    BY <2>1, <2>2
<1> QED
  BY <1>1, SkillInferred DEF SkillInv

LEMMA SkillKept ==
  ASSUME SkillInv, [Skill!Next]_skillVars
  PROVE  SkillInv'
<1>1. CASE Skill!Ask
  BY <1>1 DEF Skill!Ask, SkillInv
<1>2. CASE Skill!Front
  BY <1>2 DEF Skill!Front, Skill!Step, SkillInv
<1>3. CASE Skill!Route
  BY <1>3 DEF Skill!Route, Skill!Step, SkillInv
<1>4. CASE Skill!ExecuteBuiltin
  BY <1>4 DEF Skill!ExecuteBuiltin, Skill!Step, SkillInv
<1>5. CASE Skill!ExecuteCustom
  BY <1>5 DEF Skill!ExecuteCustom, Skill!Permits, SkillInv
<1>6. CASE Skill!Execute
  BY <1>6 DEF Skill!Execute, Skill!Step, Skill!Valid, SkillInv
<1>7. CASE Skill!End
  BY <1>7 DEF Skill!End, SkillInv
<1>8. CASE Skill!Flip
  BY <1>8 DEF Skill!Flip, SkillInv
<1>9. CASE UNCHANGED skillVars
  BY <1>9 DEF skillVars, SkillInv
<1> QED
  BY <1>1, <1>2, <1>3, <1>4, <1>5, <1>6, <1>7, <1>8, <1>9 DEF Skill!Next

\* A step of the composition is one of a part, or leaves it as it is.
LEMMA PartSteps ==
  ASSUME [CommandsNext]_commandsVars
  PROVE  /\ [Answers!Next]_answerVars /\ [Skill!Next]_skillVars /\ [Hybrid!Next]_hybridVars
         /\ [Mcp!Next]_mcpVars /\ [Monitor!Next]_monitorVars /\ [Cron!Next]_cronVars
<1>1. CASE CommandsNext
  BY <1>1 DEF CommandsNext, Rest
<1>2. CASE UNCHANGED commandsVars
  BY <1>2 DEF commandsVars
<1> QED
  BY <1>1, <1>2

LEMMA SkillAlways == CommandsSpec => []SkillInv
<1>1. SkillInv /\ [CommandsNext]_commandsVars => SkillInv'
  BY PartSteps, SkillKept
<1> QED
  BY <1>1, SkillStart, PTL DEF CommandsSpec

\* However its metadata is written, whoever asks and whenever docker goes, code
\* of a custom skill runs outside the process, without network and files, and
\* isolated unless its author chose otherwise (resolve_runtime_policy,
\* IsolatedRuntime.execute).
THEOREM SkillsContained == CommandsSpec => []Contained
<1>1. ASSUME SkillInv
      PROVE  Contained
  <2> SUFFICES ASSUME run # None, run.pc = "custom"
               PROVE  /\ run.runtime # "inprocess"
                      /\ skill.access = {}
                      /\ skill.level = "ADVANCED" /\ skill.tier \in {"auto", "inprocess"} =>
                           run.runtime = "isolated"
                      /\ run.grant # "none" \/ run.admin
    BY DEF Contained, Skill!Contained
  <2>1. /\ run.runtime \in {"subprocess", "isolated"} /\ skill.access = {}
        /\ ~skill.trusted /\ run.runtime = Skill!Runtime(skill)
        /\ run.grant # "none" \/ run.admin
    BY <1>1 DEF SkillInv
  <2>2. skill.level = "ADVANCED" /\ skill.tier \in {"auto", "inprocess"} =>
          Skill!Runtime(skill) = "isolated"
    BY <2>1 DEF Skill!Runtime
  <2> QED
    BY <2>1, <2>2
<1> QED
  BY <1>1, SkillAlways, PTL

\* No skill whose contract needs an approval is run without one of the store
\* (CommandExecutionService.require_final_authorization).
THEOREM ApprovalsOfStore == CommandsSpec => []ApprovalOfStore
<1>1. SkillInv => ApprovalOfStore
  BY DEF SkillInv, ApprovalOfStore, Skill!ApprovalOfStore
<1> QED
  BY <1>1, SkillAlways, PTL

(***************************************************************************)
(* The hybrid memory.                                                      *)
(***************************************************************************)

\* A thread keeps what it read of the memories, and found some of the candidates.
HybridInv ==
  \A t \in Threads :
    /\ recall[t].pc = "search" => recall[t].sem \in Hybrid!Table
    /\ recall[t].pc = "found" =>
         /\ recall[t].sem \in Hybrid!Table /\ recall[t].epi \in Hybrid!Table
         /\ recall[t].hits \in Hybrid!Fused(Hybrid!Candidates(recall[t].sem, recall[t].epi))

HybridTyped ==
  /\ semantic \in Hybrid!Table /\ episodes \in Hybrid!Table
  /\ ids \in [{"memories", "episodes"} -> 1 .. Rows + 1]
  /\ DOMAIN recall = Threads /\ recall = [t \in Threads |-> recall[t]]

\* What is read of a table is one.
LEMMA FetchedTable ==
  ASSUME NEW table \in Hybrid!Table, NEW read \in Hybrid!Fetched(table)
  PROVE  read \in Hybrid!Table
<1>1. PICK some \in SUBSET Hybrid!Hits(table) :
        read = [id \in Hybrid!Ids |-> IF id \in some THEN table[id] ELSE None]
  BY DEF Hybrid!Fetched
<1>2. \A id \in Hybrid!Ids : table[id] \in Texts \cup {None}
  BY DEF Hybrid!Table
<1> QED
  BY <1>1, <1>2 DEF Hybrid!Table

LEMMA HybridStart == Hybrid!Init => HybridInv /\ HybridTyped
<1> SUFFICES ASSUME Hybrid!Init
             PROVE  HybridInv /\ HybridTyped
  OBVIOUS
<1>1. /\ semantic = Hybrid!Empty /\ episodes = Hybrid!Empty
      /\ ids = [table \in {"memories", "episodes"} |-> 1]
      /\ recall = [t \in Threads |-> Hybrid!Idle]
  BY DEF Hybrid!Init
<1>2. Hybrid!Empty \in Hybrid!Table /\ 1 \in 1 .. Rows + 1
  BY MemoryAssumption DEF Hybrid!Empty, Hybrid!Table
<1> QED
  BY <1>1, <1>2 DEF HybridInv, HybridTyped, Hybrid!Idle

\* A thread goes on with its search, the others are where they were.
LEMMA RecallMoved ==
  ASSUME HybridInv, HybridTyped, NEW t \in Threads, NEW o, recall' = [recall EXCEPT ![t] = o],
         o.pc = "search" => o.sem \in Hybrid!Table,
         o.pc = "found" => /\ o.sem \in Hybrid!Table /\ o.epi \in Hybrid!Table
                           /\ o.hits \in Hybrid!Fused(Hybrid!Candidates(o.sem, o.epi))
  PROVE  /\ HybridInv'
         /\ DOMAIN recall' = Threads /\ recall' = [u \in Threads |-> recall'[u]]
BY DEF HybridInv, HybridTyped

\* The tables change, and no thread goes on.
LEMMA TablesChanged ==
  ASSUME HybridInv, HybridTyped, NEW t \in Threads,
         \/ \E text \in Texts : Hybrid!Store(t, text) \/ Hybrid!RecordEpisode(t, text)
         \/ \E id \in Hybrid!Ids, text \in Texts : Hybrid!Update(t, id, text)
         \/ \E id \in Hybrid!Ids : Hybrid!Delete(t, id)
  PROVE  HybridInv' /\ HybridTyped'
<1>1. UNCHANGED recall
  BY DEF Hybrid!Store, Hybrid!RecordEpisode, Hybrid!Update, Hybrid!Delete
<1>2. HybridInv'
  BY <1>1 DEF HybridInv
<1>3. ASSUME NEW table \in Hybrid!Table, NEW id, NEW text \in Texts \cup {None}
      PROVE  [table EXCEPT ![id] = text] \in Hybrid!Table
  BY <1>3 DEF Hybrid!Table
<1>4. ASSUME NEW name \in {"memories", "episodes"}, ids[name] <= Rows
      PROVE  [ids EXCEPT ![name] = @ + 1] \in [{"memories", "episodes"} -> 1 .. Rows + 1]
  <2>1. ids[name] \in 1 .. Rows + 1
    BY DEF HybridTyped
  <2>2. ids[name] + 1 \in 1 .. Rows + 1
    BY <1>4, <2>1, MemoryAssumption
  <2> QED
    BY <2>2 DEF HybridTyped
<1>5. ASSUME NEW text \in Texts, Hybrid!Store(t, text)
      PROVE  HybridTyped'
  BY <1>1, <1>3, <1>4, <1>5 DEF Hybrid!Store, HybridTyped
<1>6. ASSUME NEW text \in Texts, Hybrid!RecordEpisode(t, text)
      PROVE  HybridTyped'
  BY <1>1, <1>3, <1>4, <1>6 DEF Hybrid!RecordEpisode, HybridTyped
<1>7. ASSUME NEW id \in Hybrid!Ids, NEW text \in Texts, Hybrid!Update(t, id, text)
      PROVE  HybridTyped'
  BY <1>1, <1>3, <1>7 DEF Hybrid!Update, HybridTyped
<1>8. ASSUME NEW id \in Hybrid!Ids, Hybrid!Delete(t, id)
      PROVE  HybridTyped'
  BY <1>1, <1>3, <1>8 DEF Hybrid!Delete, HybridTyped
<1> QED
  BY <1>2, <1>5, <1>6, <1>7, <1>8

LEMMA HybridKept ==
  ASSUME HybridInv, HybridTyped, [Hybrid!Next]_hybridVars
  PROVE  HybridInv' /\ HybridTyped'
<1>1. Hybrid!Empty \in Hybrid!Table
  BY DEF Hybrid!Empty, Hybrid!Table
<1>2. ASSUME NEW t \in Threads, Hybrid!Clear(t)
      PROVE  HybridInv' /\ HybridTyped'
  BY <1>1, <1>2, RecallMoved DEF Hybrid!Clear, HybridTyped
<1>3. ASSUME NEW t \in Threads, Hybrid!ClearEpisodes(t)
      PROVE  HybridInv' /\ HybridTyped'
  BY <1>1, <1>3, RecallMoved DEF Hybrid!ClearEpisodes, Hybrid!Idle, HybridTyped
<1>4. ASSUME NEW t \in Threads, Hybrid!Search(t)
      PROVE  HybridInv' /\ HybridTyped'
  <2>1. PICK read \in Hybrid!Fetched(semantic) :
          recall' = [recall EXCEPT ![t] = [pc |-> "search", sem |-> read]]
    BY <1>4 DEF Hybrid!Search
  <2>2. read \in Hybrid!Table
    BY FetchedTable DEF HybridTyped
  <2> QED
    BY <1>4, <2>1, <2>2, RecallMoved DEF Hybrid!Search, HybridTyped
<1>5. ASSUME NEW t \in Threads, Hybrid!Fuse(t)
      PROVE  HybridInv' /\ HybridTyped'
  <2>1. PICK epi \in Hybrid!Fetched(episodes) :
          \E hits \in Hybrid!Fused(Hybrid!Candidates(recall[t].sem, epi)) :
            recall' = [recall EXCEPT ![t] =
              [pc |-> "found", sem |-> recall[t].sem, epi |-> epi, hits |-> hits]]
    BY <1>5 DEF Hybrid!Fuse
  <2>2. epi \in Hybrid!Table /\ recall[t].sem \in Hybrid!Table
    BY <1>5, FetchedTable DEF HybridTyped, HybridInv, Hybrid!Fuse
  <2> QED
    BY <1>5, <2>1, <2>2, RecallMoved DEF Hybrid!Fuse, HybridTyped
<1>6. ASSUME NEW t \in Threads, Hybrid!Answer(t)
      PROVE  HybridInv' /\ HybridTyped'
  BY <1>6, RecallMoved DEF Hybrid!Answer, Hybrid!Idle, HybridTyped
<1>7. CASE UNCHANGED hybridVars
  BY <1>7 DEF hybridVars, HybridInv, HybridTyped
<1> QED
  BY <1>2, <1>3, <1>4, <1>5, <1>6, <1>7, TablesChanged DEF Hybrid!Next

\* What the fused hits of two tables lack.
LEMMA FusedLacks ==
  ASSUME NEW sem \in Hybrid!Table, NEW epi \in Hybrid!Table, NEW text \in Texts,
         NEW hits \in Hybrid!Fused(Hybrid!Candidates(sem, epi)),
         Hybrid!Cardinality(hits) # Limit, \A h \in hits : h.text # text
  PROVE  Hybrid!Texted(sem, text) = {} /\ Hybrid!Texted(epi, text) \subseteq Hybrid!Hits(sem)
<1> DEFINE candidates == Hybrid!Candidates(sem, epi)
<1>1. {h.text : h \in hits} = {c.text : c \in candidates}
  BY DEF Hybrid!Fused
<1>2. \A c \in candidates : c.text # text
  BY <1>1
<1>3. text # None
  BY TextAssumption
<1>4. ASSUME NEW id \in Hybrid!Texted(sem, text)
      PROVE  FALSE
  <2> DEFINE c == [id |-> id, text |-> sem[id],
                   source |-> IF id \in Hybrid!Hits(epi) THEN "both" ELSE "semantic"]
  <2>1. sem[id] = text /\ id \in Hybrid!Hits(sem)
    BY <1>3, <1>4 DEF Hybrid!Texted, Hybrid!Hits
  <2>2. c \in candidates
    BY <2>1 DEF Hybrid!Candidates
  <2> QED
    BY <1>2, <2>1, <2>2
<1>5. ASSUME NEW id \in Hybrid!Texted(epi, text), id \notin Hybrid!Hits(sem)
      PROVE  FALSE
  <2> DEFINE c == [id |-> id, text |-> epi[id], source |-> "episodic"]
  <2>1. epi[id] = text /\ id \in Hybrid!Hits(epi)
    BY <1>3, <1>5 DEF Hybrid!Texted, Hybrid!Hits
  <2>2. c \in candidates
    BY <1>5, <2>1 DEF Hybrid!Candidates
  <2> QED
    BY <1>2, <2>1, <2>2
<1> QED
  BY <1>4, <1>5

\* A hybrid search names no text twice, and what it found and does not name is an
\* episode with the id of a memory, if the answer is not full, whatever the two
\* stores hold and whoever changes them meanwhile (hybrid_search).
THEOREM SearchLacksTwins == CommandsSpec => []MissingIsHidden
<1>1. CommandsInit => HybridInv /\ HybridTyped
  BY HybridStart DEF CommandsInit
<1>2. HybridInv /\ HybridTyped /\ [CommandsNext]_commandsVars => HybridInv' /\ HybridTyped'
  BY PartSteps, HybridKept
<1>3. HybridInv => MissingIsHidden
  <2> SUFFICES ASSUME HybridInv, NEW t \in Threads, recall[t].pc = "found"
               PROVE  /\ \A h, k \in recall[t].hits : h.text = k.text => h = k
                      /\ \A text \in Texts :
                           \/ Hybrid!Texted(recall[t].sem, text)
                                \cup Hybrid!Texted(recall[t].epi, text) = {}
                           \/ \E h \in recall[t].hits : h.text = text
                           \/ Hybrid!Cardinality(recall[t].hits) = Limit
                           \/ /\ Hybrid!Texted(recall[t].sem, text) = {}
                              /\ Hybrid!Texted(recall[t].epi, text) \subseteq
                                   Hybrid!Hits(recall[t].sem)
    BY DEF MissingIsHidden, Hybrid!MissingIsHidden
  <2>1. /\ recall[t].sem \in Hybrid!Table /\ recall[t].epi \in Hybrid!Table
        /\ recall[t].hits \in Hybrid!Fused(Hybrid!Candidates(recall[t].sem, recall[t].epi))
    BY DEF HybridInv
  <2>2. \A h, k \in recall[t].hits : h.text = k.text => h = k
    BY <2>1 DEF Hybrid!Fused
  <2> QED
    BY <2>1, <2>2, FusedLacks
<1> QED
  BY <1>1, <1>2, <1>3, PTL DEF CommandsSpec

(***************************************************************************)
(* The MCP servers.                                                        *)
(***************************************************************************)

\* What a server over HTTP stored has its scope, and ids are not used again.
KeptInv ==
  /\ last \in Nat /\ DOMAIN kept = Mcp!Ids
  /\ \A i \in Mcp!Ids : kept[i] # None =>
       /\ i < last /\ kept[i].by \in Servers
       /\ kept[i].by \in Mcp!Remote => kept[i].scope = ServerScope[kept[i].by]

\* What a server over HTTP shows was of its scope, and is or is gone.
ShownInv ==
  /\ DOMAIN call = Servers
  /\ \A s \in Mcp!Remote : call[s].pc = "shown" =>
       /\ call[s].owners \subseteq {ServerScope[s]}
       /\ call[s].rows \subseteq Mcp!Ids
       /\ \A i \in call[s].rows : i < last /\ (kept[i] # None => kept[i].scope = ServerScope[s])

McpInv == KeptInv /\ ShownInv

LEMMA McpStart == Mcp!Init => McpInv
BY DEF Mcp!Init, McpInv, KeptInv, ShownInv, Mcp!Idle, Mcp!Remote

\* A row is stored: none that was shown is it.
LEMMA RowInserted ==
  ASSUME McpInv, NEW row, Mcp!Inserted(row), row.by \in Servers,
         row.by \in Mcp!Remote => row.scope = ServerScope[row.by],
         UNCHANGED call
  PROVE  McpInv'
<1>1. /\ last <= Rows /\ last \in Nat /\ kept' = [kept EXCEPT ![last] = row] /\ last' = last + 1
  BY DEF Mcp!Inserted, McpInv, KeptInv
<1>2. KeptInv'
  <2>1. last' \in Nat /\ DOMAIN kept' = Mcp!Ids
    BY <1>1 DEF McpInv, KeptInv
  <2>2. ASSUME NEW i \in Mcp!Ids, kept'[i] # None
        PROVE  /\ i < last' /\ kept'[i].by \in Servers
               /\ kept'[i].by \in Mcp!Remote => kept'[i].scope = ServerScope[kept'[i].by]
    <3>1. CASE i = last
      BY <1>1, <3>1 DEF McpInv, KeptInv, Mcp!Ids
    <3>2. CASE i # last
      <4>1. kept'[i] = kept[i] /\ i \in Nat
        BY <1>1, <3>2 DEF McpInv, KeptInv, Mcp!Ids
      <4> QED
        BY <1>1, <2>2, <4>1 DEF McpInv, KeptInv
    <3> QED
      BY <3>1, <3>2
  <2> QED
    BY <2>1, <2>2 DEF KeptInv
<1>3. ShownInv'
  <2>1. \A i \in Mcp!Ids : i \in Nat /\ (i < last => i < last' /\ kept'[i] = kept[i])
    BY <1>1 DEF McpInv, KeptInv, Mcp!Ids
  <2> QED
    BY <2>1 DEF McpInv, ShownInv
<1> QED
  BY <1>2, <1>3 DEF McpInv

\* A server goes on: what it shows is of its scope.
LEMMA CallMoved ==
  ASSUME McpInv, UNCHANGED <<kept, last>>, NEW s \in Servers, NEW c, call' = [call EXCEPT ![s] = c],
         s \in Mcp!Remote /\ c.pc = "shown" =>
           /\ c.owners \subseteq {ServerScope[s]}
           /\ \A i \in c.rows : i \in Mcp!Ids /\ kept[i] # None /\ kept[i].scope = ServerScope[s]
  PROVE  McpInv'
<1>1. KeptInv'
  BY DEF McpInv, KeptInv
<1>2. DOMAIN call' = Servers
  BY DEF McpInv, ShownInv
<1>3. ASSUME NEW u \in Mcp!Remote, call'[u].pc = "shown"
      PROVE  /\ call'[u].owners \subseteq {ServerScope[u]}
             /\ call'[u].rows \subseteq Mcp!Ids
             /\ \A i \in call'[u].rows :
                  i < last /\ (kept[i] # None => kept[i].scope = ServerScope[u])
  <2>1. CASE u = s
    BY <1>3, <2>1 DEF McpInv, KeptInv, ShownInv, Mcp!Remote
  <2>2. CASE u # s
    BY <1>3, <2>2 DEF McpInv, ShownInv
  <2> QED
    BY <2>1, <2>2
<1> QED
  BY <1>1, <1>2, <1>3 DEF McpInv, ShownInv

LEMMA McpKept ==
  ASSUME McpInv, [Mcp!Next]_mcpVars
  PROVE  McpInv'
<1>1. ASSUME NEW s \in Servers, NEW scope \in Mcp!Scopes \cup {None}, Mcp!MemoryStore(s, scope)
      PROVE  McpInv'
  BY <1>1, RowInserted DEF Mcp!MemoryStore, Mcp!Tagged
<1>2. ASSUME NEW s \in Servers, Mcp!MemoryRead(s)
      PROVE  McpInv'
  BY <1>2, CallMoved DEF Mcp!MemoryRead, Mcp!InScope, Mcp!Shown
<1>3. ASSUME NEW s \in Servers, Mcp!MemoryDelete(s)
      PROVE  McpInv'
  BY <1>3, CallMoved DEF Mcp!MemoryDelete
<1>4. ASSUME NEW s \in Servers, NEW id \in Mcp!Ids, Mcp!DeleteOne(s, id)
      PROVE  McpInv'
  <2> DEFINE c == IF call[s].ids = {id} THEN Mcp!Idle
                  ELSE [call[s] EXCEPT !.ids = call[s].ids \ {id}]
  <2>1. /\ kept' = [kept EXCEPT ![id] = None] /\ UNCHANGED last
        /\ call' = [call EXCEPT ![s] = c] /\ call[s].pc = "delete"
    BY <1>4 DEF Mcp!DeleteOne
  <2>2. c.pc # "shown"
    <3>1. Mcp!Idle.pc # "shown" /\ \A d : [call[s] EXCEPT !.ids = d].pc = call[s].pc
      BY DEF Mcp!Idle
    <3> QED
      BY <2>1, <3>1
  <2> HIDE DEF c
  <2>3. KeptInv'
    BY <2>1 DEF McpInv, KeptInv
  <2>4. \A i \in Mcp!Ids : kept'[i] # None => kept'[i] = kept[i]
    BY <2>1 DEF McpInv, KeptInv
  <2> QED
    BY <2>1, <2>2, <2>3, <2>4 DEF McpInv, ShownInv
<1>5. ASSUME NEW s \in Servers, Mcp!Execute(s)
      PROVE  McpInv'
  <2>1. UNCHANGED call
    BY <1>5 DEF Mcp!Execute
  <2>2. CASE UNCHANGED <<kept, last>>
    BY <2>1, <2>2 DEF McpInv, KeptInv, ShownInv
  <2>3. CASE s \in Mcp!Local /\ Mcp!Inserted([scope |-> None, by |-> s])
    BY <2>1, <2>3, RowInserted DEF Mcp!Local
  <2> QED
    BY <1>5, <2>2, <2>3 DEF Mcp!Execute
<1>6. ASSUME NEW s \in Servers, Mcp!Status(s) \/ Mcp!ScheduleAdd(s)
      PROVE  McpInv'
  BY <1>6 DEF Mcp!Status, Mcp!ScheduleAdd, McpInv, KeptInv, ShownInv
<1>7. ASSUME NEW s \in Servers, Mcp!History(s)
      PROVE  McpInv'
  BY <1>7, CallMoved DEF Mcp!History, Mcp!Shown, Mcp!Recorded
<1>8. ASSUME NEW s \in Servers, Mcp!Respond(s)
      PROVE  McpInv'
  BY <1>8, CallMoved DEF Mcp!Respond, Mcp!Idle
<1>9. CASE UNCHANGED mcpVars
  BY <1>9 DEF mcpVars, McpInv, KeptInv, ShownInv
<1> QED
  BY <1>1, <1>2, <1>3, <1>4, <1>5, <1>6, <1>7, <1>8, <1>9 DEF Mcp!Next

\* A server over HTTP shows what one of its own principal and tenant stored, or
\* the local user, whatever scope callers put in their metadata, and its own
\* history (_handle_tool_impl).
THEOREM ServersShowTheirOwn == CommandsSpec => []ShownInScope
<1>1. CommandsInit => McpInv
  BY McpStart DEF CommandsInit
<1>2. McpInv /\ [CommandsNext]_commandsVars => McpInv'
  BY PartSteps, McpKept
<1>3. McpInv => ShownInScope
  <2> SUFFICES ASSUME McpInv, NEW s \in Mcp!Remote, call[s].pc = "shown"
               PROVE  /\ call[s].owners \subseteq {ServerScope[s]}
                      /\ \A i \in call[s].rows : kept[i] # None =>
                           \/ kept[i].by \in Mcp!Local
                           \/ ServerScope[kept[i].by] = ServerScope[s]
    BY DEF ShownInScope, Mcp!ShownInScope
  <2> QED
    BY DEF McpInv, KeptInv, ShownInv, Mcp!Local
<1> QED
  BY <1>1, <1>2, <1>3, PTL DEF CommandsSpec

(***************************************************************************)
(* The cache and the memory.                                               *)
(***************************************************************************)

\* For whom and for which command a request or an entry is.
Key(e) == <<e.scope, e.verb, e.text>>

\* Entries of different keys, each with an answer to its own.
Keyed(s) ==
  /\ s \in Seq(Answers!Entry)
  /\ \A i, j \in 1 .. Len(s) : i # j => Key(s[i]) # Key(s[j])
  /\ \A i \in 1 .. Len(s) :
       s[i].answer = [scope |-> s[i].scope, verb |-> s[i].verb, text |-> s[i].text]

\* All of s is in l.
HeldBy(s, l) == \A i \in 1 .. Len(s) : \E j \in 1 .. Len(l) : s[i] = l[j]

\* An entry is taken out.
LEMMA KeyedRemove ==
  ASSUME NEW s, Keyed(s), NEW k \in 1 .. Len(s)
  PROVE  LET r == Answers!RemoveAt(s, k) IN
         /\ Keyed(r) /\ Len(r) = Len(s) - 1
         /\ \A i \in 1 .. Len(r) : Key(r[i]) # Key(s[k])
         /\ HeldBy(r, s)
<1> DEFINE r == Answers!RemoveAt(s, k)
           a == SubSeq(s, 1, k - 1)
           b == SubSeq(s, k + 1, Len(s))
           was(i) == IF i < k THEN i ELSE i + 1
<1>1. s \in Seq(Answers!Entry) /\ Len(s) \in Nat /\ k \in Nat /\ 1 <= k /\ k <= Len(s)
  BY DEF Keyed
<1>2. /\ a \in Seq(Answers!Entry) /\ Len(a) = k - 1
      /\ \A i \in 1 .. k - 1 : a[i] = s[i]
  BY <1>1, SubSeqProperties
<1>3. /\ b \in Seq(Answers!Entry) /\ Len(b) = Len(s) - k
      /\ \A i \in 1 .. Len(s) - k : b[i] = s[k + i]
  <2>1. \A i \in (k + 1) .. Len(s) : i \in 1 .. Len(s)
    BY <1>1
  <2>2. /\ b \in Seq(Answers!Entry)
        /\ Len(b) = IF k + 1 <= Len(s) THEN Len(s) - (k + 1) + 1 ELSE 0
        /\ \A i \in 1 .. Len(b) : b[i] = s[(k + 1) + i - 1]
    BY <1>1, <2>1, SubSeqProperties
  <2>3. Len(b) = Len(s) - k
    BY <1>1, <2>2
  <2>4. \A i \in 1 .. Len(s) - k : (k + 1) + i - 1 = k + i
    BY <1>1
  <2> QED
    BY <2>2, <2>3, <2>4
<1>4. r = a \o b
  BY DEF Answers!RemoveAt
<1> HIDE DEF a, b, r
<1>5. /\ r \in Seq(Answers!Entry) /\ Len(r) = Len(s) - 1
      /\ \A i \in 1 .. Len(r) : r[i] = IF i <= k - 1 THEN a[i] ELSE b[i - (k - 1)]
  <2>1. /\ r \in Seq(Answers!Entry) /\ Len(r) = Len(a) + Len(b)
        /\ \A i \in 1 .. Len(a) + Len(b) : r[i] = IF i <= Len(a) THEN a[i] ELSE b[i - Len(a)]
    BY <1>2, <1>3, <1>4, ConcatProperties
  <2>2. Len(a) = k - 1 /\ Len(b) = Len(s) - k
    BY <1>2, <1>3
  <2>3. Len(a) + Len(b) = Len(s) - 1
    BY <1>1, <2>2
  <2> QED
    BY <2>1, <2>2, <2>3
<1>6. \A i \in 1 .. Len(r) : was(i) \in 1 .. Len(s) /\ was(i) # k /\ r[i] = s[was(i)]
  <2> SUFFICES ASSUME NEW i \in 1 .. Len(r)
               PROVE  was(i) \in 1 .. Len(s) /\ was(i) # k /\ r[i] = s[was(i)]
    OBVIOUS
  <2>1. CASE i < k
    BY <1>1, <1>2, <1>5, <2>1
  <2>2. CASE ~(i < k)
    <3>1. i - (k - 1) \in 1 .. Len(s) - k /\ k + (i - (k - 1)) = i + 1 /\ i + 1 \in 1 .. Len(s)
          /\ i + 1 # k /\ ~(i <= k - 1)
      BY <1>1, <1>5, <2>2
    <3>2. r[i] = b[i - (k - 1)]
      BY <1>5, <3>1
    <3>3. b[i - (k - 1)] = s[i + 1]
      BY <1>3, <3>1
    <3> QED
      BY <2>2, <3>1, <3>2, <3>3
  <2> QED
    BY <2>1, <2>2
<1>7. \A i, j \in 1 .. Len(r) : i # j => was(i) # was(j)
  BY <1>1, <1>5
<1> HIDE DEF was
<1>8. Keyed(r)
  <2>1. ASSUME NEW i \in 1 .. Len(r), NEW j \in 1 .. Len(r), i # j
        PROVE  Key(r[i]) # Key(r[j])
    <3>1. was(i) \in 1 .. Len(s) /\ was(j) \in 1 .. Len(s) /\ was(i) # was(j)
      BY <1>6, <1>7, <2>1
    <3>2. r[i] = s[was(i)] /\ r[j] = s[was(j)]
      BY <1>6
    <3> QED
      BY <3>1, <3>2 DEF Keyed
  <2>2. ASSUME NEW i \in 1 .. Len(r)
        PROVE  r[i].answer = [scope |-> r[i].scope, verb |-> r[i].verb, text |-> r[i].text]
    <3>1. r[i] = s[was(i)] /\ was(i) \in 1 .. Len(s)
      BY <1>6
    <3> QED
      BY <3>1 DEF Keyed
  <2> QED
    BY <1>5, <2>1, <2>2 DEF Keyed
<1>9. \A i \in 1 .. Len(r) : Key(r[i]) # Key(s[k])
  BY <1>6 DEF Keyed
<1>10. HeldBy(r, s)
  BY <1>6 DEF HeldBy
<1> QED
  BY <1>5, <1>8, <1>9, <1>10 DEF r

\* The oldest entry is taken out.
LEMMA KeyedTail ==
  ASSUME NEW s, Keyed(s), Len(s) # 0
  PROVE  Keyed(Tail(s)) /\ Len(Tail(s)) = Len(s) - 1 /\ HeldBy(Tail(s), s)
<1>1. s \in Seq(Answers!Entry) /\ s # <<>> /\ Len(s) \in Nat
  BY DEF Keyed
<1>2. /\ Tail(s) \in Seq(Answers!Entry) /\ Len(Tail(s)) = Len(s) - 1
      /\ \A i \in 1 .. Len(Tail(s)) : Tail(s)[i] = s[i + 1] /\ i + 1 \in 1 .. Len(s)
  BY <1>1, HeadTailProperties
<1> QED
  BY <1>1, <1>2 DEF Keyed, HeldBy

\* An entry of another key is put at the end.
LEMMA KeyedAppend ==
  ASSUME NEW s, Keyed(s), NEW e \in Answers!Entry,
         e.answer = [scope |-> e.scope, verb |-> e.verb, text |-> e.text],
         \A i \in 1 .. Len(s) : Key(s[i]) # Key(e)
  PROVE  Keyed(Append(s, e)) /\ Len(Append(s, e)) = Len(s) + 1
<1>1. s \in Seq(Answers!Entry) /\ Len(s) \in Nat
  BY DEF Keyed
<1>2. /\ Append(s, e) \in Seq(Answers!Entry) /\ Len(Append(s, e)) = Len(s) + 1
      /\ \A i \in 1 .. Len(s) : Append(s, e)[i] = s[i]
      /\ Append(s, e)[Len(s) + 1] = e
  BY <1>1, AppendProperties
<1>3. \A i \in 1 .. Len(s) + 1 : i \in 1 .. Len(s) \/ i = Len(s) + 1
  BY <1>1
<1> DEFINE a == Append(s, e)
           n == Len(s) + 1
<1> HIDE DEF a, n
<1>4. \A i, j \in 1 .. Len(a) : i # j => Key(a[i]) # Key(a[j])
  BY <1>2, <1>3 DEF a, n, Keyed
<1>5. \A i \in 1 .. Len(a) :
        a[i].answer = [scope |-> a[i].scope, verb |-> a[i].verb, text |-> a[i].text]
  BY <1>2, <1>3 DEF a, n, Keyed
<1> QED
  BY <1>2, <1>4, <1>5 DEF a, Keyed

CacheInv == Keyed(cache) /\ Len(cache) <= Capacity

\* The cache without a key.
LEMMA KeyedWithout ==
  ASSUME CacheInv, NEW scope, NEW verb, NEW text
  PROVE  LET rest == Answers!Without(scope, verb, text) IN
         /\ Keyed(rest) /\ Len(rest) <= Len(cache) /\ HeldBy(rest, cache)
         /\ \A i \in 1 .. Len(rest) : Key(rest[i]) # <<scope, verb, text>>
         /\ Answers!Places(scope, verb, text) # {} =>
              LET i == Answers!Place(scope, verb, text) IN
              /\ i \in 1 .. Len(cache) /\ Len(rest) = Len(cache) - 1
              /\ Key(cache[i]) = <<scope, verb, text>>
<1> DEFINE rest == Answers!Without(scope, verb, text)
           places == Answers!Places(scope, verb, text)
           k == Answers!Place(scope, verb, text)
<1>1. Keyed(cache) /\ DOMAIN cache = 1 .. Len(cache) /\ Len(cache) \in Nat
  BY DEF CacheInv, Keyed
<1>2. \A i \in 1 .. Len(cache) : i \in places <=> Key(cache[i]) = <<scope, verb, text>>
  BY <1>1 DEF Answers!Places, Answers!Same, Key
<1>3. CASE places = {}
  <2>1. rest = cache
    BY <1>3 DEF Answers!Without
  <2> QED
    BY <1>1, <1>2, <1>3, <2>1 DEF HeldBy
<1>4. CASE places # {}
  <2>1. k \in places /\ k \in 1 .. Len(cache) /\ rest = Answers!RemoveAt(cache, k)
    BY <1>1, <1>4 DEF Answers!Without, Answers!Place, Answers!Places
  <2>2. Key(cache[k]) = <<scope, verb, text>>
    BY <1>2, <2>1
  <2> HIDE DEF k, places, rest
  <2>3. /\ Keyed(rest) /\ Len(rest) = Len(cache) - 1 /\ HeldBy(rest, cache)
        /\ \A i \in 1 .. Len(rest) : Key(rest[i]) # Key(cache[k])
    BY <1>1, <2>1, KeyedRemove
  <2> QED
    BY <1>1, <2>1, <2>2, <2>3 DEF k, places, rest
<1> QED
  BY <1>3, <1>4

\* What a thread is in the middle of: what it is about to answer is the answer to
\* its command, and what "remember" stored is there unless somebody deleted it.
Good(r) ==
  /\ r \in Answers!Request
  /\ r.pc \in {"handled", "answered"} =>
       r.answer = [scope |-> r.scope, verb |-> r.verb, text |-> r.text]
  /\ r.pc = "deleting" => r.verb \in {"forget", "delete"}
  /\ r.pc \in {"handled", "answered"} /\ r.verb = "remember" /\ ~r.disturbed =>
       Answers!Matches(r.text) # {}

\* No row is used twice.
RowsInv ==
  /\ memories \in [Answers!Ids -> Texts \cup {None}]
  /\ next \in 1 .. Rows + 1
  /\ \A i \in Answers!Ids : i >= next => memories[i] = None

AnswersInv ==
  /\ CacheInv /\ RowsInv /\ now \in 0 .. Horizon
  /\ DOMAIN request = Threads /\ request = [t \in Threads |-> request[t]]
  /\ \A t \in Threads : Good(request[t])

LEMMA AnswersStart == Answers!Init => AnswersInv
<1> SUFFICES ASSUME Answers!Init
             PROVE  AnswersInv
  OBVIOUS
<1>1. CacheInv
  <2>1. cache = <<>> /\ Len(cache) = 0 /\ cache \in Seq(Answers!Entry)
    BY DEF Answers!Init
  <2> QED
    BY <2>1, CacheAssumption DEF CacheInv, Keyed
<1>2. RowsInv
  BY MemoryAssumption DEF Answers!Init, RowsInv
<1>3. Good(Answers!Idle)
  BY DEF Good, Answers!Request, Answers!Idle
<1> QED
  BY <1>1, <1>2, <1>3, MemoryAssumption DEF Answers!Init, AnswersInv

\* A command in the middle of something.
LEMMA Fields ==
  ASSUME NEW r \in Answers!Request, r # Answers!Idle
  PROVE  /\ r.scope \in Callers /\ r.verb \in Verbs /\ r.text \in Texts
         /\ r.hits \in SUBSET Answers!Ids /\ r.answer \in Answers!Answer \cup {None}
         /\ r.disturbed \in BOOLEAN
         /\ r.pc \in {"asked", "missed", "deleting", "handled", "answered"}
         /\ r = [pc |-> r.pc, scope |-> r.scope, verb |-> r.verb, text |-> r.text,
                 hits |-> r.hits, answer |-> r.answer, disturbed |-> r.disturbed]
BY DEF Answers!Request

\* One thread goes on while the memory is left alone.
LEMMA RequestMoved ==
  ASSUME AnswersInv, NEW t \in Threads, NEW r, Good(r), request' = [request EXCEPT ![t] = r],
         CacheInv', UNCHANGED <<memories, next, now>>
  PROVE  AnswersInv'
<1>1. \A u \in Threads : request'[u] = IF u = t THEN r ELSE request[u]
  BY DEF AnswersInv
<1>2. ASSUME NEW u \in Threads
      PROVE  Good(request[u])'
  <2>1. \A x : Answers!Matches(x)' = Answers!Matches(x)
    BY DEF Answers!Matches
  <2>2. Good(request'[u])
    BY <1>1 DEF AnswersInv
  <2> QED
    BY <2>1, <2>2 DEF Good
<1>3. RowsInv'
  BY DEF AnswersInv, RowsInv
<1>4. DOMAIN request' = Threads /\ request' = [u \in Threads |-> request'[u]]
  BY DEF AnswersInv
<1> QED
  BY <1>2, <1>3, <1>4 DEF AnswersInv

\* A command that is handled has its answer, and is good as far as it did not
\* store anything.
LEMMA HandledGood ==
  ASSUME NEW r, Good(r), r # Answers!Idle, r.verb # "remember" \/ Answers!Matches(r.text) # {}
  PROVE  Good(Answers!Handled(r))
<1> DEFINE answer == [scope |-> r.scope, verb |-> r.verb, text |-> r.text]
           h == [r EXCEPT !.pc = "handled", !.hits = {}, !.answer = answer]
<1>1. answer \in Answers!Answer
  BY Fields DEF Good, Answers!Answer
<1>2. /\ h \in Answers!Request
      /\ h.pc = "handled" /\ h.answer = answer /\ h.scope = r.scope /\ h.verb = r.verb /\ h.text = r.text
  <2> HIDE DEF answer
  <2> QED
    BY <1>1, Fields DEF Good, Answers!Request
<1>3. Good(h)
  <2> HIDE DEF h
  <2> QED
    BY <1>2 DEF Good
<1> QED
  BY <1>3 DEF Answers!Handled

\* Fields of a command that goes on, besides those it needs for its answer.
LEMMA GoodMoves ==
  ASSUME NEW r, Good(r), r # Answers!Idle
  PROVE  /\ r.pc = "asked" => Good([r EXCEPT !.pc = "missed"])
         /\ r.pc = "handled" => Good([r EXCEPT !.pc = "answered"])
         /\ \A hits \in SUBSET Answers!Ids :
              /\ r.verb \in {"forget", "delete"} => Good([r EXCEPT !.pc = "deleting", !.hits = hits])
              /\ r.pc = "deleting" => Good([r EXCEPT !.hits = hits])
         /\ r.verb # "remember" =>
              Good([r EXCEPT !.pc = "answered",
                             !.answer = [scope |-> r.scope, verb |-> r.verb, text |-> r.text]])
<1>1. /\ r \in Answers!Request
      /\ r.scope \in Callers /\ r.verb \in Verbs /\ r.text \in Texts
  BY Fields DEF Good
<1>2. r.pc = "asked" => Good([r EXCEPT !.pc = "missed"])
  <2> DEFINE x == [r EXCEPT !.pc = "missed"]
  <2>1. x \in Answers!Request /\ x.pc = "missed"
    BY Fields DEF Good, Answers!Request
  <2> HIDE DEF x
  <2>2. Good(x)
    BY <2>1 DEF Good
  <2> QED
    BY <2>2 DEF x
<1>3. r.pc = "handled" => Good([r EXCEPT !.pc = "answered"])
  <2> DEFINE x == [r EXCEPT !.pc = "answered"]
  <2>1. /\ x \in Answers!Request /\ x.pc = "answered" /\ x.answer = r.answer /\ x.verb = r.verb
        /\ x.scope = r.scope /\ x.text = r.text /\ x.disturbed = r.disturbed
    BY Fields DEF Good, Answers!Request
  <2> HIDE DEF x
  <2>2. r.pc = "handled" => Good(x)
    BY <2>1 DEF Good
  <2> QED
    BY <2>2 DEF x
<1>4. ASSUME NEW hits \in SUBSET Answers!Ids
      PROVE  /\ r.verb \in {"forget", "delete"} => Good([r EXCEPT !.pc = "deleting", !.hits = hits])
             /\ r.pc = "deleting" => Good([r EXCEPT !.hits = hits])
  <2> DEFINE x == [r EXCEPT !.pc = "deleting", !.hits = hits]
             y == [r EXCEPT !.hits = hits]
  <2>1. x \in Answers!Request /\ x.pc = "deleting" /\ x.verb = r.verb
    BY <1>4, Fields DEF Good, Answers!Request
  <2>2. y \in Answers!Request /\ y.pc = r.pc /\ y.verb = r.verb
    BY <1>4, Fields DEF Good, Answers!Request
  <2> HIDE DEF x, y
  <2>3. r.verb \in {"forget", "delete"} => Good(x)
    BY <2>1 DEF Good
  <2>4. r.pc = "deleting" => Good(y)
    BY <2>2 DEF Good
  <2> QED
    BY <2>3, <2>4 DEF x, y
<1>5. ASSUME r.verb # "remember"
      PROVE  Good([r EXCEPT !.pc = "answered",
                            !.answer = [scope |-> r.scope, verb |-> r.verb, text |-> r.text]])
  <2> DEFINE answer == [scope |-> r.scope, verb |-> r.verb, text |-> r.text]
             x == [r EXCEPT !.pc = "answered", !.answer = answer]
  <2>1. answer \in Answers!Answer
    BY <1>1 DEF Answers!Answer
  <2>2. /\ x \in Answers!Request /\ x.pc = "answered" /\ x.answer = answer /\ x.verb = r.verb
        /\ x.scope = r.scope /\ x.text = r.text
    <3> HIDE DEF answer
    <3> QED
      BY <2>1, Fields DEF Good, Answers!Request
  <2> HIDE DEF x
  <2>3. Good(x)
    BY <1>5, <2>2 DEF Good
  <2> QED
    BY <2>3 DEF x
<1> QED
  BY <1>2, <1>3, <1>4, <1>5

\* Commands are asked and answered without the memory.
LEMMA AnswersCache ==
  ASSUME AnswersInv, NEW t \in Threads,
         Answers!Ask(t) \/ Answers!Get(t) \/ Answers!Keep(t) \/ Answers!Done(t)
  PROVE  AnswersInv'
<1> DEFINE r == request[t]
           rest == Answers!Without(r.scope, r.verb, r.text)
           found == cache[Answers!Place(r.scope, r.verb, r.text)]
<1>1. Good(r) /\ CacheInv /\ now \in 0 .. Horizon
  BY DEF AnswersInv
<1>2. Good(Answers!Idle)
  BY DEF Good, Answers!Request, Answers!Idle
<1>3. UNCHANGED cache => CacheInv'
  BY <1>1 DEF CacheInv, Keyed
<1>4. ASSUME r # Answers!Idle
      PROVE  /\ Keyed(rest) /\ Len(rest) <= Len(cache) /\ HeldBy(rest, cache)
             /\ \A i \in 1 .. Len(rest) : Key(rest[i]) # Key(r)
             /\ Answers!Places(r.scope, r.verb, r.text) # {} =>
                  /\ found \in Answers!Entry /\ Len(rest) = Len(cache) - 1 /\ Key(found) = Key(r)
                  /\ found.answer = [scope |-> found.scope, verb |-> found.verb, text |-> found.text]
  <2> DEFINE k == Answers!Place(r.scope, r.verb, r.text)
  <2>1. /\ Keyed(rest) /\ Len(rest) <= Len(cache) /\ HeldBy(rest, cache)
        /\ \A i \in 1 .. Len(rest) : Key(rest[i]) # <<r.scope, r.verb, r.text>>
        /\ Answers!Places(r.scope, r.verb, r.text) # {} =>
             /\ k \in 1 .. Len(cache) /\ Len(rest) = Len(cache) - 1
             /\ Key(cache[k]) = <<r.scope, r.verb, r.text>>
    BY <1>1, KeyedWithout
  <2> HIDE DEF k
  <2>2. k \in 1 .. Len(cache) =>
          /\ cache[k] \in Answers!Entry
          /\ cache[k].answer = [scope |-> cache[k].scope, verb |-> cache[k].verb, text |-> cache[k].text]
    BY <1>1, ElementOfSeq DEF CacheInv, Keyed
  <2>3. Key(r) = <<r.scope, r.verb, r.text>>
    BY DEF Key
  <2> HIDE DEF rest, r
  <2> QED
    BY <2>1, <2>2, <2>3 DEF k
<1>5. CASE Answers!Ask(t)
  <2>1. PICK scope \in Callers, verb \in Verbs, text \in Texts :
          request' = [request EXCEPT ![t] =
            [pc |-> "asked", scope |-> scope, verb |-> verb, text |-> text, hits |-> {},
             answer |-> None, disturbed |-> FALSE]]
    BY <1>5 DEF Answers!Ask
  <2> DEFINE new == [pc |-> "asked", scope |-> scope, verb |-> verb, text |-> text, hits |-> {},
                     answer |-> None, disturbed |-> FALSE]
  <2>2. new \in Answers!Request /\ new.pc = "asked"
    BY DEF Answers!Request
  <2> HIDE DEF new
  <2>3. Good(new)
    BY <2>2 DEF Good
  <2>4. request' = [request EXCEPT ![t] = new] /\ UNCHANGED <<cache, memories, next, now>>
    BY <1>5, <2>1 DEF new, Answers!Ask
  <2> QED
    BY <1>3, <2>3, <2>4, RequestMoved
<1>6. CASE Answers!Get(t)
  <2>1. r.pc = "asked" /\ r # Answers!Idle /\ UNCHANGED <<memories, next, now>>
    BY <1>6 DEF Answers!Get, Answers!Idle
  <2> DEFINE miss == [r EXCEPT !.pc = "missed"]
             hit == [r EXCEPT !.pc = "answered", !.answer = found.answer]
  <2>2. Good(miss)
    BY <1>1, <2>1, GoodMoves
  <2>3. \/ request' = [request EXCEPT ![t] = miss] /\ UNCHANGED cache
        \/ request' = [request EXCEPT ![t] = miss] /\ cache' = rest
        \/ /\ Answers!Ttl(r.verb) # "bypass" /\ Answers!Places(r.scope, r.verb, r.text) # {}
           /\ request' = [request EXCEPT ![t] = hit] /\ cache' = Append(rest, found)
    BY <1>6 DEF Answers!Get, AnswersInv
  <2>4. Keyed(rest) /\ Len(rest) <= Capacity
    BY <1>1, <1>4, <2>1, CacheAssumption DEF CacheInv, Keyed
  <2>5. CASE request' = [request EXCEPT ![t] = miss] /\ UNCHANGED cache
    BY <1>3, <2>1, <2>2, <2>5, RequestMoved
  <2>6. CASE request' = [request EXCEPT ![t] = miss] /\ cache' = rest
    <3>1. CacheInv'
      BY <2>4, <2>6 DEF CacheInv, Keyed
    <3> QED
      BY <2>1, <2>2, <2>6, <3>1, RequestMoved
  <2>7. CASE /\ Answers!Ttl(r.verb) # "bypass" /\ Answers!Places(r.scope, r.verb, r.text) # {}
             /\ request' = [request EXCEPT ![t] = hit] /\ cache' = Append(rest, found)
    <3>1. r.verb # "remember"
      BY <2>7 DEF Answers!Ttl
    <3>2. /\ found \in Answers!Entry /\ Len(rest) = Len(cache) - 1 /\ Key(found) = Key(r)
          /\ found.answer = [scope |-> found.scope, verb |-> found.verb, text |-> found.text]
      BY <1>4, <2>1, <2>7
    <3>3. found.answer = [scope |-> r.scope, verb |-> r.verb, text |-> r.text]
      BY <3>2 DEF Key
    <3>4. Good(hit)
      BY <1>1, <2>1, <3>1, <3>3, GoodMoves
    <3>5. Keyed(Append(rest, found)) /\ Len(Append(rest, found)) = Len(cache)
      <4>1. \A i \in 1 .. Len(rest) : Key(rest[i]) # Key(found)
        BY <1>4, <2>1, <3>2
      <4>2. Len(cache) \in Nat
        BY <1>1 DEF CacheInv, Keyed
      <4> HIDE DEF rest, found, r
      <4> QED
        BY <2>4, <3>2, <4>1, <4>2, KeyedAppend
    <3>6. CacheInv'
      BY <1>1, <2>7, <3>5 DEF CacheInv, Keyed
    <3> HIDE DEF hit
    <3> QED
      BY <2>1, <2>7, <3>4, <3>6, RequestMoved
  <2> QED
    BY <2>3, <2>5, <2>6, <2>7
<1>7. CASE Answers!Keep(t)
  <2> DEFINE entry == [scope |-> r.scope, verb |-> r.verb, text |-> r.text,
                       answer |-> r.answer, at |-> now]
             most == IF Len(rest) = Capacity THEN Tail(rest) ELSE rest
             next1 == [r EXCEPT !.pc = "answered"]
  <2>1. /\ r.pc = "handled" /\ r # Answers!Idle /\ UNCHANGED <<memories, next, now>>
        /\ request' = [request EXCEPT ![t] = next1]
        /\ UNCHANGED cache \/ cache' = Append(most, entry)
    BY <1>7 DEF Answers!Keep, Answers!Idle, AnswersInv
  <2>2. Good(next1)
    BY <1>1, <2>1, GoodMoves
  <2>3. entry \in Answers!Entry /\ Key(entry) = Key(r)
        /\ entry.answer = [scope |-> entry.scope, verb |-> entry.verb, text |-> entry.text]
    <3>1. /\ r.scope \in Callers /\ r.verb \in Verbs /\ r.text \in Texts
          /\ r.answer = [scope |-> r.scope, verb |-> r.verb, text |-> r.text]
      BY <1>1, <2>1, Fields DEF Good
    <3>2. r.answer \in Answers!Answer
      BY <3>1 DEF Answers!Answer
    <3> QED
      BY <1>1, <3>1, <3>2 DEF Answers!Entry, Key
  <2>4. /\ Keyed(most) /\ Len(most) < Capacity
        /\ \A i \in 1 .. Len(most) : Key(most[i]) # Key(entry)
    <3>1. Keyed(rest) /\ Len(rest) \in Nat /\ Len(rest) <= Capacity
          /\ \A i \in 1 .. Len(rest) : Key(rest[i]) # Key(entry)
      <4> HIDE DEF rest, entry, r, found
      <4>1. /\ Keyed(rest) /\ Len(rest) <= Len(cache)
            /\ \A i \in 1 .. Len(rest) : Key(rest[i]) # Key(entry)
        BY <1>4, <2>1, <2>3
      <4>2. Len(rest) \in Nat /\ Len(cache) \in Nat /\ Len(cache) <= Capacity
        BY <1>1, <4>1 DEF CacheInv, Keyed
      <4> QED
        BY <4>1, <4>2, CacheAssumption
    <3> HIDE DEF rest, entry
    <3>2. CASE Len(rest) = Capacity
      <4>1. Keyed(Tail(rest)) /\ Len(Tail(rest)) = Len(rest) - 1 /\ HeldBy(Tail(rest), rest)
        BY <3>1, <3>2, CacheAssumption, KeyedTail
      <4> QED
        BY <3>1, <3>2, <4>1, CacheAssumption DEF HeldBy
    <3>3. CASE Len(rest) # Capacity
      BY <3>1, <3>3, CacheAssumption
    <3> QED
      BY <3>2, <3>3
  <2>5. CacheInv'
    <3>1. CASE UNCHANGED cache
      BY <1>3, <3>1
    <3>2. CASE cache' = Append(most, entry)
      <4> HIDE DEF most, entry
      <4>1. Keyed(Append(most, entry)) /\ Len(Append(most, entry)) = Len(most) + 1
        BY <2>3, <2>4, KeyedAppend
      <4>2. Len(most) \in Nat
        BY <2>4 DEF Keyed
      <4>3. Len(Append(most, entry)) <= Capacity
        BY <2>4, <4>1, <4>2, CacheAssumption
      <4> QED
        BY <3>2, <4>1, <4>3 DEF CacheInv, Keyed
    <3> QED
      BY <2>1, <3>1, <3>2
  <2> HIDE DEF next1
  <2> QED
    BY <2>1, <2>2, <2>5, RequestMoved
<1>8. CASE Answers!Done(t)
  BY <1>2, <1>3, <1>8, RequestMoved DEF Answers!Done
<1> QED
  BY <1>5, <1>6, <1>7, <1>8

\* Handlers that change nothing, or only look for what to delete.
LEMMA AnswersLook ==
  ASSUME AnswersInv, NEW t \in Threads,
         Answers!Look(t) \/ Answers!Find(t) \/ Answers!Deleted(t) \/ Answers!Fail(t)
  PROVE  AnswersInv'
<1> DEFINE r == request[t]
<1>1. Good(r) /\ CacheInv
  BY DEF AnswersInv
<1>2. CacheInv' /\ UNCHANGED <<memories, next, now>>
  BY <1>1 DEF CacheInv, Keyed, Answers!Look, Answers!Find, Answers!Deleted, Answers!Fail
<1>3. CASE Answers!Look(t)
  <2>1. r # Answers!Idle /\ r.verb # "remember" /\ request' = [request EXCEPT ![t] = Answers!Handled(r)]
    BY <1>3 DEF Answers!Look, Answers!Idle
  <2>2. Good(Answers!Handled(r))
    BY <1>1, <2>1, HandledGood
  <2> QED
    BY <1>2, <2>1, <2>2, RequestMoved
<1>4. CASE Answers!Find(t)
  <2>1. r # Answers!Idle /\ r.verb \in {"forget", "delete"}
    BY <1>4 DEF Answers!Find, Answers!Idle
  <2>2. PICK hits \in SUBSET Answers!Matches(r.text) :
          request' = [request EXCEPT ![t].pc = "deleting", ![t].hits = hits]
    BY <1>4 DEF Answers!Find
  <2> DEFINE new == [r EXCEPT !.pc = "deleting", !.hits = hits]
  <2>3. hits \in SUBSET Answers!Ids
    BY DEF Answers!Matches
  <2>4. Good(new)
    BY <1>1, <2>1, <2>3, GoodMoves
  <2>5. request' = [request EXCEPT ![t] = new]
    BY <2>2 DEF AnswersInv
  <2> HIDE DEF new
  <2> QED
    BY <1>2, <2>4, <2>5, RequestMoved
<1>5. CASE Answers!Deleted(t)
  <2>1. r # Answers!Idle /\ r.pc = "deleting" /\ request' = [request EXCEPT ![t] = Answers!Handled(r)]
    BY <1>5 DEF Answers!Deleted, Answers!Idle
  <2>2. Good(Answers!Handled(r))
    BY <1>1, <2>1, HandledGood DEF Good
  <2> QED
    BY <1>2, <2>1, <2>2, RequestMoved
<1>6. CASE Answers!Fail(t)
  <2>1. Good(Answers!Idle)
    BY DEF Good, Answers!Request, Answers!Idle
  <2> QED
    BY <1>2, <1>6, <2>1, RequestMoved DEF Answers!Fail
<1> QED
  BY <1>3, <1>4, <1>5, <1>6

\* A text is stored in a row that nobody had: what others stored stays there.
LEMMA AnswersStore ==
  ASSUME AnswersInv, NEW t \in Threads, Answers!Store(t)
  PROVE  AnswersInv'
<1> DEFINE r == request[t]
           h == Answers!Handled(r)
<1>1. Good(r) /\ r # Answers!Idle /\ r.text \in Texts
  BY Fields DEF AnswersInv, Answers!Store, Answers!Idle, Good
<1>2. /\ next \in Answers!Ids /\ memories' = [memories EXCEPT ![next] = r.text] /\ next' = next + 1
      /\ request' = [request EXCEPT ![t] = h] /\ UNCHANGED <<cache, now>>
  BY DEF Answers!Store
<1>3. memories[next] = None /\ memories \in [Answers!Ids -> Texts \cup {None}] /\ next \in Nat
  BY <1>2 DEF AnswersInv, RowsInv, Answers!Ids
<1>4. \A x \in Texts : Answers!Matches(x) \subseteq Answers!Matches(x)'
  BY <1>2, <1>3, TextAssumption DEF Answers!Matches
<1>5. \A x : x = r.text => Answers!Matches(x)' # {}
  BY <1>2, <1>3 DEF Answers!Matches
<1>6. RowsInv'
  <2>1. next' \in 1 .. Rows + 1
    BY <1>2, MemoryAssumption DEF Answers!Ids
  <2>2. memories' \in [Answers!Ids -> Texts \cup {None}]
    BY <1>1, <1>2, <1>3
  <2>3. \A i \in Answers!Ids : i >= next + 1 => i # next /\ i >= next
    BY <1>3 DEF Answers!Ids
  <2> QED
    BY <1>2, <1>3, <2>1, <2>2, <2>3 DEF AnswersInv, RowsInv
<1>7. /\ h \in Answers!Request /\ h.pc = "handled" /\ h.text = r.text
      /\ h.answer = [scope |-> h.scope, verb |-> h.verb, text |-> h.text]
  <2> DEFINE answer == [scope |-> r.scope, verb |-> r.verb, text |-> r.text]
  <2>1. answer \in Answers!Answer
    BY <1>1, Fields DEF Good, Answers!Answer
  <2>2. h = [r EXCEPT !.pc = "handled", !.hits = {}, !.answer = answer]
    BY DEF Answers!Handled
  <2>3. /\ h \in Answers!Request /\ h.answer = answer /\ h.scope = r.scope /\ h.verb = r.verb
        /\ h.text = r.text /\ h.pc = "handled"
    <3> HIDE DEF answer, h, r
    <3> QED
      BY <1>1, <2>1, <2>2, Fields DEF Good, Answers!Request
  <2> QED
    BY <2>3
<1> HIDE DEF h, r
<1>9. \A u \in Threads : request'[u] = IF u = t THEN h ELSE request[u]
  BY <1>2 DEF AnswersInv
<1>10. ASSUME NEW u \in Threads
       PROVE  Good(request[u])'
  <2>1. CASE u = t
    BY <1>7, <1>5, <1>9, <2>1 DEF Good
  <2>2. CASE u # t
    <3>1. request'[u] = request[u] /\ Good(request[u])
      BY <1>9, <2>2 DEF AnswersInv
    <3>2. request[u].pc \in {"handled", "answered"} => request[u].text \in Texts
      BY <3>1, Fields DEF Good, Answers!Idle
    <3> QED
      BY <1>4, <3>1, <3>2 DEF Good
  <2> QED
    BY <2>1, <2>2
<1>11. CacheInv'
  BY <1>2 DEF AnswersInv, CacheInv, Keyed
<1>12. DOMAIN request' = Threads /\ request' = [u \in Threads |-> request'[u]]
  BY <1>2 DEF AnswersInv
<1> QED
  BY <1>2, <1>6, <1>10, <1>11, <1>12 DEF AnswersInv

\* A row is deleted: whoever stored its text is told.
LEMMA AnswersDelete ==
  ASSUME AnswersInv, NEW t \in Threads, Answers!Delete(t)
  PROVE  AnswersInv'
<1> DEFINE r == request[t]
<1>1. Good(r) /\ r.pc = "deleting" /\ r # Answers!Idle /\ r.hits \in SUBSET Answers!Ids
  BY Fields DEF AnswersInv, Answers!Delete, Answers!Idle, Good
<1>2. PICK i \in r.hits :
        /\ memories' = [memories EXCEPT ![i] = None]
        /\ request' = [Answers!Disturb(memories[i]) EXCEPT ![t].hits = r.hits \ {i}]
        /\ UNCHANGED <<cache, next, now>>
  BY DEF Answers!Delete
<1> DEFINE text == memories[i]
           told(u) == [request[u] EXCEPT !.disturbed = TRUE]
           mine == [r EXCEPT !.hits = r.hits \ {i}]
<1>3. Answers!Disturb(text)[t] = r
  BY <1>1 DEF Answers!Disturb, Good
<1>4. request' = [Answers!Disturb(text) EXCEPT ![t] = mine]
  BY <1>2, <1>3
<1>5. Good(mine)
  BY <1>1, GoodMoves
<1>6. mine.pc = "deleting"
  BY <1>1
<1> HIDE DEF mine
<1>7. \A x : x # text => Answers!Matches(x) = Answers!Matches(x)' \/ x = None
  BY <1>2 DEF AnswersInv, RowsInv, Answers!Matches
<1>8. ASSUME NEW u \in Threads
      PROVE  Good(request[u])'
  <2> DEFINE o == request[u]
  <2>1. Good(o)
    BY DEF AnswersInv
  <2>2. CASE u = t
    <3>1. request'[u] = mine
      BY <1>4, <2>2 DEF Answers!Disturb
    <3> QED
      BY <1>5, <1>6, <3>1 DEF Good
  <2>3. CASE u # t /\ o # Answers!Idle /\ o.text = text /\ o.verb \in {"remember", "save"}
    <3> DEFINE new == [o EXCEPT !.disturbed = TRUE]
    <3>1. request'[u] = new
      BY <1>4, <2>3 DEF Answers!Disturb
    <3>2. /\ new \in Answers!Request /\ new.disturbed /\ new.pc = o.pc /\ new.answer = o.answer
          /\ new.scope = o.scope /\ new.verb = o.verb /\ new.text = o.text
      BY <2>1, <2>3, Fields DEF Good, Answers!Request
    <3> HIDE DEF new
    <3> QED
      BY <2>1, <3>1, <3>2 DEF Good
  <2>4. CASE u # t /\ ~(o # Answers!Idle /\ o.text = text /\ o.verb \in {"remember", "save"})
    <3>1. request'[u] = o
      BY <1>4, <2>4 DEF Answers!Disturb
    <3>2. ASSUME o.pc \in {"handled", "answered"}, o.verb = "remember", ~o.disturbed
          PROVE  \A x : x = o.text => Answers!Matches(x)' # {}
      <4>1. o # Answers!Idle /\ o.text \in Texts
        BY <2>1, <3>2, Fields DEF Good, Answers!Idle
      <4>2. o.text # text /\ o.text # None
        BY <2>4, <3>2, <4>1, TextAssumption
      <4>3. Answers!Matches(o.text) # {}
        BY <2>1, <3>2 DEF Good
      <4> QED
        BY <1>7, <4>2, <4>3
    <3> HIDE DEF o
    <3> QED
      BY <2>1, <3>1, <3>2 DEF Good
  <2> QED
    BY <2>2, <2>3, <2>4
<1>9. RowsInv'
  BY <1>1, <1>2 DEF AnswersInv, RowsInv
<1>10. CacheInv'
  BY <1>2 DEF AnswersInv, CacheInv, Keyed
<1>11. DOMAIN request' = Threads /\ request' = [u \in Threads |-> request'[u]]
  BY <1>4 DEF Answers!Disturb
<1> QED
  BY <1>2, <1>8, <1>9, <1>10, <1>11 DEF AnswersInv

LEMMA AnswersKept ==
  ASSUME AnswersInv, [Answers!Next]_answerVars
  PROVE  AnswersInv'
<1>1. CASE Answers!Tick \/ UNCHANGED answerVars
  <2>1. UNCHANGED <<cache, memories, next, request>> /\ now' \in 0 .. Horizon
    BY <1>1, MemoryAssumption DEF Answers!Tick, answerVars, AnswersInv
  <2> QED
    BY <2>1 DEF AnswersInv, CacheInv, Keyed, RowsInv, Good, Answers!Matches
<1> QED
  BY <1>1, AnswersCache, AnswersLook, AnswersStore, AnswersDelete DEF Answers!Next

LEMMA AnswersAlways == CommandsSpec => []AnswersInv
<1>1. CommandsInit => AnswersInv
  BY AnswersStart DEF CommandsInit
<1>2. AnswersInv /\ [CommandsNext]_commandsVars => AnswersInv'
  BY PartSteps, AnswersKept
<1> QED
  BY <1>1, <1>2, PTL DEF CommandsSpec

\* The cache, the memory and the commands keep their form: one entry for each key
\* and never more than its capacity (ResponseCache.set).
THEOREM AnswersTyped == CommandsSpec => []Answers!TypeOK
<1>1. AnswersInv => Answers!TypeOK
  BY DEF AnswersInv, CacheInv, Keyed, RowsInv, Good, Key, Answers!TypeOK
<1> QED
  BY <1>1, AnswersAlways, PTL

\* No caller is answered with what was computed for another principal, tenant,
\* role or credential, or for another command (_scope_key).
THEOREM AnswersKeepScope == CommandsSpec => []AnswersInScope
<1>1. AnswersInv => AnswersInScope
  <2> SUFFICES ASSUME AnswersInv, NEW t \in Threads, request[t].pc = "answered"
               PROVE  /\ request[t].answer.scope = request[t].scope
                      /\ request[t].answer.verb = request[t].verb
                      /\ request[t].answer.text = request[t].text
    BY DEF AnswersInScope, Answers!AnswersInScope
  <2>1. request[t].answer = [scope |-> request[t].scope, verb |-> request[t].verb,
                             text |-> request[t].text]
    BY DEF AnswersInv, Good
  <2> QED
    BY <2>1
<1> QED
  BY <1>1, AnswersAlways, PTL

\* What "remember" acknowledges was stored, whatever is kept in the cache, and is
\* still there unless somebody deleted it (_CMD_TTL).
THEOREM RememberedIsStored == CommandsSpec => []RememberedMeansStored
<1>1. AnswersInv => RememberedMeansStored
  BY DEF AnswersInv, Good, RememberedMeansStored, Answers!RememberedMeansStored
<1> QED
  BY <1>1, AnswersAlways, PTL

(***************************************************************************)
(* The samples of the monitor.                                             *)
(***************************************************************************)

\* The instance of PerformanceMonitor counts as this module does.
LEMMA MonitorCardinality == \A S : Monitor!Cardinality(S) = Cardinality(S)
BY DEF Monitor!Cardinality, Monitor!IsFiniteSet, Cardinality, IsFiniteSet

\* A set and its image under a bijection have as many elements.
LEMMA SameSize ==
  ASSUME NEW S, NEW T, IsFiniteSet(S), NEW f \in [S -> T],
         \A a, b \in S : f[a] = f[b] => a = b,
         \A x \in T : \E a \in S : f[a] = x
  PROVE  IsFiniteSet(T) /\ Cardinality(T) = Cardinality(S)
<1>1. f \in Bijection(S, T)
  BY DEF Bijection, Injection, Surjection, IsInjective
<1>2. ExistsBijection(S, T)
  BY <1>1 DEF ExistsBijection
<1> QED
  BY <1>2, FS_Bijection

\* Windows of samples, and where those of a principal are.
Windows == {m \in [Names -> Seq(Principals)] : \A n \in Names : Len(m[n]) <= Retention}

SamplesIn(m, p) == {k \in Names \X (1 .. Retention) : k[2] \in DOMAIN m[k[1]] /\ m[k[1]][k[2]] = p}

LEMMA SamplesAre ==
  ASSUME NEW m \in Windows, NEW p
  PROVE  /\ IsFiniteSet(SamplesIn(m, p)) /\ Cardinality(SamplesIn(m, p)) \in Nat
         /\ \A n, i : <<n, i>> \in SamplesIn(m, p) <=> n \in Names /\ i \in 1 .. Len(m[n]) /\ m[n][i] = p
         /\ \A k \in SamplesIn(m, p) : \E n \in Names, i \in 1 .. Retention : k = <<n, i>>
<1>1. IsFiniteSet(Names \X (1 .. Retention))
  <2>1. IsFiniteSet(1 .. Retention)
    BY FS_Interval, MonitorAssumption
  <2> QED
    BY <2>1, FS_Product, MonitorAssumption
<1>2. SamplesIn(m, p) \in SUBSET (Names \X (1 .. Retention))
  BY DEF SamplesIn
<1>3. IsFiniteSet(SamplesIn(m, p))
  BY <1>1, <1>2, FS_Subset
<1>4. Cardinality(SamplesIn(m, p)) \in Nat
  BY <1>3, FS_CardinalityType
<1>5. ASSUME NEW n, NEW i
      PROVE  <<n, i>> \in SamplesIn(m, p) <=> n \in Names /\ i \in 1 .. Len(m[n]) /\ m[n][i] = p
  <2>1. <<n, i>> \in SamplesIn(m, p) <=>
          <<n, i>> \in Names \X (1 .. Retention) /\ i \in DOMAIN m[n] /\ m[n][i] = p
    BY DEF SamplesIn
  <2>2. ASSUME n \in Names
        PROVE  Len(m[n]) \in Nat /\ DOMAIN m[n] = 1 .. Len(m[n]) /\ Len(m[n]) <= Retention
    BY <2>2 DEF Windows
  <2>3. i \in 1 .. Len(m[n]) /\ n \in Names => i \in 1 .. Retention
    BY <2>2, MonitorAssumption
  <2> QED
    BY <2>1, <2>2, <2>3
<1>6. ASSUME NEW k \in SamplesIn(m, p)
      PROVE  \E n \in Names, i \in 1 .. Retention : k = <<n, i>>
  <2>1. k \in Names \X (1 .. Retention)
    BY <1>2
  <2>2. k = <<k[1], k[2]>> /\ k[1] \in Names /\ k[2] \in 1 .. Retention
    BY <2>1
  <2> QED
    BY <2>2
<1> QED
  BY <1>3, <1>4, <1>5, <1>6

\* One window is replaced.
Replaced(m, n, s, m2) ==
  m2 \in Windows /\ m2[n] = s /\ \A a \in Names : a # n => m2[a] = m[a]

LEMMA WindowFits ==
  ASSUME NEW m \in Windows, NEW n \in Names, NEW s \in Seq(Principals), Len(s) <= Retention
  PROVE  Replaced(m, n, s, [m EXCEPT ![n] = s])
<1> DEFINE m2 == [m EXCEPT ![n] = s]
<1>1. m \in [Names -> Seq(Principals)] /\ \A a \in Names : Len(m[a]) <= Retention
  BY DEF Windows
<1>2. m2 \in [Names -> Seq(Principals)] /\ m2[n] = s /\ \A a \in Names : a # n => m2[a] = m[a]
  BY <1>1
<1>3. \A a \in Names : Len(m2[a]) <= Retention
  BY <1>1, <1>2
<1> QED
  BY <1>2, <1>3 DEF Windows, Replaced

\* The oldest sample of a window is dropped.
LEMMA HeadDropped ==
  ASSUME NEW m \in Windows, NEW n \in Names, m[n] # <<>>,
         NEW m2, Replaced(m, n, Tail(m[n]), m2), NEW p
  PROVE  Cardinality(SamplesIn(m, p)) =
           IF Head(m[n]) = p THEN Cardinality(SamplesIn(m2, p)) + 1 ELSE Cardinality(SamplesIn(m2, p))
<1> DEFINE S == SamplesIn(m, p)
           S2 == SamplesIn(m2, p)
           k == <<n, 1>>
           f == [x \in S2 |-> IF x[1] = n THEN <<n, x[2] + 1>> ELSE x]
<1>1. m \in [Names -> Seq(Principals)] /\ m[n] \in Seq(Principals) /\ Len(m[n]) \in Nat /\ Len(m[n]) <= Retention
  BY DEF Windows
<1>2. /\ Tail(m[n]) \in Seq(Principals) /\ Len(Tail(m[n])) = Len(m[n]) - 1
      /\ \A i \in 1 .. Len(Tail(m[n])) : Tail(m[n])[i] = m[n][i + 1]
      /\ Head(m[n]) = m[n][1] /\ Len(m[n]) >= 1
  BY <1>1, HeadTailProperties
<1>3. m2 \in Windows
  BY DEF Replaced
<1>4. /\ IsFiniteSet(S) /\ Cardinality(S) \in Nat
      /\ \A a, i : <<a, i>> \in S <=> a \in Names /\ i \in 1 .. Len(m[a]) /\ m[a][i] = p
      /\ \A x \in S : \E a \in Names, i \in 1 .. Retention : x = <<a, i>>
  BY SamplesAre
<1>5. /\ IsFiniteSet(S2) /\ Cardinality(S2) \in Nat
      /\ \A a, i : <<a, i>> \in S2 <=> a \in Names /\ i \in 1 .. Len(m2[a]) /\ m2[a][i] = p
      /\ \A x \in S2 : \E a \in Names, i \in 1 .. Retention : x = <<a, i>>
  BY <1>3, SamplesAre
<1>6. k \in S <=> Head(m[n]) = p
  BY <1>1, <1>2, <1>4
<1>7. m2[n] = Tail(m[n]) /\ \A a \in Names : a # n => m2[a] = m[a]
  BY DEF Replaced
<1> HIDE DEF S, S2
<1>8. \A a, i : a # n => (<<a, i>> \in S2 <=> <<a, i>> \in S)
  BY <1>4, <1>5, <1>7
<1>9. ASSUME NEW i
      PROVE  <<n, i>> \in S2 <=> i \in Nat \ {0} /\ <<n, i + 1>> \in S
  <2>1. <<n, i>> \in S2 <=> i \in 1 .. (Len(m[n]) - 1) /\ Tail(m[n])[i] = p
    <3>1. <<n, i>> \in S2 <=> i \in 1 .. Len(m2[n]) /\ m2[n][i] = p
      BY <1>5
    <3> QED
      BY <1>2, <1>7, <3>1
  <2>2. <<n, i + 1>> \in S <=> i + 1 \in 1 .. Len(m[n]) /\ m[n][i + 1] = p
    BY <1>4
  <2>3. i \in 1 .. (Len(m[n]) - 1) => Tail(m[n])[i] = m[n][i + 1]
    BY <1>2
  <2>4. i \in 1 .. (Len(m[n]) - 1) <=> i \in Nat \ {0} /\ i + 1 \in 1 .. Len(m[n])
    BY <1>1
  <2> QED
    BY <2>1, <2>2, <2>3, <2>4
<1>10. f \in [S2 -> S \ {k}]
  <2> SUFFICES ASSUME NEW x \in S2
               PROVE  (IF x[1] = n THEN <<n, x[2] + 1>> ELSE x) \in S \ {k}
    OBVIOUS
  <2>1. PICK a \in Names, i \in 1 .. Retention : x = <<a, i>>
    BY <1>5
  <2>2. CASE a = n
    <3>1. <<n, i + 1>> \in S /\ i + 1 # 1
      BY <1>9, <2>1, <2>2, MonitorAssumption
    <3> QED
      BY <2>1, <2>2, <3>1
  <2>3. CASE a # n
    BY <1>8, <2>1, <2>3
  <2> QED
    BY <2>2, <2>3
<1>11. \A x, y \in S2 : f[x] = f[y] => x = y
  <2> SUFFICES ASSUME NEW x \in S2, NEW y \in S2, f[x] = f[y]
               PROVE  x = y
    OBVIOUS
  <2>1. PICK a \in Names, i \in 1 .. Retention : x = <<a, i>>
    BY <1>5
  <2>2. PICK b \in Names, j \in 1 .. Retention : y = <<b, j>>
    BY <1>5
  <2>3. /\ f[x] = IF a = n THEN <<n, i + 1>> ELSE <<a, i>>
        /\ f[y] = IF b = n THEN <<n, j + 1>> ELSE <<b, j>>
    BY <2>1, <2>2
  <2>4. i \in Nat /\ j \in Nat
    BY MonitorAssumption
  <2> HIDE DEF f
  <2> QED
    BY <2>1, <2>2, <2>3, <2>4
<1>12. \A y \in S \ {k} : \E x \in S2 : f[x] = y
  <2> SUFFICES ASSUME NEW y \in S, y # k
               PROVE  \E x \in S2 : f[x] = y
    OBVIOUS
  <2>1. PICK a \in Names, i \in 1 .. Retention : y = <<a, i>>
    BY <1>4
  <2>2. CASE a = n
    <3>1. i - 1 \in Nat \ {0} /\ (i - 1) + 1 = i
      BY <2>1, <2>2, MonitorAssumption
    <3>2. <<n, i - 1>> \in S2
      BY <1>9, <2>1, <2>2, <3>1
    <3>3. f[<<n, i - 1>>] = <<n, (i - 1) + 1>>
      BY <3>2
    <3> HIDE DEF f
    <3> QED
      BY <2>1, <2>2, <3>1, <3>2, <3>3
  <2>3. CASE a # n
    <3>1. y \in S2 /\ f[y] = y
      BY <1>8, <2>1, <2>3
    <3> HIDE DEF f
    <3> QED
      BY <3>1
  <2> QED
    BY <2>2, <2>3
<1> HIDE DEF f
<1>13. Cardinality(S \ {k}) = Cardinality(S2)
  <2> DEFINE R == S \ {k}
  <2>1. f \in [S2 -> R] /\ \A y \in R : \E x \in S2 : f[x] = y
    BY <1>10, <1>12
  <2> HIDE DEF R
  <2>2. Cardinality(R) = Cardinality(S2)
    BY <1>5, <1>11, <2>1, SameSize
  <2> QED
    BY <2>2 DEF R
<1>14. Cardinality(S \ {k}) = IF k \in S THEN Cardinality(S) - 1 ELSE Cardinality(S)
  BY <1>4, FS_RemoveElement
<1>15. Cardinality(S) = IF Head(m[n]) = p THEN Cardinality(S2) + 1 ELSE Cardinality(S2)
  BY <1>4, <1>6, <1>13, <1>14
<1> QED
  BY <1>15 DEF S, S2

\* A sample is appended to a window.
LEMMA SampleAdded ==
  ASSUME NEW m \in Windows, NEW n \in Names, NEW q \in Principals,
         NEW m2, Replaced(m, n, Append(m[n], q), m2), NEW p
  PROVE  /\ q = p => Cardinality(SamplesIn(m2, p)) = Cardinality(SamplesIn(m, p)) + 1
         /\ q # p => Cardinality(SamplesIn(m2, p)) = Cardinality(SamplesIn(m, p))
<1> DEFINE S == SamplesIn(m, p)
           S2 == SamplesIn(m2, p)
           k == <<n, Len(m[n]) + 1>>
<1>1. m \in [Names -> Seq(Principals)] /\ m[n] \in Seq(Principals) /\ Len(m[n]) \in Nat
  BY DEF Windows
<1>2. /\ Append(m[n], q) \in Seq(Principals) /\ Len(Append(m[n], q)) = Len(m[n]) + 1
      /\ \A i \in 1 .. Len(m[n]) : Append(m[n], q)[i] = m[n][i]
      /\ Append(m[n], q)[Len(m[n]) + 1] = q
  BY <1>1, AppendProperties
<1>3. m2 \in Windows /\ m2[n] = Append(m[n], q) /\ \A a \in Names : a # n => m2[a] = m[a]
  BY DEF Replaced
<1>4. /\ IsFiniteSet(S) /\ Cardinality(S) \in Nat
      /\ \A a, i : <<a, i>> \in S <=> a \in Names /\ i \in 1 .. Len(m[a]) /\ m[a][i] = p
      /\ \A x \in S : \E a \in Names, i \in 1 .. Retention : x = <<a, i>>
  BY SamplesAre
<1>5. /\ \A a, i : <<a, i>> \in S2 <=> a \in Names /\ i \in 1 .. Len(m2[a]) /\ m2[a][i] = p
      /\ \A x \in S2 : \E a \in Names, i \in 1 .. Retention : x = <<a, i>>
  BY <1>3, SamplesAre
<1> HIDE DEF S, S2
<1>7. ASSUME NEW a, NEW i
      PROVE  <<a, i>> \in S2 <=> <<a, i>> \in S \/ (a = n /\ i = Len(m[n]) + 1 /\ q = p)
  <2>1. CASE a = n
    <3>1. i \in 1 .. Len(m2[n]) <=> i \in 1 .. Len(m[n]) \/ i = Len(m[n]) + 1
      BY <1>1, <1>2, <1>3
    <3> QED
      BY <1>1, <1>2, <1>3, <1>4, <1>5, <2>1, <3>1
  <2>2. CASE a # n
    BY <1>3, <1>4, <1>5, <2>2
  <2> QED
    BY <2>1, <2>2
<1>8. k \notin S
  BY <1>1, <1>4
<1>9. S2 = IF q = p THEN S \cup {k} ELSE S
  <2>1. \A x : x \in S2 <=> x \in S \/ (x = k /\ q = p)
    <3> TAKE x
    <3>1. ASSUME x \in S2
          PROVE  x \in S \/ (x = k /\ q = p)
      <4>1. PICK a \in Names, i \in 1 .. Retention : x = <<a, i>>
        BY <1>5, <3>1
      <4> QED
        BY <1>7, <3>1, <4>1
    <3>2. ASSUME x \in S
          PROVE  x \in S2
      <4>1. PICK a \in Names, i \in 1 .. Retention : x = <<a, i>>
        BY <1>4, <3>2
      <4> QED
        BY <1>7, <3>2, <4>1
    <3>3. q = p => k \in S2
      BY <1>7
    <3> QED
      BY <3>1, <3>2, <3>3
  <2> HIDE DEF k
  <2> QED
    BY <2>1
<1>10. Cardinality(S \cup {k}) = Cardinality(S) + 1
  BY <1>4, <1>8, FS_AddElement
<1>11. Cardinality(S2) = IF q = p THEN Cardinality(S) + 1 ELSE Cardinality(S)
  BY <1>9, <1>10
<1> QED
  BY <1>11 DEF S, S2

\* A window is emptied.
Mine(m, n, p) == {i \in DOMAIN m[n] : m[n][i] = p}

LEMMA WindowEmptied ==
  ASSUME NEW m \in Windows, NEW n \in Names, NEW m2, Replaced(m, n, <<>>, m2), NEW p
  PROVE  /\ Cardinality(Mine(m, n, p)) \in Nat
         /\ Cardinality(SamplesIn(m, p)) = Cardinality(SamplesIn(m2, p)) + Cardinality(Mine(m, n, p))
<1> DEFINE mine == Mine(m, n, p)
           S == SamplesIn(m, p)
           S2 == SamplesIn(m2, p)
           T == {<<n, i>> : i \in mine}
           f == [i \in mine |-> <<n, i>>]
<1>1. m \in [Names -> Seq(Principals)] /\ m[n] \in Seq(Principals) /\ Len(m[n]) \in Nat
      /\ DOMAIN m[n] = 1 .. Len(m[n])
  BY DEF Windows
<1>2. m2 \in Windows
  BY DEF Replaced
<1>3. /\ IsFiniteSet(S) /\ Cardinality(S) \in Nat
      /\ \A a, i : <<a, i>> \in S <=> a \in Names /\ i \in 1 .. Len(m[a]) /\ m[a][i] = p
      /\ \A x \in S : \E a \in Names, i \in 1 .. Retention : x = <<a, i>>
  BY SamplesAre
<1>4. /\ \A a, i : <<a, i>> \in S2 <=> a \in Names /\ i \in 1 .. Len(m2[a]) /\ m2[a][i] = p
      /\ \A x \in S2 : \E a \in Names, i \in 1 .. Retention : x = <<a, i>>
      /\ Cardinality(S2) \in Nat
  BY <1>2, SamplesAre
<1>5. Len(m2[n]) = 0 /\ \A a \in Names : a # n => m2[a] = m[a]
  BY DEF Replaced
<1> HIDE DEF S, S2
<1>6. \A i : i \in mine <=> <<n, i>> \in S
  BY <1>1, <1>3 DEF Mine
<1>7. IsFiniteSet(mine) /\ Cardinality(mine) \in Nat
  <2>1. IsFiniteSet(1 .. Len(m[n]))
    BY <1>1, FS_Interval
  <2>2. mine \in SUBSET (1 .. Len(m[n]))
    BY <1>1 DEF Mine
  <2> QED
    BY <2>1, <2>2, FS_Subset, FS_CardinalityType
<1> HIDE DEF mine
<1>8. IsFiniteSet(T) /\ Cardinality(T) = Cardinality(mine)
  <2>1. f \in [mine -> T] /\ \A i \in mine : f[i] = <<n, i>>
    OBVIOUS
  <2>2. \A i, j \in mine : <<n, i>> = <<n, j>> => i = j
    OBVIOUS
  <2>3. \A x \in T : \E i \in mine : x = <<n, i>>
    OBVIOUS
  <2> HIDE DEF f, T
  <2>4. (\A i, j \in mine : f[i] = f[j] => i = j) /\ (\A x \in T : \E i \in mine : f[i] = x)
    BY <2>1, <2>2, <2>3
  <2> QED
    BY <1>7, <2>1, <2>4, SameSize
<1>9. S2 = S \ T /\ S \cap T = T
  <2>1. \A a, i : <<a, i>> \in S2 <=> <<a, i>> \in S /\ a # n
    <3> TAKE a, i
    <3>1. CASE a = n
      <4>1. i \notin 1 .. Len(m2[n])
        BY <1>5
      <4> QED
        BY <1>4, <3>1, <4>1
    <3>2. CASE a # n
      BY <1>3, <1>4, <1>5, <3>2
    <3> QED
      BY <3>1, <3>2
  <2>2. \A a, i : <<a, i>> \in T <=> <<a, i>> \in S /\ a = n
    BY <1>6
  <2>3. \A x \in T : x \in S
    BY <1>6
  <2> HIDE DEF T
  <2>4. ASSUME NEW x
        PROVE  x \in S2 <=> x \in S /\ x \notin T
    <3>1. ASSUME x \in S \/ x \in S2
          PROVE  \E a, i : x = <<a, i>>
      BY <1>3, <1>4, <3>1
    <3> QED
      BY <2>1, <2>2, <3>1
  <2> QED
    BY <2>3, <2>4
<1> HIDE DEF T
<1>10. Cardinality(S \ T) = Cardinality(S) - Cardinality(S \cap T)
  BY <1>3, FS_Difference
<1>11. Cardinality(S) = Cardinality(S2) + Cardinality(mine)
  <2>1. Cardinality(S2) = Cardinality(S) - Cardinality(T)
    BY <1>9, <1>10
  <2> QED
    BY <1>3, <1>4, <1>7, <1>8, <2>1
<1> QED
  BY <1>7, <1>11 DEF S, S2, mine

\* Each principal is counted for its samples, and timers hold principals.
MonitorInv ==
  /\ metrics \in Windows
  /\ counts \in [Principals -> Nat]
  /\ timers \in [Names \X Threads -> Principals \cup {None}]
  /\ \A p \in Principals : counts[p] = Cardinality(SamplesIn(metrics, p))

LEMMA MonitorStart == Monitor!Init => MonitorInv
<1> SUFFICES ASSUME Monitor!Init
             PROVE  MonitorInv
  OBVIOUS
<1>1. /\ metrics = [n \in Names |-> <<>>] /\ counts = [p \in Principals |-> 0]
      /\ timers = [k \in Names \X Threads |-> None]
  BY DEF Monitor!Init
<1>2. \A n \in Names : metrics[n] = <<>> /\ metrics[n] \in Seq(Principals) /\ Len(metrics[n]) = 0
  BY <1>1
<1>3. metrics \in Windows
  <2>1. metrics \in [Names -> Seq(Principals)]
    BY <1>1, <1>2
  <2> QED
    BY <1>2, <2>1, MonitorAssumption DEF Windows
<1>4. ASSUME NEW p
      PROVE  Cardinality(SamplesIn(metrics, p)) = 0
  <2>1. SamplesIn(metrics, p) = {}
    BY <1>2, <1>3, SamplesAre
  <2> QED
    BY <2>1, FS_EmptySet
<1> QED
  BY <1>1, <1>3, <1>4 DEF MonitorInv

\* A sample is observed: a full window drops its oldest, which is counted out.
LEMMA Observed ==
  ASSUME MonitorInv, NEW n \in Names, NEW q \in Principals, Monitor!Observe(n, q)
  PROVE  /\ metrics' \in Windows /\ counts' \in [Principals -> Nat]
         /\ \A p \in Principals : counts'[p] = Cardinality(SamplesIn(metrics', p))
<1>1. metrics \in Windows /\ counts \in [Principals -> Nat]
      /\ \A p \in Principals : counts[p] = Cardinality(SamplesIn(metrics, p))
  BY DEF MonitorInv
<1>2. metrics \in [Names -> Seq(Principals)] /\ Len(metrics[n]) \in Nat /\ Len(metrics[n]) <= Retention
      /\ metrics[n] \in Seq(Principals)
  BY <1>1 DEF Windows
<1>3. ASSUME NEW m \in Windows, NEW c \in [Principals -> Nat], Len(m[n]) < Retention,
             \A p \in Principals : c[p] = Cardinality(SamplesIn(m, p)),
             metrics' = [m EXCEPT ![n] = Append(m[n], q)],
             counts' = [c EXCEPT ![q] = c[q] + 1]
      PROVE  /\ metrics' \in Windows /\ counts' \in [Principals -> Nat]
             /\ \A p \in Principals : counts'[p] = Cardinality(SamplesIn(metrics', p))
  <2> DEFINE m2 == metrics'
  <2>1. Append(m[n], q) \in Seq(Principals) /\ Len(Append(m[n], q)) <= Retention
    <3>1. m[n] \in Seq(Principals) /\ Len(m[n]) \in Nat
      BY DEF Windows
    <3> QED
      BY <1>3, <3>1, AppendProperties, MonitorAssumption
  <2>2. Replaced(m, n, Append(m[n], q), m2)
    BY <1>3, <2>1, WindowFits
  <2>3. \A p : /\ q = p => Cardinality(SamplesIn(m2, p)) = Cardinality(SamplesIn(m, p)) + 1
               /\ q # p => Cardinality(SamplesIn(m2, p)) = Cardinality(SamplesIn(m, p))
    BY <2>2, SampleAdded
  <2>4. /\ counts' \in [Principals -> Nat]
        /\ \A p \in Principals : counts'[p] = IF q = p THEN c[p] + 1 ELSE c[p]
    BY <1>3
  <2> QED
    BY <1>3, <2>2, <2>3, <2>4 DEF Replaced
<1>4. CASE Len(metrics[n]) < Retention
  <2>1. ~(Len(metrics[n]) >= Retention)
    BY <1>2, <1>4, MonitorAssumption
  <2>2. /\ metrics' = [metrics EXCEPT ![n] = Append(metrics[n], q)]
        /\ counts' = [counts EXCEPT ![q] = counts[q] + 1]
    BY <2>1 DEF Monitor!Observe
  <2> QED
    BY <1>1, <1>3, <1>4, <2>2
<1>5. CASE ~(Len(metrics[n]) < Retention)
  <2> DEFINE h == Head(metrics[n])
             m == [metrics EXCEPT ![n] = Tail(metrics[n])]
             c == Monitor!Decremented(counts, h)
  <2>1. Len(metrics[n]) >= Retention /\ Len(metrics[n]) >= 1 /\ metrics[n] # <<>>
    BY <1>2, <1>5, MonitorAssumption
  <2>2. /\ h \in Principals /\ Len(Tail(metrics[n])) = Len(metrics[n]) - 1
        /\ Tail(metrics[n]) \in Seq(Principals)
    BY <1>2, <2>1, HeadTailProperties
  <2>3. /\ metrics' = [metrics EXCEPT ![n] = Append(Tail(metrics[n]), q)]
        /\ counts' = [c EXCEPT ![q] = c[q] + 1]
    BY <2>1 DEF Monitor!Observe
  <2>4. Replaced(metrics, n, Tail(metrics[n]), m) /\ m \in Windows
    <3>1. Len(Tail(metrics[n])) <= Retention
      BY <1>2, <2>1, <2>2, MonitorAssumption
    <3>2. Replaced(metrics, n, Tail(metrics[n]), m)
      BY <1>1, <2>2, <3>1, WindowFits
    <3> QED
      BY <3>2 DEF Replaced
  <2>5. \A p : Cardinality(SamplesIn(metrics, p)) =
                 IF h = p THEN Cardinality(SamplesIn(m, p)) + 1 ELSE Cardinality(SamplesIn(m, p))
    <3> HIDE DEF m, h
    <3> QED
      BY <1>1, <2>1, <2>4, HeadDropped DEF h
  <2>6. \A p \in Principals : Cardinality(SamplesIn(m, p)) \in Nat
    <3> HIDE DEF m
    <3> QED
      BY <2>4, SamplesAre
  <2>7. /\ c \in [Principals -> Nat]
        /\ \A p \in Principals : c[p] = IF h # p THEN counts[p]
                                        ELSE IF counts[p] = 0 THEN 0 ELSE counts[p] - 1
    BY <1>1, <2>2 DEF Monitor!Decremented
  <2>8. m[n] = Tail(metrics[n]) /\ [m EXCEPT ![n] = Append(m[n], q)] = [metrics EXCEPT ![n] = Append(Tail(metrics[n]), q)]
    BY <1>2
  <2>9. Len(m[n]) < Retention
    BY <1>2, <2>1, <2>2, <2>8, MonitorAssumption
  <2> HIDE DEF h, m, c
  <2>10. \A p \in Principals : c[p] = Cardinality(SamplesIn(m, p))
    BY <1>1, <2>5, <2>6, <2>7
  <2> QED
    BY <1>3, <2>3, <2>4, <2>7, <2>8, <2>9, <2>10
<1> QED
  BY <1>4, <1>5

LEMMA MonitorKept ==
  ASSUME MonitorInv, [Monitor!Next]_monitorVars
  PROVE  MonitorInv'
<1>1. /\ metrics \in Windows /\ counts \in [Principals -> Nat]
      /\ timers \in [Names \X Threads -> Principals \cup {None}]
      /\ \A p \in Principals : counts[p] = Cardinality(SamplesIn(metrics, p))
  BY DEF MonitorInv
<1>2. ASSUME NEW n \in Names, NEW p \in Principals, Monitor!Record(n, p)
      PROVE  MonitorInv'
  <2>1. Monitor!Observe(n, p) /\ UNCHANGED timers
    BY <1>2 DEF Monitor!Record
  <2> QED
    BY <1>1, <2>1, Observed DEF MonitorInv
<1>3. ASSUME NEW n \in Names, NEW p \in Principals, NEW t \in Threads, Monitor!StartTimer(t, n, p)
      PROVE  MonitorInv'
  <2>1. timers' \in [Names \X Threads -> Principals \cup {None}] /\ UNCHANGED <<metrics, counts>>
    BY <1>1, <1>3 DEF Monitor!StartTimer
  <2> QED
    BY <1>1, <2>1 DEF MonitorInv
<1>4. ASSUME NEW n \in Names, NEW p \in Principals \cup {None}, NEW t \in Threads,
             Monitor!StopTimer(t, n, p)
      PROVE  MonitorInv'
  <2> DEFINE q == IF p = None THEN timers[<<n, t>>] ELSE p
  <2>1. timers' \in [Names \X Threads -> Principals \cup {None}] /\ Monitor!Observe(n, q)
    BY <1>1, <1>4 DEF Monitor!StopTimer
  <2>2. q \in Principals
    BY <1>1, <1>4 DEF Monitor!StopTimer
  <2> HIDE DEF q
  <2> QED
    BY <2>1, <2>2, Observed DEF MonitorInv
<1>5. ASSUME NEW n \in Names, Monitor!Reset(n)
      PROVE  MonitorInv'
  <2> DEFINE m == [metrics EXCEPT ![n] = <<>>]
             of(p) == Cardinality({i \in DOMAIN metrics[n] : metrics[n][i] = p})
  <2>1. metrics' = m /\ UNCHANGED timers
        /\ counts' = [p \in Principals |-> IF counts[p] > Monitor!Of(n, p) THEN counts[p] - Monitor!Of(n, p) ELSE 0]
    BY <1>5 DEF Monitor!Reset
  <2>2. \A p : Monitor!Of(n, p) = of(p)
    BY MonitorCardinality DEF Monitor!Of
  <2>3. m \in Windows /\ \A p : /\ of(p) \in Nat
                                /\ Cardinality(SamplesIn(metrics, p)) = Cardinality(SamplesIn(m, p)) + of(p)
    <3>1. Replaced(metrics, n, <<>>, m)
      <4>1. <<>> \in Seq(Principals) /\ Len(<<>>) <= Retention
        BY MonitorAssumption
      <4> QED
        BY <1>1, <4>1, WindowFits
    <3>2. ASSUME NEW p
          PROVE  /\ of(p) \in Nat
                 /\ Cardinality(SamplesIn(metrics, p)) = Cardinality(SamplesIn(m, p)) + of(p)
      <4> HIDE DEF m
      <4> QED
        BY <1>1, <3>1, WindowEmptied DEF Mine
    <3> HIDE DEF m, of
    <3> QED
      BY <3>1, <3>2 DEF Replaced
  <2> HIDE DEF m, of
  <2>4. \A p : Cardinality(SamplesIn(m, p)) \in Nat
    BY <2>3, SamplesAre
  <2>5. /\ counts' \in [Principals -> Nat]
        /\ \A p \in Principals : counts'[p] = Cardinality(SamplesIn(m, p))
    <3>1. \A p \in Principals : (IF counts[p] > of(p) THEN counts[p] - of(p) ELSE 0) = Cardinality(SamplesIn(m, p))
      BY <1>1, <2>3, <2>4
    <3> QED
      BY <2>1, <2>2, <2>4, <3>1
  <2> QED
    BY <1>1, <2>1, <2>3, <2>5 DEF MonitorInv
<1>6. CASE Monitor!ResetAll
  <2>1. /\ metrics' = [n \in Names |-> <<>>] /\ counts' = [p \in Principals |-> 0] /\ UNCHANGED timers
    BY <1>6 DEF Monitor!ResetAll
  <2>2. \A n \in Names : metrics'[n] = <<>> /\ metrics'[n] \in Seq(Principals) /\ Len(metrics'[n]) = 0
    BY <2>1
  <2>3. metrics' \in Windows
    <3>1. metrics' \in [Names -> Seq(Principals)]
      BY <2>1, <2>2
    <3> QED
      BY <2>2, <3>1, MonitorAssumption DEF Windows
  <2>4. ASSUME NEW p
        PROVE  Cardinality(SamplesIn(metrics', p)) = 0
    <3>1. SamplesIn(metrics', p) = {}
      BY <2>2, <2>3, SamplesAre
    <3> QED
      BY <3>1, FS_EmptySet
  <2> QED
    BY <1>1, <2>1, <2>3, <2>4 DEF MonitorInv
<1>7. CASE UNCHANGED monitorVars
  BY <1>1, <1>7 DEF MonitorInv, monitorVars
<1> QED
  BY <1>2, <1>3, <1>4, <1>5, <1>6, <1>7 DEF Monitor!Next

\* The summary attributes every retained sample to its principal and no other,
\* through evictions, nested timers and resets (_record_observation, reset,
\* get_observability_summary).
THEOREM SamplesAreCounted == CommandsSpec => []SamplesCounted
<1>1. CommandsInit => MonitorInv
  BY MonitorStart DEF CommandsInit
<1>2. MonitorInv /\ [CommandsNext]_commandsVars => MonitorInv'
  BY PartSteps, MonitorKept
<1>3. MonitorInv => SamplesCounted
  BY MonitorCardinality
     DEF MonitorInv, SamplesIn, SamplesCounted, Monitor!SamplesCounted, Monitor!Retained, Monitor!Samples
<1> QED
  BY <1>1, <1>2, <1>3, PTL DEF CommandsSpec

(***************************************************************************)
(* The next run of a cron expression.                                      *)
(***************************************************************************)

\* A set of numbers that holds one of at most n has a least.
LEMMA LeastExists ==
  ASSUME NEW S \in SUBSET Nat, NEW x \in S
  PROVE  \E m \in S : \A y \in S : m <= y
\* As many numbers are below all of S as there are below its least.
<1> DEFINE Below == {i \in 0 .. x : \A y \in S : i < y}
           k == Cardinality(Below)
<1>1. x \in Nat /\ Below \subseteq 0 .. x /\ x \notin Below
  OBVIOUS
<1>2. \A i \in Below : 0 .. i \subseteq Below
  OBVIOUS
<1>3. \A i \in 0 .. x : i \notin Below => \E y \in S : y <= i
  OBVIOUS
<1>4. \A i \in Below : \A y \in S : i < y
  OBVIOUS
<1> HIDE DEF Below
<1>5. IsFiniteSet(Below) /\ k \in Nat /\ k <= x + 1
  <2>1. IsFiniteSet(0 .. x) /\ Cardinality(0 .. x) = x + 1
    BY <1>1, FS_Interval
  <2>2. IsFiniteSet(Below) /\ k <= Cardinality(0 .. x)
    BY <1>1, <2>1, FS_Subset
  <2> QED
    BY <2>1, <2>2, FS_CardinalityType
<1>6. \A i \in Below : i < k
  <2> SUFFICES ASSUME NEW i \in Below
               PROVE  i < k
    OBVIOUS
  <2>1. i \in Nat /\ 0 .. i \in SUBSET Below
    BY <1>1, <1>2
  <2>2. Cardinality(0 .. i) = i + 1
    BY <2>1, FS_Interval
  <2>3. Cardinality(0 .. i) <= k
    BY <1>5, <2>1, FS_Subset
  <2> QED
    BY <1>5, <2>1, <2>2, <2>3
<1> HIDE DEF k
<1>7. Below = 0 .. k - 1
  <2>1. IsFiniteSet(0 .. k - 1) /\ Cardinality(0 .. k - 1) = k
    BY <1>5, FS_Interval
  <2>2. Below \in SUBSET (0 .. k - 1)
    BY <1>1, <1>5, <1>6
  <2> QED
    BY <2>1, <2>2, FS_Subset DEF k
<1>8. k <= x
  BY <1>1, <1>5, <1>7
<1>9. k \notin Below /\ k \in 0 .. x
  BY <1>5, <1>7, <1>8
<1>10. PICK m \in S : m <= k
  BY <1>3, <1>9
<1>11. \A y \in S : k <= y
  BY <1>4, <1>5, <1>7
<1> QED
  BY <1>5, <1>10, <1>11

LEMMA FirstIsLeast ==
  ASSUME NEW V \in SUBSET Nat, V # {}
  PROVE  Cron!First(V) \in V /\ \A v \in V : Cron!First(V) <= v
BY LeastExists DEF Cron!First

\* The minutes are numbered in the order of their dates.
LEMMA MinutesAre ==
  /\ Cron!End \in Nat \ {0}
  /\ \A t : t \in Cron!Minutes <=> t \in Nat /\ t < Cron!End
  /\ \A t \in Cron!Minutes :
       /\ Calendar[t].year \in Nat /\ Calendar[t].month \in Nat /\ Calendar[t].day \in Nat \ {0}
       /\ Calendar[t].hour \in Nat /\ Calendar[t].minute \in Nat
<1>1. Cron!End \in Nat \ {0} /\ Cron!Minutes = 0 .. Cron!End - 1
  BY CalendarAssumption DEF Cron!Minutes
<1>2. \A t \in Cron!Minutes :
       /\ Calendar[t].year \in Nat /\ Calendar[t].month \in Nat /\ Calendar[t].day \in Nat \ {0}
       /\ Calendar[t].hour \in Nat /\ Calendar[t].minute \in Nat
  BY CalendarAssumption DEF Cron!Minutes
<1> QED
  BY <1>1, <1>2

LEMMA InOrder ==
  ASSUME NEW s \in Cron!Minutes, NEW t \in Cron!Minutes
  PROVE  s < t <=> Earlier(Calendar[s], Calendar[t])
<1>1. \A a, b \in Cron!Minutes : a < b => Earlier(Calendar[a], Calendar[b])
  BY CalendarAssumption DEF Cron!Minutes
<1>2. s \in Nat /\ t \in Nat
  BY MinutesAre
<1>3. ASSUME Earlier(Calendar[s], Calendar[t])
      PROVE  s # t /\ ~Earlier(Calendar[t], Calendar[s])
  BY <1>3, MinutesAre DEF Earlier
<1> QED
  BY <1>1, <1>2, <1>3

\* What datetime's arithmetic can rely on: of days, of hours, ...
LEMMA WholeHour ==
  ASSUME NEW s \in Cron!Minutes, NEW t \in Cron!Minutes
  PROVE  LET u == s - Calendar[s].minute + Calendar[t].minute IN
         /\ u \in Cron!Minutes /\ Cron!SameDay(s, u)
         /\ Calendar[u].hour = Calendar[s].hour /\ Calendar[u].minute = Calendar[t].minute
         /\ Calendar[u].weekday = Calendar[s].weekday
<1> DEFINE u == s - Calendar[s].minute + Calendar[t].minute
<1>1. /\ u \in Cron!Minutes /\ Cron!SameDay(s, u)
      /\ Calendar[u].hour = Calendar[s].hour /\ Calendar[u].minute = Calendar[t].minute
  BY CalendarAssumption DEF Cron!Minutes
<1> HIDE DEF u
<1>2. Calendar[s].weekday = Calendar[u].weekday
  BY <1>1, CalendarAssumption DEF Cron!Minutes
<1> QED
  BY <1>1, <1>2 DEF u

LEMMA WholeDay ==
  ASSUME NEW s \in Cron!Minutes, NEW t \in Cron!Minutes
  PROVE  /\ Cron!SameDay(s, t) => Calendar[s].weekday = Calendar[t].weekday
         /\ \E u \in Cron!Minutes :
              Cron!SameDay(s, u) /\ Calendar[u].hour = Calendar[t].hour /\ Calendar[u].minute = 0
BY CalendarAssumption DEF Cron!Minutes

\* ... and of years.
LEMMA WholeYear ==
  ASSUME NEW s \in Cron!Minutes, NEW t \in Cron!Minutes
  PROVE  /\ \E u \in Cron!Minutes :
              /\ Calendar[u].year = Calendar[s].year /\ Calendar[u].month = Calendar[t].month
              /\ Calendar[u].day = 1 /\ Calendar[u].hour = 0 /\ Calendar[u].minute = 0
         /\ Calendar[s].year < Calendar[t].year =>
              \E u \in Cron!Minutes : Calendar[u].year = Calendar[s].year + 1
<1>1. \E u \in Cron!Minutes :
        /\ Calendar[u].year = Calendar[s].year /\ Calendar[u].month = Calendar[t].month
        /\ Calendar[u].day = 1 /\ Calendar[u].hour = 0 /\ Calendar[u].minute = 0
  <2>1. \A a, b \in DOMAIN Calendar : \E u \in DOMAIN Calendar : LET c == Calendar[u] IN
           /\ c.year = Calendar[a].year /\ c.month = Calendar[b].month /\ c.day = 1
           /\ c.hour = 0 /\ c.minute = 0
    BY CalendarAssumption, Zenon
  <2> QED
    BY <2>1 DEF Cron!Minutes
<1>2. Calendar[s].year < Calendar[t].year =>
        \E u \in Cron!Minutes : Calendar[u].year = Calendar[s].year + 1
  BY CalendarAssumption DEF Cron!Minutes
<1> QED
  BY <1>1, <1>2

\* A field's values, and the first of them from a value on.
LEMMA FieldValues ==
  ASSUME NEW field \in {"minute", "hour", "month"},
         cron[field] \subseteq Cron!Values(field), cron[field] # {}
  PROVE  /\ cron[field] \subseteq Nat
         /\ Cron!First(cron[field]) \in cron[field]
         /\ \A v \in cron[field] : Cron!First(cron[field]) <= v
         /\ \A value \in Nat : LET later == Cron!From(field, value) IN
              /\ \A v : v \in later <=> v \in cron[field] /\ v >= value
              /\ later # {} =>
                   /\ Cron!First(later) \in cron[field] /\ Cron!First(later) >= value
                   /\ \A v \in cron[field] : v >= value => Cron!First(later) <= v
<1>1. cron[field] \subseteq Nat
  BY MinutesAre DEF Cron!Values
<1>2. ASSUME NEW value \in Nat
      PROVE  LET later == Cron!From(field, value) IN
              /\ \A v : v \in later <=> v \in cron[field] /\ v >= value
              /\ later # {} =>
                   /\ Cron!First(later) \in cron[field] /\ Cron!First(later) >= value
                   /\ \A v \in cron[field] : v >= value => Cron!First(later) <= v
  <2> DEFINE later == Cron!From(field, value)
  <2>1. \A v : v \in later <=> v \in cron[field] /\ v >= value
    BY DEF Cron!From
  <2>2. later \in SUBSET Nat
    BY <1>1, <2>1
  <2> HIDE DEF later
  <2>3. later # {} => Cron!First(later) \in later /\ \A v \in later : Cron!First(later) <= v
    BY <2>2, FirstIsLeast
  <2>4. /\ \A v : v \in later <=> v \in cron[field] /\ v >= value
        /\ later # {} =>
             /\ Cron!First(later) \in cron[field] /\ Cron!First(later) >= value
             /\ \A v \in cron[field] : v >= value => Cron!First(later) <= v
    BY <2>1, <2>3
  <2> QED
    BY <2>4 DEF later
<1> QED
  BY <1>1, <1>2, FirstIsLeast

\* Where the search is: past the given minute, and past none that matches.
CronInv ==
  /\ after \in Nat /\ at \in Nat /\ at > after
  /\ \A field \in Cron!Fields : cron[field] # {} /\ cron[field] \subseteq Cron!Values(field)
  /\ state = "found" => Cron!Matched(at)
  /\ \A t \in Cron!Minutes : after < t /\ t < at => ~Cron!Matched(t)

LEMMA MatchedFields ==
  ASSUME NEW t
  PROVE  Cron!Matched(t) <=>
           /\ Calendar[t].minute \in cron["minute"] /\ Calendar[t].hour \in cron["hour"]
           /\ Calendar[t].day \in cron["day"] /\ Calendar[t].month \in cron["month"]
           /\ Calendar[t].weekday \in cron["weekday"]
BY DEF Cron!Matched, Cron!Fields

\* The search goes on where nothing that matches is skipped.
LEMMA Turned ==
  ASSUME CronInv, Cron!Searching, ~Cron!Matched(at), NEW u \in Nat, u > at, Cron!Turn(u),
         \A s \in Cron!Minutes : at < s /\ s < u => ~Cron!Matched(s)
  PROVE  CronInv'
<1>1. at' = u /\ UNCHANGED <<cron, after, state>> /\ state = "search"
  BY DEF Cron!Turn, Cron!Searching
<1>2. ASSUME NEW t \in Cron!Minutes, after < t, t < u
      PROVE  ~Cron!Matched(t)
  <2>1. t < at \/ t = at \/ at < t
    BY MinutesAre DEF CronInv
  <2> QED
    BY <1>2, <2>1 DEF CronInv
<1>3. after \in Nat /\ u > after
  BY DEF CronInv
<1> QED
  BY <1>1, <1>2, <1>3 DEF CronInv, Cron!Matched

\* The next day at an hour: what is skipped is of this day, or before that hour.
LEMMA NextDayIs ==
  ASSUME at \in Cron!Minutes, NEW h \in Cron!Values("hour")
  PROVE  /\ Cron!NextDay(h) \in Nat /\ Cron!NextDay(h) > at
         /\ \A s \in Cron!Minutes : at < s /\ s < Cron!NextDay(h) =>
              Cron!SameDay(at, s) \/ Calendar[s].hour < h
<1> DEFINE later == {t \in Cron!Minutes : /\ t > at /\ ~Cron!SameDay(at, t)
                                          /\ Calendar[t].hour = h /\ Calendar[t].minute = 0}
<1>1. Cron!NextDay(h) = IF later = {} THEN Cron!End ELSE Cron!First(later)
  BY DEF Cron!NextDay
<1>2. later # {} => Cron!First(later) \in later /\ \A v \in later : Cron!First(later) <= v
  <2>1. later \in SUBSET Nat
    BY MinutesAre
  <2> HIDE DEF later
  <2> QED
    BY <2>1, FirstIsLeast
<1>3. ASSUME NEW s \in Cron!Minutes, at < s, ~Cron!SameDay(at, s), Calendar[s].hour >= h
      PROVE  \E u \in later : u <= s
  <2>1. PICK t \in Cron!Minutes : Calendar[t].hour = h
    BY DEF Cron!Values
  <2>2. PICK u \in Cron!Minutes : Cron!SameDay(s, u) /\ Calendar[u].hour = h /\ Calendar[u].minute = 0
    BY <2>1, WholeDay
  <2>3. Earlier(Calendar[at], Calendar[s])
    BY <1>3, InOrder
  <2>4. Earlier(Calendar[at], Calendar[u]) /\ ~Cron!SameDay(at, u)
    BY <1>3, <2>2, <2>3 DEF Earlier, Cron!SameDay
  <2>5. ~Earlier(Calendar[s], Calendar[u])
    <3>1. /\ Calendar[s].hour \in Nat /\ Calendar[s].minute \in Nat
          /\ Calendar[s].year \in Nat /\ Calendar[s].month \in Nat /\ Calendar[s].day \in Nat
      BY MinutesAre
    <3>2. h \in Nat
      BY <2>1, MinutesAre
    <3> QED
      BY <1>3, <2>2, <3>1, <3>2 DEF Earlier, Cron!SameDay
  <2>6. at < u /\ ~(s < u)
    BY <2>4, <2>5, InOrder
  <2>7. u \in later
    BY <2>2, <2>4, <2>6, MinutesAre
  <2> HIDE DEF later
  <2> QED
    BY <2>6, <2>7, MinutesAre
<1>4. \A u \in later : u \in Nat /\ u > at
  BY MinutesAre
<1>5. Cron!End \in Nat /\ Cron!End > at /\ \A s \in Cron!Minutes : s \in Nat /\ Calendar[s].hour \in Nat
  BY MinutesAre
<1>6. h \in Nat
  BY MinutesAre DEF Cron!Values
<1> HIDE DEF later
<1> QED
  BY <1>1, <1>2, <1>3, <1>4, <1>5, <1>6, MinutesAre

\* An hour of this day.
LEMMA ThisDayIs ==
  ASSUME at \in Cron!Minutes, NEW h \in Cron!Values("hour"), h > Calendar[at].hour
  PROVE  /\ Cron!ThisDay(h) \in Nat /\ Cron!ThisDay(h) > at
         /\ \A s \in Cron!Minutes : at < s /\ s < Cron!ThisDay(h) =>
              Cron!SameDay(at, s) /\ Calendar[at].hour <= Calendar[s].hour /\ Calendar[s].hour < h
<1> DEFINE there == {t \in Cron!Minutes : /\ Cron!SameDay(at, t) /\ Calendar[t].hour = h
                                          /\ Calendar[t].minute = 0}
           u == Cron!ThisDay(h)
<1>1. PICK t \in Cron!Minutes : Calendar[t].hour = h
  BY DEF Cron!Values
<1>2. there # {}
  <2>1. \E v \in Cron!Minutes :
          Cron!SameDay(at, v) /\ Calendar[v].hour = Calendar[t].hour /\ Calendar[v].minute = 0
    BY WholeDay
  <2> QED
    BY <1>1, <2>1
<1>3. u \in there
  <2> DEFINE dated == {v \in Cron!Minutes : LET c == Calendar[v] IN
                        /\ c.year = Calendar[at].year /\ c.month = Calendar[at].month
                        /\ c.day = Calendar[at].day /\ c.hour = h /\ c.minute = 0}
  <2>1. there = dated
    BY DEF Cron!SameDay
  <2>2. u = IF dated = {} THEN Cron!End ELSE CHOOSE v \in dated : TRUE
    BY DEF Cron!ThisDay, Cron!Minute
  <2> HIDE DEF there, u, dated
  <2> QED
    BY <1>2, <2>1, <2>2
<1>4. u \in Cron!Minutes /\ Cron!SameDay(at, u) /\ Calendar[u].hour = h /\ Calendar[u].minute = 0
  BY <1>3
<1> HIDE DEF u, there
<1>5. h \in Nat
  BY <1>1, MinutesAre
<1>6. at < u
  BY <1>4, InOrder DEF Earlier, Cron!SameDay
<1>7. ASSUME NEW s \in Cron!Minutes, at < s, s < u
      PROVE  Cron!SameDay(at, s) /\ Calendar[at].hour <= Calendar[s].hour /\ Calendar[s].hour < h
  <2>1. Earlier(Calendar[at], Calendar[s]) /\ Earlier(Calendar[s], Calendar[u])
    BY <1>4, <1>7, InOrder
  <2>2. /\ Calendar[s].hour \in Nat /\ Calendar[s].minute \in Nat
        /\ Calendar[s].year \in Nat /\ Calendar[s].month \in Nat /\ Calendar[s].day \in Nat
        /\ Calendar[at].hour \in Nat /\ Calendar[at].minute \in Nat
        /\ Calendar[at].year \in Nat /\ Calendar[at].month \in Nat /\ Calendar[at].day \in Nat
    BY MinutesAre
  <2> QED
    BY <1>4, <1>5, <2>1, <2>2 DEF Earlier, Cron!SameDay
<1> QED
  BY <1>4, <1>6, <1>7, MinutesAre DEF u

\* The first day of a month, of a year.
LEMMA MonthIs ==
  ASSUME NEW year \in Nat, NEW month \in Cron!Values("month"), NEW r \in Cron!Minutes,
         Calendar[r].year = year
  PROVE  LET u == Cron!Minute(year, month, 1, 0) IN
         /\ u \in Cron!Minutes /\ Calendar[u].year = year /\ Calendar[u].month = month
         /\ \A s \in Cron!Minutes : s < u =>
              Calendar[s].year < year \/ (Calendar[s].year = year /\ Calendar[s].month < month)
<1> DEFINE there == {v \in Cron!Minutes : LET c == Calendar[v] IN
                   /\ c.year = year /\ c.month = month
                   /\ c.day = 1 /\ c.hour = 0 /\ c.minute = 0}
           u == Cron!Minute(year, month, 1, 0)
<1>1. PICK t \in Cron!Minutes : Calendar[t].month = month
  BY DEF Cron!Values
<1>2. there # {}
  <2>1. \E v \in Cron!Minutes :
          /\ Calendar[v].year = Calendar[r].year /\ Calendar[v].month = Calendar[t].month
          /\ Calendar[v].day = 1 /\ Calendar[v].hour = 0 /\ Calendar[v].minute = 0
    BY WholeYear
  <2> QED
    BY <1>1, <2>1
<1>3. u \in there
  <2>1. u = IF there = {} THEN Cron!End ELSE CHOOSE v \in there : TRUE
    BY DEF Cron!Minute
  <2> HIDE DEF there, u
  <2> QED
    BY <1>2, <2>1
<1>4. /\ u \in Cron!Minutes /\ Calendar[u].year = year /\ Calendar[u].month = month
      /\ Calendar[u].day = 1 /\ Calendar[u].hour = 0 /\ Calendar[u].minute = 0
  BY <1>3
<1> HIDE DEF u, there
<1>5. ASSUME NEW s \in Cron!Minutes, s < u
      PROVE  Calendar[s].year < year \/ (Calendar[s].year = year /\ Calendar[s].month < month)
  <2>1. Earlier(Calendar[s], Calendar[u])
    BY <1>4, <1>5, InOrder
  <2>2. /\ Calendar[s].hour \in Nat /\ Calendar[s].minute \in Nat
        /\ Calendar[s].year \in Nat /\ Calendar[s].month \in Nat /\ Calendar[s].day \in Nat \ {0}
    BY MinutesAre
  <2> QED
    BY <1>4, <2>1, <2>2 DEF Earlier
<1> QED
  BY <1>4, <1>5 DEF u

\* One turn of the loop, from a minute that is not the end.
LEMMA CronJumps ==
  ASSUME CronInv, Cron!JumpMonth \/ Cron!JumpDay \/ Cron!JumpHour \/ Cron!LeaveHour
  PROVE  CronInv'
<1> DEFINE c == Calendar[at]
<1>1. Cron!Searching /\ at \in Cron!Minutes
  BY MinutesAre DEF CronInv, Cron!Searching, Cron!JumpMonth, Cron!JumpDay, Cron!JumpHour, Cron!LeaveHour
<1>2. /\ c.year \in Nat /\ c.month \in Nat /\ c.day \in Nat \ {0} /\ c.hour \in Nat /\ c.minute \in Nat
      /\ at \in Nat /\ Cron!End \in Nat /\ at < Cron!End
      /\ \A s \in Cron!Minutes : s \in Nat /\ s < Cron!End
  BY <1>1, MinutesAre
<1>3. /\ cron["month"] \subseteq Cron!Values("month") /\ cron["month"] # {}
      /\ cron["hour"] \subseteq Cron!Values("hour") /\ cron["hour"] # {}
      /\ cron["minute"] \subseteq Cron!Values("minute") /\ cron["minute"] # {}
  BY DEF CronInv, Cron!Fields
<1>4. ASSUME NEW s \in Cron!Minutes, at < s, Cron!SameDay(at, s)
      PROVE  /\ c.hour <= Calendar[s].hour /\ Calendar[s].hour \in Nat
             /\ Calendar[s].hour = c.hour =>
                  c.minute <= Calendar[s].minute /\ Calendar[s].minute \in Nat
  <2>1. Earlier(c, Calendar[s])
    BY <1>1, <1>4, InOrder
  <2>2. Calendar[s].hour \in Nat /\ Calendar[s].minute \in Nat
    BY MinutesAre
  <2>3. c.year = Calendar[s].year /\ c.month = Calendar[s].month /\ c.day = Calendar[s].day
    BY <1>4 DEF Cron!SameDay
  <2> QED
    BY <1>2, <2>1, <2>2, <2>3 DEF Earlier
<1> HIDE DEF c
<1>5. CASE Cron!JumpMonth
  <2> DEFINE later == Cron!From("month", c.month)
             first == Cron!First(cron["month"])
             u == IF later # {} THEN Cron!Minute(c.year, Cron!First(later), 1, 0)
                  ELSE Cron!Minute(c.year + 1, first, 1, 0)
  <2>1. c.month \notin cron["month"] /\ Cron!Turn(u) /\ ~Cron!Matched(at)
    BY <1>5, MatchedFields DEF c, Cron!JumpMonth, Cron!Matches
  <2>2. /\ first \in cron["month"] /\ \A v \in cron["month"] : first <= v
        /\ cron["month"] \subseteq Nat
        /\ \A v : v \in later <=> v \in cron["month"] /\ v >= c.month
        /\ later # {} =>
             /\ Cron!First(later) \in cron["month"] /\ Cron!First(later) >= c.month
             /\ \A v \in cron["month"] : v >= c.month => Cron!First(later) <= v
    BY <1>2, <1>3, FieldValues
  <2>3. ASSUME NEW s \in Cron!Minutes, at < s
        PROVE  /\ Calendar[s].year \in Nat /\ Calendar[s].month \in Nat
               /\ \/ c.year < Calendar[s].year
                  \/ c.year = Calendar[s].year /\ c.month <= Calendar[s].month
    <3>1. Earlier(c, Calendar[s])
      BY <1>1, <2>3, InOrder DEF c
    <3>2. Calendar[s].year \in Nat /\ Calendar[s].month \in Nat
      BY MinutesAre
    <3> QED
      BY <1>2, <3>1, <3>2 DEF Earlier
  <2> HIDE DEF later, first
  <2>4. CASE later # {}
    <3> DEFINE month == Cron!First(later)
    <3>1. month \in Cron!Values("month") /\ month \in Nat /\ month > c.month
      BY <1>2, <1>3, <2>1, <2>2, <2>4
    <3>2. u = Cron!Minute(c.year, month, 1, 0)
      BY <2>4
    <3>3. /\ u \in Cron!Minutes /\ Calendar[u].year = c.year /\ Calendar[u].month = month
          /\ \A s \in Cron!Minutes : s < u =>
               Calendar[s].year < c.year \/ (Calendar[s].year = c.year /\ Calendar[s].month < month)
      BY <1>1, <1>2, <3>1, <3>2, MonthIs DEF c
    <3> HIDE DEF u, month
    <3>4. at < u
      BY <1>1, <1>2, <3>1, <3>3, InOrder DEF c, Earlier
    <3>5. ASSUME NEW s \in Cron!Minutes, at < s, s < u
          PROVE  ~Cron!Matched(s)
      <4>1. Calendar[s].month < month /\ c.month <= Calendar[s].month /\ Calendar[s].month \in Nat
        BY <1>2, <2>3, <3>3, <3>5
      <4>2. Calendar[s].month \notin cron["month"]
        BY <1>2, <2>2, <2>4, <3>1, <4>1 DEF month
      <4> QED
        BY <4>2, MatchedFields
    <3> QED
      BY <1>1, <1>2, <2>1, <3>3, <3>4, <3>5, Turned
  <2>5. CASE later = {}
    <3>1. first \in Cron!Values("month") /\ first \in Nat
      BY <1>3, <2>2
    <3>2. u = Cron!Minute(c.year + 1, first, 1, 0)
      BY <2>5
    <3>3. CASE \E r \in Cron!Minutes : Calendar[r].year = c.year + 1
      <4>1. /\ u \in Cron!Minutes /\ Calendar[u].year = c.year + 1 /\ Calendar[u].month = first
            /\ \A s \in Cron!Minutes : s < u =>
                 \/ Calendar[s].year < c.year + 1
                 \/ Calendar[s].year = c.year + 1 /\ Calendar[s].month < first
        <5>1. c.year + 1 \in Nat
          BY <1>2
        <5> HIDE DEF u
        <5> QED
          BY <3>1, <3>2, <3>3, <5>1, MonthIs
      <4> HIDE DEF u
      <4>2. at < u
        BY <1>1, <1>2, <4>1, InOrder DEF c, Earlier
      <4>3. ASSUME NEW s \in Cron!Minutes, at < s, s < u
            PROVE  ~Cron!Matched(s)
        <5>1. /\ Calendar[s].month \in Nat /\ Calendar[s].year \in Nat
              /\ Calendar[s].month < first \/ c.month <= Calendar[s].month
          BY <1>2, <2>3, <4>1, <4>3
        <5>2. Calendar[s].month \notin cron["month"]
          BY <1>2, <2>2, <2>5, <3>1, <5>1
        <5> QED
          BY <5>2, MatchedFields
      <4> QED
        BY <1>1, <1>2, <2>1, <4>1, <4>2, <4>3, Turned
    <3>4. CASE ~ \E r \in Cron!Minutes : Calendar[r].year = c.year + 1
      <4>1. {t \in Cron!Minutes : LET d == Calendar[t] IN
               /\ d.year = c.year + 1 /\ d.month = first /\ d.day = 1
               /\ d.hour = 0 /\ d.minute = 0} = {}
        BY <3>4
      <4>2. u = Cron!End
        BY <3>2, <4>1 DEF Cron!Minute
      <4> HIDE DEF u
      <4>3. ASSUME NEW s \in Cron!Minutes, at < s
            PROVE  ~Cron!Matched(s)
        <5>1. ~(c.year < Calendar[s].year)
          BY <1>1, <3>4, WholeYear DEF c
        <5>2. c.month <= Calendar[s].month /\ Calendar[s].month \in Nat
          BY <1>2, <2>3, <4>3, <5>1
        <5>3. Calendar[s].month \notin cron["month"]
          BY <2>2, <2>5, <5>2
        <5> QED
          BY <5>3, MatchedFields
      <4> QED
        BY <1>1, <1>2, <2>1, <4>2, <4>3, Turned
    <3> QED
      BY <3>3, <3>4
  <2> QED
    BY <2>4, <2>5
<1>6. CASE Cron!JumpDay
  <2> DEFINE u == Cron!NextDay(0)
  <2>1. /\ c.day \notin cron["day"] \/ c.weekday \notin cron["weekday"]
        /\ Cron!Turn(u) /\ ~Cron!Matched(at)
    BY <1>6, MatchedFields DEF c, Cron!JumpDay, Cron!Matches
  <2>2. 0 \in Cron!Values("hour")
    <3>1. PICK v \in Cron!Minutes : Calendar[v].hour = 0
      BY <1>1, WholeYear
    <3> QED
      BY <3>1 DEF Cron!Values
  <2>3. /\ u \in Nat /\ u > at
        /\ \A s \in Cron!Minutes : at < s /\ s < u => Cron!SameDay(at, s) \/ Calendar[s].hour < 0
    BY <1>1, <2>2, NextDayIs
  <2> HIDE DEF u
  <2>4. ASSUME NEW s \in Cron!Minutes, at < s, s < u
        PROVE  ~Cron!Matched(s)
    <3>1. Cron!SameDay(at, s)
      <4>1. Calendar[s].hour \in Nat
        BY MinutesAre
      <4> QED
        BY <2>3, <2>4, <4>1
    <3>2. Calendar[s].day = c.day /\ Calendar[s].weekday = c.weekday
      BY <1>1, <3>1, WholeDay DEF c, Cron!SameDay
    <3> QED
      BY <2>1, <3>2, MatchedFields
  <2> QED
    BY <1>1, <2>1, <2>3, <2>4, Turned
<1>7. ASSUME NEW low \in Nat, low \in {c.hour, c.hour + 1}, ~Cron!Matched(at),
             Cron!Turn(IF Cron!From("hour", low) # {} THEN Cron!ThisDay(Cron!First(Cron!From("hour", low)))
                       ELSE Cron!NextDay(Cron!First(cron["hour"]))),
             low = c.hour => c.hour \notin cron["hour"],
             \A s \in Cron!Minutes : at < s /\ Cron!SameDay(at, s) /\ Calendar[s].hour < low => ~Cron!Matched(s)
      PROVE  CronInv'
  <2> DEFINE later == Cron!From("hour", low)
             first == Cron!First(cron["hour"])
             u == IF later # {} THEN Cron!ThisDay(Cron!First(later)) ELSE Cron!NextDay(first)
  <2>1. Cron!Turn(u)
    BY <1>7
  <2>2. /\ first \in cron["hour"] /\ \A v \in cron["hour"] : first <= v
        /\ cron["hour"] \subseteq Nat
        /\ \A v : v \in later <=> v \in cron["hour"] /\ v >= low
        /\ later # {} =>
             /\ Cron!First(later) \in cron["hour"] /\ Cron!First(later) >= low
             /\ \A v \in cron["hour"] : v >= low => Cron!First(later) <= v
    BY <1>3, <1>7, FieldValues
  <2> HIDE DEF later, first
  <2>3. CASE later # {}
    <3> DEFINE h == Cron!First(later)
    <3>1. h \in Cron!Values("hour") /\ h \in Nat /\ h > c.hour
      BY <1>2, <1>3, <1>7, <2>2, <2>3
    <3>2. u = Cron!ThisDay(h)
      BY <2>3
    <3> HIDE DEF h
    <3>3. /\ u \in Nat /\ u > at
          /\ \A s \in Cron!Minutes : at < s /\ s < u => Cron!SameDay(at, s) /\ Calendar[s].hour < h
      <4> HIDE DEF u
      <4> QED
        BY <1>1, <3>1, <3>2, ThisDayIs DEF c
    <3> HIDE DEF u
    <3>4. ASSUME NEW s \in Cron!Minutes, at < s, s < u, Cron!Matched(s)
          PROVE  FALSE
      <4>1. Calendar[s].hour \in cron["hour"]
        BY <3>4, MatchedFields
      <4>2. Cron!SameDay(at, s) /\ Calendar[s].hour < h
        BY <3>3, <3>4
      <4>3. Calendar[s].hour < low
        BY <1>7, <2>2, <2>3, <3>1, <4>1, <4>2 DEF h
      <4> QED
        BY <1>7, <3>4, <4>2, <4>3
    <3> QED
      BY <1>1, <1>7, <2>1, <3>3, <3>4, Turned
  <2>4. CASE later = {}
    <3>1. first \in Cron!Values("hour") /\ u = Cron!NextDay(first)
      BY <1>3, <2>2, <2>4
    <3>2. /\ u \in Nat /\ u > at
          /\ \A s \in Cron!Minutes : at < s /\ s < u => Cron!SameDay(at, s) \/ Calendar[s].hour < first
      <4> HIDE DEF u
      <4> QED
        BY <1>1, <3>1, NextDayIs
    <3> HIDE DEF u
    <3>3. ASSUME NEW s \in Cron!Minutes, at < s, s < u, Cron!Matched(s)
          PROVE  FALSE
      <4>1. Calendar[s].hour \in cron["hour"] /\ Calendar[s].hour \in Nat
        BY <2>2, <3>3, MatchedFields
      <4>2. Cron!SameDay(at, s)
        <5>1. first \in Nat /\ first <= Calendar[s].hour
          BY <2>2, <4>1
        <5> QED
          BY <3>2, <3>3, <4>1, <5>1
      <4>3. Calendar[s].hour < low
        BY <1>7, <2>2, <2>4, <4>1
      <4> QED
        BY <1>7, <3>3, <4>2, <4>3
    <3> QED
      BY <1>1, <1>7, <2>1, <3>2, <3>3, Turned
  <2> QED
    BY <2>3, <2>4
<1>8. CASE Cron!JumpHour
  <2>1. c.hour \notin cron["hour"] /\ ~Cron!Matched(at)
    BY <1>8, MatchedFields DEF c, Cron!JumpHour, Cron!Matches
  <2>2. Cron!Turn(IF Cron!From("hour", c.hour) # {} THEN Cron!ThisDay(Cron!First(Cron!From("hour", c.hour)))
                  ELSE Cron!NextDay(Cron!First(cron["hour"])))
    BY <1>8 DEF c, Cron!JumpHour
  <2>3. ASSUME NEW s \in Cron!Minutes, at < s, Cron!SameDay(at, s), Calendar[s].hour < c.hour
        PROVE  ~Cron!Matched(s)
    BY <1>2, <1>4, <2>3
  <2> QED
    BY <1>2, <1>7, <2>1, <2>2, <2>3
<1>9. CASE Cron!LeaveHour
  <2> DEFINE low == c.hour + 1
  <2>1. Cron!From("minute", c.minute) = {}
    BY <1>9 DEF c, Cron!LeaveHour
  <2>2. Cron!Turn(IF Cron!From("hour", low) # {} THEN Cron!ThisDay(Cron!First(Cron!From("hour", low)))
                  ELSE Cron!NextDay(Cron!First(cron["hour"])))
    BY <1>9 DEF c, Cron!LeaveHour, Cron!LaterHours
  <2>3. \A v \in cron["minute"] : ~(v >= c.minute)
    BY <2>1 DEF Cron!From
  <2>4. ~Cron!Matched(at)
    <3>1. c.minute >= c.minute
      BY <1>2
    <3> QED
      BY <2>3, <3>1, MatchedFields DEF c
  <2>5. ASSUME NEW s \in Cron!Minutes, at < s, Cron!SameDay(at, s), Calendar[s].hour < low
        PROVE  ~Cron!Matched(s)
    <3>1. Calendar[s].minute \in Nat /\ Calendar[s].minute >= c.minute
      BY <1>2, <1>4, <2>5
    <3> QED
      BY <2>3, <3>1, MatchedFields
  <2>6. low \in Nat /\ low # c.hour
    BY <1>2
  <2> HIDE DEF low
  <2> QED
    BY <1>7, <2>2, <2>4, <2>5, <2>6 DEF low
<1> QED
  BY <1>5, <1>6, <1>8, <1>9

\* The search ends: at the first minute of the hour that matches, ...
LEMMA CronFinds ==
  ASSUME CronInv, Cron!Found
  PROVE  CronInv'
<1> DEFINE c == Calendar[at]
           later == Cron!From("minute", c.minute)
           m == Cron!First(later)
           u == at - c.minute + m
<1>1. /\ at \in Cron!Minutes /\ later # {} /\ at' = u /\ state' = "found"
      /\ UNCHANGED <<cron, after>>
      /\ c.month \in cron["month"] /\ c.day \in cron["day"] /\ c.weekday \in cron["weekday"]
      /\ c.hour \in cron["hour"]
  BY MinutesAre DEF CronInv, Cron!Found, Cron!Searching, Cron!OnDay, Cron!Matches
<1>2. c.hour \in Nat /\ c.minute \in Nat /\ at \in Nat
  BY <1>1, MinutesAre
<1>3. cron["minute"] \subseteq Cron!Values("minute") /\ cron["minute"] # {}
  BY DEF CronInv, Cron!Fields
<1>4. /\ m \in cron["minute"] /\ m \in Nat /\ m >= c.minute
      /\ \A v \in cron["minute"] : v >= c.minute => m <= v
  <2> HIDE DEF c
  <2> QED
    BY <1>1, <1>2, <1>3, FieldValues
<1>5. PICK t \in Cron!Minutes : Calendar[t].minute = m
  BY <1>3, <1>4 DEF Cron!Values
<1>6. /\ u \in Cron!Minutes /\ Cron!SameDay(at, u) /\ Calendar[u].hour = c.hour
      /\ Calendar[u].minute = m /\ Calendar[u].weekday = c.weekday
  BY <1>1, <1>5, WholeHour
<1> HIDE DEF later, m
<1>7. u >= at /\ u \in Nat
  BY <1>2, <1>4
<1> HIDE DEF u
<1>8. Calendar[u].day = c.day /\ Calendar[u].month = c.month
  BY <1>6 DEF Cron!SameDay
<1>9. Cron!Matched(u)
  BY <1>1, <1>4, <1>6, <1>8, MatchedFields
<1>10. ASSUME NEW s \in Cron!Minutes, after < s, s < u
       PROVE  ~Cron!Matched(s)
  <2>1. CASE s < at
    BY <1>10, <2>1 DEF CronInv
  <2>2. CASE ~(s < at)
    <3>1. Calendar[s].minute \in Nat /\ Calendar[s].minute >= c.minute /\ Calendar[s].minute < m
      <4>1. s = at \/ at < s
        BY <1>2, <2>2, MinutesAre
      <4>2. CASE s = at
        <5>1. Earlier(c, Calendar[u])
          BY <1>1, <1>6, <1>10, <4>2, InOrder
        <5> QED
          <6>1. c.year \in Nat /\ c.month \in Nat /\ c.day \in Nat
            BY <1>1, MinutesAre
          <6> QED
            BY <1>2, <1>4, <1>6, <4>2, <5>1, <6>1 DEF Earlier, Cron!SameDay
      <4>3. CASE at < s
        <5>1. Earlier(c, Calendar[s]) /\ Earlier(Calendar[s], Calendar[u])
          BY <1>1, <1>6, <1>10, <4>3, InOrder
        <5>2. /\ Calendar[s].year \in Nat /\ Calendar[s].month \in Nat /\ Calendar[s].day \in Nat
              /\ Calendar[s].hour \in Nat /\ Calendar[s].minute \in Nat
              /\ c.year \in Nat /\ c.month \in Nat /\ c.day \in Nat
          BY <1>1, MinutesAre
        <5> QED
          BY <1>2, <1>4, <1>6, <5>1, <5>2 DEF Earlier, Cron!SameDay
      <4> QED
        BY <4>1, <4>2, <4>3
    <3>2. Calendar[s].minute \notin cron["minute"]
      BY <1>2, <1>4, <3>1
    <3> QED
      BY <3>2, MatchedFields
  <2> QED
    BY <2>1, <2>2
<1>11. after \in Nat /\ u > after /\ \A field \in Cron!Fields : cron[field] # {} /\ cron[field] \subseteq Cron!Values(field)
  BY <1>2, <1>7 DEF CronInv
<1> QED
  BY <1>1, <1>7, <1>9, <1>10, <1>11 DEF CronInv, Cron!Matched

\* ... or behind the last minute there is.
LEMMA CronKept ==
  ASSUME CronInv, [Cron!Next]_cronVars
  PROVE  CronInv'
<1>1. CASE Cron!Raise
  BY <1>1 DEF CronInv, Cron!Raise, Cron!Matched
<1>2. CASE UNCHANGED cronVars
  BY <1>2 DEF CronInv, cronVars, Cron!Matched
<1> QED
  BY <1>1, <1>2, CronJumps, CronFinds DEF Cron!Next

LEMMA CronStart == CommandsInit => CronInv
<1> SUFFICES ASSUME CommandsInit
             PROVE  CronInv
  OBVIOUS
<1>1. after \in Nat /\ at = after + 1 /\ state = "search"
  <2>1. after \in Cycle /\ at = after + 1 /\ state = "search"
    <3>1. (CHOOSE t \in Cycle : TRUE) \in Cycle
      BY CalendarAssumption
    <3> QED
      BY <3>1 DEF CommandsInit, StillCron, Cron!Init
  <2>2. DOMAIN Calendar \subseteq Nat
    BY CalendarAssumption
  <2> QED
    BY <2>1, <2>2, CalendarAssumption
<1>2. ASSUME NEW field \in Cron!Fields
      PROVE  cron[field] # {} /\ cron[field] \subseteq Cron!Values(field)
  <2>1. CASE part = "cron"
    BY <2>1 DEF CommandsInit, Cron!Init, Cron!Cron, Cron!Fields
  <2>2. CASE part # "cron"
    <3>1. cron[field] = Cron!Values(field)
      BY <2>2 DEF CommandsInit, StillCron
    <3>2. 0 \in Cron!Minutes
      BY MinutesAre
    <3> QED
      BY <3>1, <3>2 DEF Cron!Values
  <2> QED
    BY <2>1, <2>2
<1>3. \A t \in Cron!Minutes : ~(after < t /\ t < at)
  BY <1>1, MinutesAre
<1> QED
  BY <1>1, <1>2, <1>3 DEF CronInv

\* The run an expression names next is the first minute after the given one that
\* all five fields match, whatever the months, and a search is given up only when
\* the calendar has none left (CronExpression.next_run).
THEOREM NextRunIsFirst == CommandsSpec => []NextIsFirst
<1>1. CronInv => NextIsFirst
  BY MinutesAre DEF CronInv, NextIsFirst, Cron!NextIsFirst
<1>2. CronInv /\ [CommandsNext]_commandsVars => CronInv'
  BY PartSteps, CronKept
<1> QED
  BY <1>1, <1>2, CronStart, PTL DEF CommandsSpec

\* A behaviour of Commands is, seen through the variables of any of its modules, a
\* behaviour of that module: what the modules promise, Commands keeps.
THEOREM CommandsImplements ==
  CommandsSpec => /\ Spec /\ Answers!Spec /\ Skill!Spec /\ Hybrid!Spec
                  /\ Mcp!Spec /\ Monitor!Spec /\ Cron!Spec
<1>1. CommandsInit => /\ Init /\ Answers!Init /\ Skill!Init /\ Hybrid!Init
                      /\ Mcp!Init /\ Monitor!Init /\ Cron!Init
  <2> SUFFICES ASSUME CommandsInit PROVE Skill!Init /\ Cron!Init
    BY DEF CommandsInit
  <2>1. StillSkill => Skill!Init
    <3>1. [builtin |-> TRUE, level |-> "BEGINNER", tier |-> "inprocess", access |-> {},
           needs |-> None, code |-> "empty"] \in Skill!Builtins
      BY DEF Skill!Builtins
    <3> QED BY <3>1 DEF StillSkill, Skill!Init
  <2>2. StillCron => Cron!Init
    <3>1. (CHOOSE t \in Cycle : TRUE) \in Cycle
      BY CalendarAssumption
    <3>2. 0 \in Cron!Minutes
      BY MinutesAre
    <3>3. \A field \in Cron!Fields : Cron!Values(field) # {}
      BY <3>2 DEF Cron!Values
    <3>4. [field \in Cron!Fields |-> Cron!Values(field)] =
            [minute |-> Cron!Values("minute"), hour |-> Cron!Values("hour"),
             day |-> Cron!Values("day"), month |-> Cron!Values("month"),
             weekday |-> Cron!Values("weekday")]
      BY DEF Cron!Fields
    <3>5. [field \in Cron!Fields |-> Cron!Values(field)] \in Cron!Cron
      BY <3>3, <3>4 DEF Cron!Cron, Cron!Fields
    <3> QED BY <3>1, <3>5 DEF StillCron, Cron!Init
  <2> QED BY <2>1, <2>2 DEF CommandsInit
<1>2. ASSUME [CommandsNext]_commandsVars
      PROVE  [Next]_vars
  BY <1>2 DEF CommandsNext, commandsVars, Rest
<1>3. ASSUME [CommandsNext]_commandsVars
      PROVE  /\ [Answers!Next]_(Answers!vars) /\ [Skill!Next]_(Skill!vars)
             /\ [Hybrid!Next]_(Hybrid!vars) /\ [Mcp!Next]_(Mcp!vars)
             /\ [Monitor!Next]_(Monitor!vars) /\ [Cron!Next]_(Cron!vars)
  BY <1>3, PartSteps DEF answerVars, Answers!vars, skillVars, Skill!vars, hybridVars, Hybrid!vars,
    mcpVars, Mcp!vars, monitorVars, Monitor!vars, cronVars, Cron!vars
<1> QED
  BY <1>1, <1>2, <1>3, PTL
     DEF CommandsSpec, Spec, Answers!Spec, Skill!Spec, Hybrid!Spec, Mcp!Spec, Monitor!Spec, Cron!Spec

\* What a save to the table of authorities may do holds of every behaviour of
\* Commands: an authority that is stored only shrinks.
THEOREM ContextsCorrect == CommandsSpec => AuthorityOnlyShrinks
BY CommandsImplements, AuthorityShrinks, PTL
=============================================================================
