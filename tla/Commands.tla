------------------------------- MODULE Commands -------------------------------
(* What a command is run with and through: its security context, the cache and *)
(* the memory, a skill, the hybrid memory, the MCP servers, the monitor, and    *)
(* the next run of a schedule. They share no state here, so that each behaviour *)
(* is one of SecurityContexts, CommandAnswers, SkillRun, HybridMemory,          *)
(* McpServer, PerformanceMonitor or CronExpression.                             *)
EXTENDS SecurityContexts, FiniteSets

CONSTANTS
  Callers, LocalCallers, Verbs, Capacity, Short, BestHits, Horizon,  \* CommandAnswers
  Texts, Rows, None,                                                 \* and HybridMemory
  Limit,                                                             \* HybridMemory
  Servers, ServerScope,                                              \* McpServer
  Names, Retention,                                                  \* PerformanceMonitor
  Calendar, Cycle                                                    \* CronExpression

VARIABLES
  part,                                           \* which of them
  cache, memories, next, request, now,            \* CommandAnswers
  skill, docker, run,                             \* SkillRun
  semantic, episodes, ids, recall,                \* HybridMemory
  kept, last, history, jobs, call,                \* McpServer
  metrics, recent, counts, timers,                \* PerformanceMonitor
  cron, after, at, state                          \* CronExpression

Answers == INSTANCE CommandAnswers WITH Scopes <- Callers, Local <- LocalCallers, Hits <- BestHits

Skill == INSTANCE SkillRun

Hybrid == INSTANCE HybridMemory WITH memories <- semantic, next <- ids, op <- recall

Mcp == INSTANCE McpServer WITH Scope <- ServerScope, memories <- kept, next <- last

Monitor == INSTANCE PerformanceMonitor

Cron == INSTANCE CronExpression

ASSUME CacheAssumption == Capacity \in Nat \ {0}

ASSUME TextAssumption == None \notin Texts

ASSUME MemoryAssumption == Rows \in Nat /\ Horizon \in Nat

ASSUME MonitorAssumption == IsFiniteSet(Names) /\ Retention \in Nat \ {0}

\* One date is before another.
Earlier(c, d) ==
  \/ c.year < d.year
  \/ c.year = d.year /\ c.month < d.month
  \/ c.year = d.year /\ c.month = d.month /\ c.day < d.day
  \/ c.year = d.year /\ c.month = d.month /\ c.day = d.day /\ c.hour < d.hour
  \/ c.year = d.year /\ c.month = d.month /\ c.day = d.day /\ c.hour = d.hour /\ c.minute < d.minute

\* The calendar of datetime: minutes in order, in whole hours, days and years, none
\* of which is left out. Nothing is said of how long a month is, or a week.
ASSUME CalendarAssumption ==
  /\ Cron!End \in Nat \ {0} /\ DOMAIN Calendar = 0 .. Cron!End - 1
  /\ Cycle \subseteq DOMAIN Calendar /\ Cycle # {}
  /\ \A t \in DOMAIN Calendar : LET c == Calendar[t] IN
       /\ c.year \in Nat /\ c.month \in Nat /\ c.day \in Nat \ {0} /\ c.hour \in Nat
       /\ c.minute \in Nat
  /\ \A s, t \in DOMAIN Calendar : s < t => Earlier(Calendar[s], Calendar[t])
  /\ \A s, t \in DOMAIN Calendar :
       Cron!SameDay(s, t) => Calendar[s].weekday = Calendar[t].weekday
  /\ \A s, t \in DOMAIN Calendar :
       LET u == s - Calendar[s].minute + Calendar[t].minute IN
       /\ u \in DOMAIN Calendar /\ Cron!SameDay(s, u)
       /\ Calendar[u].hour = Calendar[s].hour /\ Calendar[u].minute = Calendar[t].minute
  /\ \A s, t \in DOMAIN Calendar : \E u \in DOMAIN Calendar :
       Cron!SameDay(s, u) /\ Calendar[u].hour = Calendar[t].hour /\ Calendar[u].minute = 0
  /\ \A s, t \in DOMAIN Calendar : \E u \in DOMAIN Calendar : LET c == Calendar[u] IN
       /\ c.year = Calendar[s].year /\ c.month = Calendar[t].month /\ c.day = 1
       /\ c.hour = 0 /\ c.minute = 0
  /\ \A s, t \in DOMAIN Calendar : Calendar[s].year < Calendar[t].year =>
       \E u \in DOMAIN Calendar : Calendar[u].year = Calendar[s].year + 1

answerVars == <<cache, memories, next, request, now>>
skillVars == <<skill, docker, run>>
hybridVars == <<semantic, episodes, ids, recall>>
mcpVars == <<kept, last, history, jobs, call>>
monitorVars == <<metrics, recent, counts, timers>>
cronVars == <<cron, after, at, state>>

\* What SkillRun and CronExpression start with in a behaviour of another part.
StillSkill == docker = TRUE /\ run = None /\ skill = Skill!Inferred(CHOOSE meta \in Skill!Builtins : TRUE)
StillCron ==
  /\ cron = [field \in Cron!Fields |-> Cron!Values(field)]
  /\ after = (CHOOSE t \in Cycle : TRUE) /\ at = after + 1 /\ state = "search"

CommandsInit ==
  /\ part \in {"contexts", "answers", "skill", "hybrid", "mcp", "monitor", "cron"}
  /\ Init /\ Answers!Init /\ Hybrid!Init /\ Mcp!Init
  /\ Monitor!Init
  /\ IF part = "skill" THEN Skill!Init ELSE StillSkill
  /\ IF part = "cron" THEN Cron!Init ELSE StillCron

\* The parts that do not take the step.
Rest(p) ==
  /\ p # "contexts" => UNCHANGED vars
  /\ p # "answers" => UNCHANGED answerVars
  /\ p # "skill" => UNCHANGED skillVars
  /\ p # "hybrid" => UNCHANGED hybridVars
  /\ p # "mcp" => UNCHANGED mcpVars
  /\ p # "monitor" => UNCHANGED monitorVars
  /\ p # "cron" => UNCHANGED cronVars

CommandsNext ==
  /\ UNCHANGED part
  /\ \/ part = "contexts" /\ Next
     \/ part = "answers" /\ Answers!Next
     \/ part = "skill" /\ Skill!Next
     \/ part = "hybrid" /\ Hybrid!Next
     \/ part = "mcp" /\ Mcp!Next
     \/ part = "monitor" /\ Monitor!Next
     \/ part = "cron" /\ Cron!Next
  /\ Rest(part)

commandsVars ==
  <<part, vars, answerVars, skillVars, hybridVars, mcpVars, monitorVars, cronVars>>

CommandsSpec == CommandsInit /\ [][CommandsNext]_commandsVars

-----------------------------------------------------------------------------

\* An answer, also one from the cache, was computed for this very command and
\* for the same principal, tenant, roles and credential.
AnswersInScope == Answers!AnswersInScope

\* What "remember" acknowledges is in the memory, unless it was deleted since.
RememberedMeansStored == Answers!RememberedMeansStored

\* However its metadata is written and docker comes and goes, the code of a
\* custom skill runs outside the process, reaching neither network nor files,
\* isolated unless its author chose otherwise, and never without a grant.
Contained == Skill!Contained

\* A skill whose contract needs an approval has run only with one of the
\* approval store: neither a header, nor a payload, nor a role replaces it.
ApprovalOfStore == Skill!ApprovalOfStore

\* A hybrid search names no text twice, and lacks one it found only if it is full
\* or the ids of the two stores collide.
MissingIsHidden == Hybrid!MissingIsHidden

\* A server over HTTP shows what was stored for its own principal and tenant.
ShownInScope == Mcp!ShownInScope

\* The counts of retained samples are those of the windows.
SamplesCounted == Monitor!SamplesCounted

\* The run an expression names next is the first minute after the given one that
\* every field matches.
NextIsFirst == Cron!NextIsFirst
=============================================================================
