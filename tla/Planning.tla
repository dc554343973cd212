------------------------------- MODULE Planning -------------------------------
(***************************************************************************)
(* A plan made by three models and carried out step by step (planning.py):  *)
(* the architect drafts it, entropy may ask for another draft, so many      *)
(* times, or reject it, the auditor has the last word; then each step whose *)
(* dependencies were met is run as a command.  What a model answers is      *)
(* anything, an answer that cannot be parsed included.                      *)
(***************************************************************************)
EXTENDS Naturals, Sequences, FiniteSets

CONSTANTS
  Names,     \* names a draft gives its steps and their dependencies
  MaxSteps,  \* bound on the steps of a draft
  MaxRounds  \* max_rounds, 2 in the code

VARIABLES
  phase,    \* who is asked next
  rounds,
  steps,    \* the latest draft
  outputs,  \* of each step so far whether it ran and succeeded, or was skipped
  met,      \* executed: the names of those that succeeded
  result    \* what is reported

vars == <<phase, rounds, steps, outputs, met, result>>

Step == [name: Names, needs: SUBSET Names]
Drafts == UNION {[1 .. n -> Step] : n \in 0 .. MaxSteps}

TypeOK ==
  /\ phase \in {"architect", "entropy", "auditor", "execute", "done"}
  /\ rounds \in 0 .. MaxRounds
  /\ steps \in Drafts
  /\ outputs \in Seq({"succeeded", "failed", "skipped"}) /\ Len(outputs) <= Len(steps)
  /\ met \subseteq Names
  /\ result \in {"none", "not_executable", "success", "failure"}

Init ==
  /\ phase = "architect" /\ rounds = 0 /\ steps = <<>>
  /\ outputs = <<>> /\ met = {} /\ result = "none"

-----------------------------------------------------------------------------
\* A draft, or one without steps if the answer is no JSON.
Architect ==
  /\ phase = "architect"
  /\ steps' \in Drafts
  /\ rounds' = rounds + 1 /\ phase' = "entropy"
  /\ UNCHANGED <<outputs, met, result>>

\* An answer that is no JSON approves; the last draft that was to be refined goes
\* to the auditor as it is.
Entropy(verdict) ==
  /\ phase = "entropy"
  /\ \/ verdict = "approve" /\ phase' = "auditor" /\ UNCHANGED <<steps, result>>
     \/ verdict = "refine" /\ UNCHANGED <<steps, result>>
        /\ phase' = (IF rounds < MaxRounds THEN "architect" ELSE "auditor")
     \/ verdict = "reject" /\ phase' = "done" /\ steps' = <<>> /\ result' = "not_executable"
  /\ UNCHANGED <<rounds, outputs, met>>

Auditor(approved) ==
  /\ phase = "auditor"
  /\ phase' = (IF approved THEN "execute" ELSE "done")
  /\ result' = (IF approved THEN "none" ELSE "not_executable")
  /\ UNCHANGED <<rounds, steps, outputs, met>>

-----------------------------------------------------------------------------
Now == steps[Len(outputs) + 1]

\* A slip for TLC: one dependency that was met will do.
SlipReady == Now.needs = {} \/ Now.needs \cap met # {}

Ready == Now.needs \subseteq met

Skip ==
  /\ phase = "execute" /\ Len(outputs) < Len(steps) /\ ~Ready
  /\ outputs' = Append(outputs, "skipped")
  /\ UNCHANGED <<phase, rounds, steps, met, result>>

\* process_command may fail or raise.
Run(outcome) ==
  /\ phase = "execute" /\ Len(outputs) < Len(steps) /\ Ready
  /\ outputs' = Append(outputs, outcome)
  /\ met' = IF outcome = "succeeded" THEN met \cup {Now.name} ELSE met
  /\ UNCHANGED <<phase, rounds, steps, result>>

Report ==
  /\ phase = "execute" /\ Len(outputs) = Len(steps)
  /\ phase' = "done"
  /\ result' = IF \E i \in DOMAIN outputs : outputs[i] = "failed" THEN "failure" ELSE "success"
  /\ UNCHANGED <<rounds, steps, outputs, met>>

Next ==
  \/ Architect
  \/ \E verdict \in {"approve", "refine", "reject"} : Entropy(verdict)
  \/ \E approved \in BOOLEAN : Auditor(approved)
  \/ Skip \/ Report
  \/ \E outcome \in {"succeeded", "failed"} : Run(outcome)

Spec == Init /\ [][Next]_vars

-----------------------------------------------------------------------------
\* Some earlier step of this name was run and succeeded.
Provided(name, i) == \E j \in 1 .. i - 1 : steps[j].name = name /\ outputs[j] = "succeeded"

Ordered == \A i \in DOMAIN steps : \A n \in steps[i].needs : \E j \in 1 .. i - 1 : steps[j].name = n

\* No step was run before all it depends on had succeeded, none that could be run
\* was left out, and a plan whose steps are in an order that can be followed is
\* reported as a success only if all of them were run and succeeded: that skipped
\* steps do not count is no way around it (PlanningEngine.execute).
PlanHonest ==
  /\ \A i \in DOMAIN outputs :
       outputs[i] # "skipped" <=> \A n \in steps[i].needs : Provided(n, i)
  /\ result = "success" /\ Ordered => \A i \in DOMAIN steps : outputs[i] = "succeeded"
=============================================================================
