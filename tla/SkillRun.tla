------------------------------- MODULE SkillRun -------------------------------
(***************************************************************************)
(* A command that names a skill: the contract inferred from the metadata   *)
(* of the skill, the approval asked for in front of the router, the        *)
(* runtime policy there and again in the skill manager, and the runtime    *)
(* that has the last word.  Docker is looked for each time anew, and may   *)
(* have come or gone since.                                                *)
(***************************************************************************)
EXTENDS Naturals, FiniteSets

CONSTANT None

VARIABLES
  skill,    \* the contract of the skill the command names, fixed when it was loaded
  docker,   \* whether docker answers
  run       \* the command, or None

vars == <<skill, docker, run>>

Levels == {"BEGINNER", "INTERMEDIATE", "ADVANCED"}   \* EXPERT is treated as ADVANCED

Tiers == {"auto", "inprocess", "subprocess", "isolated", "denied"}

Accesses == {"network", "filesystem"}

\* What the metadata of a SKILL.md says; None where it says nothing.
\* "builtin" is another word for "inprocess", "docker" one nobody knows.
Written ==
  [builtin: {FALSE}, level: Levels \cup {"unknown", None},
   tier: {"auto", "inprocess", "builtin", "subprocess", "isolated", "docker", None},
   access: SUBSET Accesses, needs: BOOLEAN \cup {None},
   code: {"plain", "blocked", "empty"}]

\* _BUILTIN_CONTRACT_META: calculators and clocks, and what reaches further.
Builtins ==
  [builtin: {TRUE}, level: {"BEGINNER"}, tier: {"inprocess"}, access: {{}},
   needs: {None}, code: {"empty"}] \cup
  [builtin: {TRUE}, level: {"INTERMEDIATE"}, tier: {"subprocess"},
   access: {{"network"}, {"filesystem"}}, needs: {TRUE}, code: {"empty"}]

Contract ==
  [trusted: BOOLEAN, level: Levels, tier: Tiers, access: SUBSET Accesses,
   needs: BOOLEAN, code: {"plain", "blocked", "empty"}]

\* Where a grant comes from: the default of a local caller, the request itself,
\* or the approval store, once it is consumed and claimed.
Grants == {"none", "local", "request", "store"}

Run ==
  [pc: {"asked", "routed", "permitted", "checked", "custom", "builtin", "refused"},
   admin: BOOLEAN, grant: Grants, runtime: Tiers]

TypeOK ==
  /\ skill \in Contract
  /\ docker \in BOOLEAN
  /\ run \in Run \cup {None}

-----------------------------------------------------------------------------
(* The contract.                                                           *)

DefaultTier(level) ==
  CASE level = "BEGINNER" -> "inprocess" [] level = "ADVANCED" -> "isolated"
    [] OTHER -> "subprocess"

Level(meta) ==
  CASE meta.level = None -> "BEGINNER" [] meta.level = "unknown" -> "INTERMEDIATE"
    [] OTHER -> meta.level

\* _infer_runtime_tier; a tier that no runtime has is denied.
Tier(meta) ==
  CASE meta.tier = None -> DefaultTier(Level(meta))
    [] meta.tier = "builtin" -> "inprocess"
    [] meta.tier = "docker" -> "denied"
    [] OTHER -> meta.tier

\* _infer_needs_approval: metadata that says so is taken at its word.
Needs(meta) ==
  IF meta.needs # None THEN meta.needs
  ELSE ~ meta.builtin \/ Level(meta) # "BEGINNER" \/ meta.access # {}

\* _build_skill_contract: only the built-in skills are trusted.
Inferred(meta) ==
  [trusted |-> meta.builtin, level |-> Level(meta), tier |-> Tier(meta),
   access |-> meta.access, needs |-> Needs(meta), code |-> meta.code]

Init ==
  /\ skill \in {Inferred(meta) : meta \in Written \cup Builtins}
  /\ docker \in BOOLEAN
  /\ run = None

-----------------------------------------------------------------------------
(* The policy.                                                             *)

\* What is not trusted is moved out of the process.
Runtime(c) ==
  LET wanted == IF c.tier = "auto"
                THEN IF c.trusted /\ c.level = "BEGINNER" /\ c.access = {} THEN "inprocess"
                     ELSE IF c.level = "ADVANCED" THEN "isolated" ELSE "subprocess"
                ELSE c.tier
  IN
  IF ~ c.trusted /\ wanted = "inprocess"
  THEN IF c.level = "ADVANCED" THEN "isolated" ELSE "subprocess"
  ELSE wanted

\* Slip: the contract's own word is enough.
SlipPermits(c, grant, admin) ==
  /\ c.needs => grant # "none" \/ admin
  /\ Runtime(c) = "isolated" => docker
  /\ Runtime(c) # "denied"

\* resolve_runtime_policy
Permits(c, grant, admin) ==
  /\ c.needs \/ ~ c.trusted \/ c.level # "BEGINNER" \/ c.access # {} => grant # "none" \/ admin
  /\ Runtime(c) = "isolated" => docker
  /\ Runtime(c) # "denied"

-----------------------------------------------------------------------------
(* The command.                                                            *)

Ask ==
  /\ run = None
  /\ \E admin \in BOOLEAN, grant \in Grants :
       run' = [pc |-> "asked", admin |-> admin, grant |-> grant, runtime |-> "auto"]
  /\ UNCHANGED <<skill, docker>>

Step(from, admitted, to) ==
  /\ run # None /\ run.pc = from
  /\ run' = [run EXCEPT !.pc = IF admitted THEN to ELSE "refused"]
  /\ UNCHANGED <<skill, docker>>

\* Slip: any grant will do.
SlipFront == Step("asked", skill.needs => run.grant # "none", "routed")

\* A contract that needs an approval needs one of the store, also from an admin.
Front == Step("asked", skill.needs => run.grant = "store", "routed")

\* handle_intelligence_route asks the policy ...
Route == Step("routed", Permits(skill, run.grant, run.admin), "permitted")

\* ... runs a built-in skill in the process, whatever the policy named, ...
ExecuteBuiltin ==
  /\ skill.trusted
  /\ Step("permitted", TRUE, "builtin")

\* ... and for any other execute_custom asks again and takes its runtime.
ExecuteCustom ==
  /\ ~ skill.trusted
  /\ run # None /\ run.pc = "permitted"
  /\ run' = IF Permits(skill, run.grant, run.admin)
            THEN [run EXCEPT !.pc = "checked", !.runtime = Runtime(skill)]
            ELSE [run EXCEPT !.pc = "refused"]
  /\ UNCHANGED <<skill, docker>>

\* Slip: the runtime does not look at what the skill wants to reach.
SlipValid(c) == c.code = "plain"

\* _validate_code_request
Valid(c) == c.code = "plain" /\ c.access = {}

\* The runtimes: in the process for trusted code alone, isolated only with docker.
Execute ==
  Step("checked",
       /\ run.runtime \in {"subprocess", "isolated"}
       /\ Valid(skill)
       /\ run.runtime = "isolated" => docker,
       "custom")

End ==
  /\ run # None /\ run.pc \in {"refused", "builtin", "custom"}
  /\ run' = None
  /\ UNCHANGED <<skill, docker>>

Flip ==
  /\ docker' = ~ docker
  /\ UNCHANGED <<skill, run>>

Next ==
  Ask \/ Front \/ Route \/ ExecuteBuiltin \/ ExecuteCustom \/ Execute \/ End \/ Flip

Spec == Init /\ [][Next]_vars

-----------------------------------------------------------------------------
(* Properties.                                                             *)

\* However its metadata is written and docker comes and goes, the code of a
\* custom skill runs outside the process, reaching neither network nor files,
\* isolated unless its author chose otherwise, and never without a grant.
Contained ==
  run # None /\ run.pc = "custom" =>
    /\ run.runtime # "inprocess"
    /\ skill.access = {}
    /\ skill.level = "ADVANCED" /\ skill.tier \in {"auto", "inprocess"} => run.runtime = "isolated"
    /\ run.grant # "none" \/ run.admin

\* A skill whose contract needs an approval has run only with one of the
\* approval store: neither a header, nor a payload, nor a role replaces it.
ApprovalOfStore ==
  run # None /\ run.pc \in {"custom", "builtin"} /\ skill.needs => run.grant = "store"
==============================================================================
