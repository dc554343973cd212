-------------------------- MODULE OneShotApproval --------------------------
(***************************************************************************)
(* What a server-issued approval promises, without saying how: an approval *)
(* is issued for one task, it is redeemed at most once, and the task's     *)
(* command is run at most once on the strength of it. A run that was       *)
(* claimed may be lost (a refusal or a crash), never repeated.             *)
(***************************************************************************)
EXTENDS Naturals

CONSTANTS Approvals, Tasks, None

VARIABLES
  stage,   \* how far each approval has got
  bound,   \* the task an approval was issued for
  runs     \* how often each task's command was run

vars == <<stage, bound, runs>>

Stage == {"none", "issued", "consumed", "claimed", "burned"}

TypeOK ==
  /\ stage \in [Approvals -> Stage]
  /\ bound \in [Approvals -> Tasks \cup {None}]
  /\ runs \in [Tasks -> Nat]

Init ==
  /\ stage = [a \in Approvals |-> "none"]
  /\ bound = [a \in Approvals |-> None]
  /\ runs = [t \in Tasks |-> 0]

Advance(a, from, to) == stage[a] = from /\ stage' = [stage EXCEPT ![a] = to]

Issue(a, t) ==
  /\ Advance(a, "none", "issued")
  /\ bound' = [bound EXCEPT ![a] = t]
  /\ UNCHANGED runs

Consume(a) == Advance(a, "issued", "consumed") /\ UNCHANGED <<bound, runs>>

Claim(a) == Advance(a, "consumed", "claimed") /\ UNCHANGED <<bound, runs>>

Run(a) ==
  /\ Advance(a, "claimed", "burned")
  /\ runs' = [runs EXCEPT ![bound[a]] = @ + 1]
  /\ UNCHANGED bound

Lose(a) == Advance(a, "claimed", "burned") /\ UNCHANGED <<bound, runs>>

Next ==
  \E a \in Approvals :
    \/ \E t \in Tasks : Issue(a, t)
    \/ Consume(a)
    \/ Claim(a)
    \/ Run(a)
    \/ Lose(a)

Spec == Init /\ [][Next]_vars
=============================================================================
