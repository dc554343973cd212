------------------------------ MODULE Gateway ------------------------------
(* What stands between a gateway's callers and the stores: credentials and   *)
(* tokens, the tenancy of the worker fabric, and the gate that a request     *)
(* passes. They share no state, so that each behaviour is one of             *)
(* Credentials, of FabricTenancy or of RequestGate.                          *)
EXTENDS Credentials

CONSTANTS
  Callers, Nodes, Queues, Leases, Tasks, TaskOrg(_),  \* FabricTenancy
  Tokens, Peers, Who(_), Max, Window, Delay, Horizon  \* RequestGate

VARIABLES
  part,                               \* which of them
  node, queue, lease, request, moved, \* FabricTenancy
  gate, token, window, asked, now, entered  \* RequestGate

Fabric == INSTANCE FabricTenancy
Gate == INSTANCE RequestGate WITH request <- asked

\* None is no row of the fabric.
ASSUME FabricAssumption == None \notin Fabric!Node /\ None \notin Fabric!Lease

\* max_requests, window_seconds, and the time a thread may wait for the lock.
ASSUME GateAssumption == Max \in Nat /\ Window \in Nat /\ Delay \in Nat /\ Horizon \in Nat

fabricVars == <<node, queue, lease, request, moved>>
gateVars == <<gate, token, window, asked, now, entered>>

GatewayInit ==
  /\ part \in {"credentials", "fabric", "gate"}
  /\ Init /\ Fabric!Init /\ Gate!Init

GatewayNext ==
  \/ part = "credentials" /\ Next /\ UNCHANGED <<part, fabricVars, gateVars>>
  \/ part = "fabric" /\ Fabric!Next /\ UNCHANGED <<part, vars, gateVars>>
  \/ part = "gate" /\ Gate!Next /\ UNCHANGED <<part, vars, fabricVars>>

GatewaySpec == GatewayInit /\ [][GatewayNext]_<<part, vars, fabricVars, gateVars>>

-----------------------------------------------------------------------------

\* No request of a tenant writes a node, a queue or a lease of another tenant,
\* whatever has happened since it looked.
OwnTenantOnly == Fabric!OwnTenantOnly

\* However the requests of an identity interleave, and although each reads the
\* clock before it has the limiter's lock, no more than Max of them are admitted
\* within a window, less the time the lock was waited for.
WindowHeld == Gate!WindowHeld

\* What is served where a token is asked for was sent with a token that was
\* current when it arrived: a socket does not outlive its token.
ServedWereCurrent == Gate!ServedWereCurrent
=============================================================================
