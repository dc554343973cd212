\* Two threads at everything.
SPECIFICATION GatewaySpec
CONSTANTS
  t1 = t1
  t2 = t2
  ann = ann
  bob = bob
  root = root
  key1 = key1
  key2 = key2
  east = east
  west = west
  red = red
  blue = blue
  n1 = n1
  q1 = q1
  q2 = q2
  l1 = l1
  k1 = k1
  here = here
  None = None
  Threads <- MCThreads
  Principals <- MCPrincipals
  ApiKeys <- MCApiKeys
  Orgs <- MCOrgs
  Roles <- MCRoles
  MaxPairs = 3
  MaxLogins = 1
  MaxStamp = 2
  Callers <- MCCallers
  Nodes = {n1}
  Queues <- MCQueues
  Leases = {l1}
  Tasks = {k1}
  TaskOrg <- MCTaskOrg
  Tokens = {k1}
  Peers = {here}
  Who <- MCWho
  Max = 1
  Window = 3
  Delay = 1
  Horizon = 3
SYMMETRY MCSymmetry
CHECK_DEADLOCK FALSE
INVARIANTS
  RefreshOnce
  TokensDie
  WindowHeld
  ServedWereCurrent
PROPERTIES
  AdminInScope
  OwnTenantOnly
