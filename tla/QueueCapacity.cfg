\* Two connections on one queue whose capacity registrations change.
SPECIFICATION Spec
CONSTANTS
  None = None
  c1 = c1
  c2 = c2
  n1 = n1
  n2 = n2
  l1 = l1
  l2 = l2
  l3 = l3
  parent = parent
  child = child
  Threads = {c1, c2}
  Nodes = {n1}
  Queues = {q1}
  Tasks = {}
  Parent <- NoTasks
  LeaseIds = {l1, l2, l3}
  Caps = {1, 2}
  TTLs = {1, 2}
  NodeTTL = 1
  LeaseTTL = 2
  BeatStatuses = {"ready", "draining"}
  FinalStatuses = {"completed", "cancelled"}
  Timeout = 1
  Horizon = 3
SYMMETRY Symmetry
PROPERTY GrantsRespectCapacity
 
PROPERTY DrainHolds
