\* A delegated child and its parent, two leases: recovery races a worker that comes back.
SPECIFICATION Spec
CONSTANTS
  None = None
  c1 = c1
  c2 = c2
  n1 = n1
  n2 = n2
  l1 = l1
  l2 = l2
  l3 = l3
  parent = parent
  child = child
  Threads = {c1, c2}
  Nodes = {n1}
  Queues = {q1}
  Tasks = {parent, child}
  Parent <- ChildOfParent
  LeaseIds = {l1, l2}
  Caps = {2}
  TTLs = {1}
  NodeTTL = 1
  LeaseTTL = 2
  BeatStatuses = {}
  FinalStatuses = {}
  Timeout = 0
  Horizon = 1
SYMMETRY Symmetry
INVARIANT StampBacked
