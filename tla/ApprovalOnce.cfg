\* Two requests race with two approvals over two tasks, two threads with their
\* healing, one that hands a batch over, two voters in a poll; and a plan of
\* three steps.
SPECIFICATION MCSpec
CONSTANTS
  None = None
  Threads = {c1, c2}
  Tasks = {t1, t2}
  Approvals = {a1, a2}
  TTL = 1
  Outcomes = {"completed", "failed"}
  Horizon = 1
  MaxTasks = 2
  MaxParallel = 2
  MaxRetries = 1
  Batch = 1
  MaxSteps = 3
  MaxRounds = 2
  Targets = {merge}
  Quorums = {1, 2}
  MaxVotes = 3
SYMMETRY Symmetry
CHECK_DEADLOCK FALSE
INVARIANTS
  RunsPaidFor
  
  PlanHonest
  
PROPERTIES
  OneShotSpec
  RemoteStaysOut
