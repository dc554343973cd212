\* One thread that hands two tasks over, with as many active as governance allows.
SPECIFICATION Spec
CONSTANTS
  Threads = {e1}
  MaxTasks = 3
  MaxParallel = 3
  MaxRetries = 1
  Batch = 2
CHECK_DEADLOCK FALSE
PROPERTY FannedOutRuns
