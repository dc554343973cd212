\* Two threads at everything, a failure at any step.
SPECIFICATION MCSpec
CONSTANTS
  s1 = s1
  c1 = c1
  c2 = c2
  n1 = n1
  q1 = q1
  k1 = k1
  a1 = a1
  a2 = a2
  l1 = l1
  l2 = l2
  None = None
  Schedulers = {s1}
  Loops = {l1, l2}
  LoopOf <- OneScheduler
  Jobs = {j1}
  Limits = {0, 1, 2}
  Unlimited = Unlimited
  Absent = Absent
  Horizon = 2
  MaxFailures = 1
INVARIANTS
  CallsAccounted
  LimitHeld
PROPERTIES
  CancelSticks
  
  OperationsEnd
  
