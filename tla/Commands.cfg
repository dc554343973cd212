\* Two threads, and every way in which a skill and a schedule can be written.
SPECIFICATION CommandsSpec
CONSTANTS
  c1 = c1
  c2 = c2
  alice = alice
  bob = bob
  p1 = p1
  p2 = p2
  cli = cli
  web = web
  x = x
  y = y
  None = None
  Threads <- MCThreads
  Tasks = {t1}
  Principals <- MCPrincipals
  Credentials = {k1}
  Privileges <- MCPrivileges
  Approvals = {a1}
  MaxVersion = 1
  Unbound = Unbound
  Absent = Absent
  Callers <- MCCallers
  LocalCallers <- MCLocalCallers
  Verbs <- MCVerbs
  Capacity = 2
  Short = 0
  BestHits = 1
  Horizon = 1
  Texts <- MCTexts
  Rows = 2
  Limit = 2
  Servers <- MCServers
  ServerScope <- MCServerScope
  Names <- MCTexts
  Retention = 2
  Calendar <- MCCalendar
  Cycle <- MCCycle
SYMMETRY MCSymmetry
CHECK_DEADLOCK FALSE
INVARIANTS
  
  RememberedMeansStored
  
  
  
  ShownInScope
  SamplesCounted
  
PROPERTY
  AuthorityOnlyShrinks
