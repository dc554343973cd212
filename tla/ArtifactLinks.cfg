\* Two children with two artifacts each.
SPECIFICATION MergingSpec
CONSTANTS
  reviewer = reviewer
  designer = designer
  null = null
  text = text
  list = list
  table = table
  s1 = s1
  s2 = s2
  k1 = k1
  k2 = k2
  c1 = c1
  c2 = c2
  p1 = p1
  ann = ann
  bob = bob
  root = root
  red = red
  blue = blue
  None = None
  N = 3
  Workers <- MCWorkers
  Values <- MCValues
  Empty <- MCEmpty
  Richness <- MCRichness
  Priority <- MCPriority
  Sessions <- MCSessions
  Pool = 2
  Batch = 2
  Keys <- MCKeys
  Kids <- MCKids
  Returns <- MCReturns
  Settings <- MCSettings
  Callers <- MCCallers
  DefaultOrg = blue
  Ids <- MCIds
  ListPage = 1
  Delegates <- MCDelegates
  Attempts = 2
  LinkPage = 4
CHECK_DEADLOCK FALSE
INVARIANT LinksReported
