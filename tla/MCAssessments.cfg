CONSTANTS
  j1 = j1
  j2 = j2
  w1 = w1
  k1 = k1
  w2 = w2
  k2 = k2
  t1 = t1
  None = None
  Jobs = {j1, j2}
  Items = {1, 2, 3}
  Job <- MCJob
  Key <- MCKey
  Cost <- MCCost
  Overrun = 1
  Policies <- MCPolicies
  Thresholds = {t1}
  Workers = {w1, w2}
  LastDay = 1
  MaxFaults = 1
SPECIFICATION AssessSpec
INVARIANTS
  AssessmentsAreTrue
PROPERTIES
  JobsSettle
  ResultsAreFinal
CHECK_DEADLOCK FALSE
