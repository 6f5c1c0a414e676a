SPECIFICATION RunSpec
CONSTANTS
  first = first  second = second
  None = None
  Revisions = {1, 2}
  Contents <- MCContents
  NodesOf <- MCNodesOf
  Names = {"check"}
  MaxDrafts = 2
  MaxProposals = 2
  MaxJobs = 1
  j1 = j1  j2 = j2  k1 = k1  w1 = w1  w2 = w2
  Jobs = {j1, j2}
  Items = {1, 2}
  Job <- MCJob
  Key <- MCKey
  Cost <- MCCost
  Overrun = 1
  Policies <- MCPolicies
  Thresholds = {}
  Workers <- MCWorkers
  LastDay = 1
  MaxFaults = 0
SYMMETRY MCSymmetry
CHECK_DEADLOCK FALSE
INVARIANTS
  GovernanceIsSound
  BudgetIsExact
PROPERTIES
  StepsAreExact
