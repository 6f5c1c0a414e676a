SPECIFICATION WorkspaceSpec
CONSTANTS
  t1 = t1  t2 = t2
  Traces = {t1, t2}
  Definitions <- Upgrade
  Degraded <- MCDegraded
  BatchLimit = 1
  MaxRevision = 2
  MaxRestarts = 1
  MaxFaults = 1
  g1 = g1  g2 = g2  k1 = k1  k2 = k2  e1 = e1
  Findings <- MCFindings
  Groups = {g1, g2}
  GroupOf <- MCGroupOf
  Evidence = {e1}
  Gone = Gone
  Keys = {k1, k2}
  User = User
  MaxChanges = 1
  MaxClicks = 1
  MaxDisturbances = 1
CHECK_DEADLOCK FALSE
INVARIANTS
  QueueIsTrue
  StatusIsAnnounced
  JobsAreTrue
PROPERTIES
  ActiveUntilReplaced
  FinalizedSettles
  WorkIsKept
  ImplementsCases
  JobsEnd
