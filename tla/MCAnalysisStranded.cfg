CONSTANTS
  t1 = t1
  t2 = t2
  Traces = {t1, t2}
  Definitions <- DeterministicOnly
  Degraded <- MCDegraded
  BatchLimit = 1
  MaxRevision = 2
  MaxRestarts = 0
  MaxFaults = 1
SPECIFICATION FairSpec
PROPERTY FinalizedBecomesAvailable
CHECK_DEADLOCK FALSE
