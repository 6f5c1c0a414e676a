CONSTANTS
  t1 = t1
  t2 = t2
  Traces = {t1, t2}
  Definitions <- JudgeSwitched
  Degraded <- MCDegraded
  BatchLimit = 1
  MaxRevision = 2
  MaxRestarts = 0
  MaxFaults = 0
SPECIFICATION Spec
PROPERTY HostedIsAdditive
CHECK_DEADLOCK FALSE
