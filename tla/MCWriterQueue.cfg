CONSTANTS
  r1 = r1
  r2 = r2
  j1 = j1
  j2 = j2
  j3 = j3
  w1 = w1
  Requests = {r1, r2}
  Size <- MCSize
  Jobs = {j1, j2, j3}
  Restored = {j3}
  Workers = {w1}
  QueueBatches = 2
  QueueBytes = 2
  MicrobatchSize = 1
  PageRows = 2
  CandidateSlots = 1
  MaxFaults = 2
SPECIFICATION MCSpec
INVARIANTS
  QueueIsSound
  WriterIsTrue
PROPERTIES
  EveryoneIsAnswered
  JobsAreExecuted
  JournaledIsProjected
CHECK_DEADLOCK FALSE
