SPECIFICATION DerivedSpec
CONSTANTS
  Spans <- MCSpans
  LastRevision = 2
  NoParent = NoParent
  Missing = Missing
  None = None
  Batches <- MCBatches
  ChunkRows = 1
  MaxBatches = 2
  MaxFaults = 2
  t1 = t1  t2 = t2  p1 = p1
  Traces = {t1, t2}
  Projects = {p1}
  ProjectOf <- MCProjectOf
  Unassigned = Unassigned
  Texts = {"a", "b"}
  Capacity = 1
  Minimum = 2
  MaximumCases = 2
  NewCases = 2
  NewPercent = 50
  History = 2
  MaxChanges = 3
  MaxFailures = 1
  Nothing = Nothing
  All = All
CHECK_DEADLOCK FALSE
INVARIANTS
  TreesAreTrue
  FindingsAreAssigned
PROPERTIES
  TreesAppear
  CohortsCatchUp
