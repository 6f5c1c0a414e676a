SPECIFICATION RunSpec
CONSTANTS
  Payloads = {"p1", "p2"}
  Traces = {"t1", "t2"}
  SpanIds = {"a", "b"}
  Contents <- MCContents
  SpansOf <- MCSpansOf
  MaxTime = 3
  PageRows = 1
  MaxFaults = 2
  gui1 = gui1  gui2 = gui2  stdio1 = stdio1  stdio2 = stdio2
  Apps = {gui1, gui2}
  Agents = {stdio1, stdio2}
  Absent = Absent
  MaxMishaps = 2
  ListRows <- MCListRows
  Queries <- MCQueries
  RunQueries = {"runs"}
  GroupQueries = {"groups"}
  SessionQueries = {"sessions"}
  Rank <- MCRank
  SessionOf <- MCSessionOf
  EndsAt <- MCEndsAt
  Initially <- MCInitially
  Limits = {1, 3}
  MaximumPage = 3
  NoWalk = NoWalk
  MaxResponse = 2
  MaxCalls = 3
  MaxCommits = 1
  inbox = inbox
  Followers = {inbox}
  Filters = {"all", "open"}
  Capacity = 1
  BatchLimit = 2
  Retain = 1
  MaxDeltas = 2
  MaxClicks = 2
  MaxFailures = 1
CHECK_DEADLOCK FALSE
INVARIANTS
  JournalIsTrue
  StoreIsTrue
  AgentsAreServed
  InboxIsTrue
PROPERTIES
  AckedIsFinalized
  FinalizedIsImmutable
  ImplementsRevisions
  ViewNeverGoesBack
  ViewCatchesUp
