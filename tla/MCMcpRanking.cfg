SPECIFICATION SessionSpec
CONSTANTS
  ListRows <- MCListRows
  Queries <- MCQueries
  RunQueries = {"runs"}
  GroupQueries = {"groups"}
  SessionQueries = {"sessions"}
  Rank <- MCRank
  SessionOf <- MCSessionOf
  EndsAt <- MCEndsAt
  Initially <- MCInitially
  Limits = {1, 3}
  MaximumPage = 3
  NoWalk = NoWalk
  MaxResponse = 3
  MaxCalls = 3
  MaxCommits = 0
CHECK_DEADLOCK FALSE
INVARIANTS
  GroupsAreRanked
