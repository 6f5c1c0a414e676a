SPECIFICATION DesktopSpec
CONSTANTS
  ann = ann  bob = bob  eve = eve
  completed = completed  failed = failed
  None = None
  Assessments = {1, 2, 3}
  Cases = {"x", "y"}
  Case <- MCCase
  Group <- MCGroup
  Hashed <- MCHashed
  Abstentions = {}
  Reviewers <- MCReviewers
  Labels <- MCLabels
  Decisive <- MCLabels
  Required = 2
  FitMinimum = 1
  MaxReleases = 2
  MaxCorrections = 1
  MaxFaults = 1
  p1 = p1  p2 = p2  group1 = group1  trace2 = trace2  trace3 = trace3  evals = evals
  Owners = {p1, p2}
  Unassigned = Unassigned
  AllProjects = AllProjects
  Destinations <- MCDestinations
  Artifacts = {group1, trace2, trace3}
  Traces = {trace2, trace3}
  Owner <- MCOwner
  Activity <- MCActivity
  Screens <- MCScreens
  Screen <- MCScreen
  Opening <- MCOpening
  FailureInbox = FailureInbox
  Welcome = Welcome
  Runs = Runs
  Unsaved = {evals}
  Nobody = Nobody
  MaxClosed = 1
  MaxActions = 4
  a1 = a1  a2 = a2  b1 = b1  g1 = g1  g2 = g2
  FailureGroups = {g1, g2}
  Occurrences <- MCOccurrences
  TraceOf <- MCTraceOf
  TraceTabs <- MCTraceTabs
  PageSize = 1
  Blank = Blank
  MaxVisits = 4
  MaxSurprises = 1
  c1 = c1  c2 = c2  c3 = c3
  Releases = {c1, c2, c3}
  Versions = {"v1", "v2"}
  VersionOf <- MCVersionOf
  Files = {"manifest", "model"}
  Nowhere = Nowhere
  MaxWishes = 3
  MaxAccidents = 2
SYMMETRY MCSymmetry
CHECK_DEADLOCK FALSE
INVARIANTS
  ReviewsAreSound
  WorkbenchIsSound
  InvestigationIsTrue
  ModelsAreWhole
PROPERTIES
  AnswersAreBlind
  TruthIsFinal
  EditorsStay
  CandidatesAreFiled
