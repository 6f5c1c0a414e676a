SPECIFICATION Spec
CONSTANTS
  ann = ann  bob = bob  eve = eve
  completed = completed  failed = failed
  None = None
  Assessments = {1, 2, 3}
  Cases = {"x", "y"}
  Case <- MCCase
  Group <- MCGroup
  Hashed <- MCHashed
  Abstentions = {}
  Reviewers <- MCReviewers
  Labels <- MCLabels
  Decisive <- MCLabels
  Required = 2
  FitMinimum = 1
  MaxReleases = 0
  MaxCorrections = 0
  MaxFaults = 0
SYMMETRY MCSymmetry
CHECK_DEADLOCK FALSE
PROPERTY
  HiddenUntilSubmitted
