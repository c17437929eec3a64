SPECIFICATION FairSpec
CONSTANTS
  Arguments <- MCArguments
\* main() returns
CHECK_DEADLOCK FALSE
INVARIANTS
  EstimateWithinRange
  ExactUnlessOverlap
  TwoSurvive
PROPERTIES
  Reports
