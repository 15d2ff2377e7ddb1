CONSTANTS
  Catalog <- MCCatalog
  JobSpecs <- MCJobSpecs
  Metrics <- MCMetrics
  MaxRetries = 3
SPECIFICATION Spec
CHECK_DEADLOCK FALSE
INVARIANTS CandidatesAreDistinct CandidatesAreBuildable PruneLosesNothing TopIsJustified
