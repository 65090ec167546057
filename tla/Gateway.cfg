\* Two applications in one process that is reconfigured and restarted.
SPECIFICATION Spec
CONSTANTS
  lower = lower
  upper = upper
  other = other
  Apps = {a1, a2}
  Requests = {r1, r2}
  Configurations <- MCConfigurations
  Names = {lower, upper, other}
  Casefold <- MCCasefold
  Delays = {soon}
  MaxChanges = 1
  MaxCrashes = 1
  None = None
SYMMETRY MCSymmetry
INVARIANTS
  TypeOK
  ReadinessDecidesCollection
  TelemetryOfOwnSettings
  HeadersWholeAndDistinct
  RetryableMeansUnpublished
PROPERTY
  PreviewShownOnceWritten
