\* An overlapping, older collection finishes last.
SPECIFICATION Spec
CONSTANTS
  Calls = {c1, c2}
  Dates = {d1}
  EarlyDates = {}
  Providers = {"anthropic"}
  GaugeCount = 2
  MaxRevision = 1
  MaxCrashes = 0
  None = None
PROPERTIES
  GaugesKeepLatestTotals
