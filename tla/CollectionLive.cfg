\* Liveness of two overlapping collections, one of which may be too early, with a crash.
SPECIFICATION FairSpec
CONSTANTS
  Calls = {c1, c2}
  Dates = {d1, early}
  EarlyDates = {early}
  Providers = {"anthropic"}
  GaugeCount = 2
  MaxRevision = 0
  MaxCrashes = 1
  None = None
PROPERTIES
  EveryCallIsAnswered
