\* Three overlapping collections of one date, and a crash.
SPECIFICATION Spec
CONSTANTS
  Calls = {c1, c2, c3}
  Dates = {d1}
  EarlyDates = {}
  Providers = {"anthropic", "mock"}
  GaugeCount = 2
  MaxRevision = 1
  MaxCrashes = 1
  None = None
SYMMETRY CallSymmetry
INVARIANTS
  TypeOK
  OneStoryPerCall
  GaugesNeverMixCalls
  AllOrNothingPublished
  SequentialRecollectionIsFresh
  MockCollectionsAreSerial
