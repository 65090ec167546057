\* Two collections over two dates and one the provider does not serve,
\* and a crash.
SPECIFICATION HSpec
CONSTANTS
  Calls = {c1, c2}
  Dates = {d1, d2, early}
  EarlyDates = {early}
  Providers = {"anthropic", "mock"}
  GaugeCount = 2
  MaxRevision = 0
  MaxCrashes = 1
  None = None
INVARIANTS
  OnlyProtectedDataPublished
  PreviewAgreesWithGauges
PROPERTIES
  ImplementsPublication
