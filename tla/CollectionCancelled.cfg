\* A collection cancelled while it awaits the provider.
SPECIFICATION Spec
CONSTANTS
  Calls = {c1, c2}
  Dates = {d1}
  EarlyDates = {}
  Providers = {"anthropic"}
  GaugeCount = 2
  MaxRevision = 0
  MaxCrashes = 0
  None = None
INVARIANTS
  EndedSpansSayHow
