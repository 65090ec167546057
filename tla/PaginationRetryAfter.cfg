\* The Retry-After header that str.isdigit() accepts and int() does not.
SPECIFICATION Spec
CONSTANTS
  Cursors = {c1}
  NoCursor = NoCursor
  Blocks = {a}
  MaxDrift = 0
INVARIANTS
  FailuresAreProviderErrors
