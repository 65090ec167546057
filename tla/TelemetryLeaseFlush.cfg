SPECIFICATION Spec
CONSTANTS
  Lifespans = {l1}
  Callers = {}
  MaxRuntimes = 1
  MaxShutdowns = 1
  None = None
INVARIANT ShutdownFlushesEach
