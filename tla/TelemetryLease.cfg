\* Two applications of one process, their runtimes, and one other caller.
SPECIFICATION FairSpec
CONSTANTS
  Lifespans = {l1, l2}
  Callers = {c1}
  MaxRuntimes = 2
  MaxShutdowns = 2
  None = None
INVARIANTS
  TypeOK
  LeasesCounted
  ServedRuntimeIsAlive
  FlagTellsTheTruth
PROPERTY
  EveryRuntimeIsShut
