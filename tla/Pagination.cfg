\* Every listing over two cursors, which may change once while it is read.
SPECIFICATION FairSpec
CONSTANTS
  Cursors = {c1, c2}
  NoCursor = NoCursor
  Blocks = {a, b}
  MaxDrift = 1
INVARIANTS
  TypeOK
  NoPositionRequestedTwice
  CompleteWhenStable
PROPERTIES
  EveryCallEnds
  ImplementsRetrieval
