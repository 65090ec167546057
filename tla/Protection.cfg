\* Every list of three idle users, and two users with each count in turn.
SPECIFICATION Spec
CONSTANTS
  u1 = u1
  u2 = u2
  d1 = d1
  d2 = d2
  Users = {u1, u2}
  Blank = Blank
  Pseudonyms = {p1, p2}
  Dates = {d1, d2}
  Activities <- MCActivities
  Responses <- MCResponses
  None = None
CHECK_DEADLOCK FALSE
INVARIANTS
  TypeOK
  AcceptedWhenAcceptable
  NothingFailsOncePublished
  CheckpointsCountTheUsers
  GaugesSumTheEvents
  PreviewSumsTheEvents
PROPERTY
  ImplementsCollection
