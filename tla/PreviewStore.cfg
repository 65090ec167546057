SPECIFICATION Spec
CONSTANTS
  Docs = {d1, d2}
  Gateways = {g1, g2}
  MaxCrashes = 1
  MaxPowerLosses = 1
  None = None
INVARIANTS TypeOK DestinationIsWhole OutcomeTellsTheTruth NoStrayTemporaries
PROPERTY ImplementsRegister
