SPECIFICATION FairSpec
CONSTANTS
  Scenarios <- MCScenarios
  FullTank = 3
  EmptyTank = 10
  FuelMod = 16
  MaxStay = 6
INVARIANTS
  TypeOK
  MovesReady
  TankHolds
PROPERTIES
  LeavesParkReady
  WaitsEnd
