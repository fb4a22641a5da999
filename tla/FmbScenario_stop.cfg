SPECIFICATION Spec
CONSTANTS
  Scenarios <- MCConfTxt
  FullTank = 3
  EmptyTank = 10
  FuelMod = 16
  MaxStay = 6
INVARIANT
  StopLasts
