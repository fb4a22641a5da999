SPECIFICATION FairSpec
CONSTANTS
  Relays <- MCRelays
  IgnA = 7
  IgnB = 8
  Pins <- MCPins
  MaxTime = 2
  MaxCmds = 2
INVARIANTS
  TypeOK
  TimersMatch
  PinsReported
PROPERTIES
  ChangesOnlyWhenNamed
  TimedGoesOff
