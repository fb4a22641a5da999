SPECIFICATION FairSpec
CONSTANTS
  Grace = 2
  MaxLaunches = 1
PROPERTY
  RestartHappens
