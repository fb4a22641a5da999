SPECIFICATION FairSpec
CONSTANTS
  Printers <- MCPrinters
  Cap = 2
  MaxMsgs = 2
  MaxClients = 2
INVARIANTS
  TypeOK
  NoLeak
  InOrder
  StaleBounded
PROPERTIES
  ImplementsLossyFifo
  Drains
