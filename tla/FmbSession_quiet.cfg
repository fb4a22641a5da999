SPECIFICATION FairSpec
CONSTANTS
  MaxRecords = 2
  MaxCmds = 2
  MaxPk = 2
  PayLen = 2
  CmdIds <- MCTwoCmdIds
  DoReport <- MCDoReport
  CpuReset <- MCCpuReset
  CmdAnyTime = FALSE
INVARIANTS
  TypeOK
  InFrame
  NoFalseAck
  AckMatchesPacket
  CommandsInOrder
  QuietInv
PROPERTIES
  StopAndWaitRecords
  CommandsServed
