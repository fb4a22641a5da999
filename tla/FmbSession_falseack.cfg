SPECIFICATION Spec
CONSTANTS
  MaxRecords = 2
  MaxCmds = 2
  MaxPk = 2
  PayLen = 2
  CmdIds <- MCCmdIds
  DoReport <- MCDoReport
  CpuReset <- MCCpuReset
  CmdAnyTime = TRUE
INVARIANT
  NoFalseAck
