SPECIFICATION FairSpec
CONSTANTS
  MaxRecords = 2
  MaxCmds = 1
  MaxPk = 2
  PayLen = 2
  CmdIds <- MCReset
  DoReport <- MCDoReport
  CpuReset <- MCCpuReset
  CmdAnyTime = TRUE
INVARIANT
  NoRecordUngranted
PROPERTIES
  EndsForAReason
  WaitEnds
  RestartStops
