SPECIFICATION FairSpec
CONSTANTS
  Params <- MCParams
  Need = 2
  Files <- MCFiles
  Lines <- MCLines
  Media <- MCMedia
  Served = "new"
  CardFiles <- MCCardFiles
  DiskFiles <- MCDiskFiles
INVARIANTS
  TypeOK
  FailureIsClean
  Released
  InStep
  MountedWhileOpen
  Configured
  SureKept
PROPERTY
  FtpEnds
