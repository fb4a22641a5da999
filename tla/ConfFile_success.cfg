SPECIFICATION Spec
CONSTANTS
  Params <- MCParams
  Need = 2
  Files <- MCFiles
  Lines <- MCLines
  Media <- MCMedia
  Served = "new"
  CardFiles <- MCCardFiles
  DiskFiles <- MCDiskFiles
INVARIANT SuccessIsWhole
