SPECIFICATION FairSpec
CONSTANTS
  NDrives = 2
  DocLens = {5}
  LenRange = 64
  BufCap = 2
  MaxRounds = 4
PROPERTY ValuesArrive
CHECK_DEADLOCK FALSE
