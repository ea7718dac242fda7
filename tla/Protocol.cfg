SPECIFICATION FairSpec
CONSTANTS
  NDrives = 3
  DocLens = {4, 5, 6, 8}
  LenRange = 16
  BufCap = 2
  MaxRounds = 3
INVARIANTS ProtocolInv MessagesWhole
PROPERTIES NeverOlder FirstDriveArrives
CHECK_DEADLOCK FALSE
