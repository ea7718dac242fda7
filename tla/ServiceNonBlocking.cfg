CONSTANTS
  Clients = {c1}
  MaxFd = 4
  NDrives = 1
  BufCap = 1
  UpdStarted = TRUE
  Free = Free
  Listener = Listener
  DevMain = DevMain
  DevUpd = DevUpd
SPECIFICATION ServerFairSpec
PROPERTY SendRoundEnds
