CONSTANTS
  Clients = {c1, c2}
  MaxFd = 3
  NDrives = 2
  BufCap = 1
  UpdStarted = TRUE
  Free = Free
  Listener = Listener
  DevMain = DevMain
  DevUpd = DevUpd
SPECIFICATION FairSpec
INVARIANT WritesReachNoDevice
INVARIANT NoLiveClientLost
INVARIANT ServiceInv
PROPERTY SetStableWhileIterated
PROPERTY StreamOrder
PROPERTY SignalEndsService
PROPERTY ClientIsRegistered
