SPECIFICATION FairSpec
CONSTANTS
  MaxFd <- MCMaxFd
  Threads = {t1, t2}
  PostedFirst = TRUE
INVARIANTS ClientInv
PROPERTIES DisconnectedStays DisconnectEndsUnlessLost AnotherAttempt
CHECK_DEADLOCK FALSE
