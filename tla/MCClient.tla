------------------------------ MODULE MCClient -------------------------------
(* The instance of SMARTmonitorClient that TLC checks: two connections and *)
(* two update threads are enough for an old and a new one of each.         *)
EXTENDS SMARTmonitorClient

MCMaxFd == 2
==============================================================================
