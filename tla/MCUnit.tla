------------------------------- MODULE MCUnit --------------------------------
(* The instances of SMARTunit that TLC checks; all constants are given in  *)
(* the configurations.                                                     *)
EXTENDS SMARTunit
=============================================================================
