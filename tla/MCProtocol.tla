----------------------------- MODULE MCProtocol ------------------------------
(* The instances of SMARTmonitorProtocol that TLC checks; all constants    *)
(* are given in the configurations.                                        *)
EXTENDS SMARTmonitorProtocol
=============================================================================
