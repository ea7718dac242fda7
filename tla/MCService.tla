----------------------------- MODULE MCService ------------------------------
(* The instances of SMARTmonitorService that TLC checks; all constants are *)
(* given in the configurations.                                            *)
EXTENDS SMARTmonitorService
=============================================================================
