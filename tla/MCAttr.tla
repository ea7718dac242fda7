------------------------------- MODULE MCAttr --------------------------------
(* Values for the runs of SMARTattr: three times of one bit longs.         *)
EXTENDS SMARTattr

OneBit == <<<<{0}, {}>>, <<{}, {0}>>, <<{0}, {0}>>>>
=============================================================================
