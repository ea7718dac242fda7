------------------------------ MODULE MCStatus -------------------------------
(* Values for the attributes of SMARTmonitorStatus.                        *)
EXTENDS SMARTmonitorStatus

V(raw, curr, thresh) == [raw |-> raw, curr |-> curr, thresh |-> thresh]

(* Two manufacturer-rated attributes, each good or at its threshold.       *)
TwoMfr == [a \in Attrs |-> "mfr"]
GoodOrBad == [a \in Attrs |-> {V(0, 100, 10), V(0, 10, 10)}]
=============================================================================
