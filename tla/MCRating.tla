------------------------------ MODULE MCRating -------------------------------
(* Values that drives report.                                              *)
EXTENDS SMARTrating

V(raw, curr, thresh) == [raw |-> raw, curr |-> curr, thresh |-> thresh]

(* Normalized values and thresholds around 0, 100, 200 and 255.            *)
Norms == {0, 1, 10, 54, 55, 56, 99, 100, 101, 140, 199, 200, 201, 254, 255}
ATAReports ==
  ({"mfr", "mfr200"} \X {V(0, c, t) : c \in Norms, t \in Norms})
  \cup ({"DevTemp"} \X {V(t, 0, 0) : t \in -10..100})

(* Percentages are bytes, which drives may set to more than 100: spares at *)
(* and around their thresholds, and more than 100 % of the life used.      *)
Spares == (0..100) \cup {101, 199, 200, 201, 255}
SpareThreshs == {0, 10, 74, 75, 76, 90, 99, 100, 101, 200, 255}
NVMeReports ==
  ({"CompositeTemperature"} \X {V(t, 0, 0) : t \in -10..100})
  \cup ({"AvailableSpare"} \X {V(s, 0, t) : s \in Spares, t \in SpareThreshs})
  \cup ({"PercentageUsed"} \X {V(u, 0, 0) : u \in 0..255})
  \cup ({"MediaErrors", "other"} \X {V(e, 0, 0) : e \in 0..9})

AllReports == ATAReports \cup NVMeReports
=============================================================================
