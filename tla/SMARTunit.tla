------------------------------ MODULE SMARTunit ------------------------------
(***************************************************************************)
(* The unit of a raw value (power-on time, data written, data read) is     *)
(* estimated where the drive is accessed: each reading compares the raw    *)
(* value with another metric, such as the uptime or the bytes written      *)
(* since the operating system was started (possiblyAutoDetectUnit,         *)
(* guessUnit; src/src/attributes/SMARTuniqueID.hpp). The service sends the *)
(* estimate and its bounds, the client shows the raw value with them       *)
(* (useDeterminedUnits).                                                   *)
(*                                                                         *)
(* The drive's real unit is in the model, so that the estimate can be      *)
(* compared with it: the raw value grows by one whenever another realUnit  *)
(* of the metric is complete. "greater" is the most significant bit of     *)
(* units[], which stands for "at least"; differences are taken to be less  *)
(* than that bit (long int of 64 bits).                                    *)
(***************************************************************************)
EXTENDS Integers

CONSTANTS
  RealUnits,  \* units a drive can have
  MaxStep,    \* growth of the metric between two readings, at most
  MaxMetric,  \* bound of the metric
  MaxUint64   \* 0xFF..FF, "not set yet"

ASSUME UnitAssumption ==
  /\ RealUnits \subseteq Nat \ {0}
  /\ MaxStep \in Nat /\ MaxMetric \in Nat /\ MaxUint64 \in Nat
  /\ MaxMetric < MaxUint64

VARIABLES
  realUnit,  \* how much of the metric makes up 1 of the raw value
  phase,     \* how much of it had been counted before the start
  metric,    \* the other metric at the last reading
  det,       \* the detection's variables for this attribute
  copy       \* the client's units, lowerUnitBound and upperUnitBound

vars == <<realUnit, phase, metric, det, copy>>

States == {"getMinUnit", "getUnitTillValInc", "getUnit"}
Estimates == [unit : Nat, greater : BOOLEAN, lower : Nat, upper : Nat]

TypeOK ==
  /\ realUnit \in RealUnits /\ phase \in 0..realUnit - 1 /\ metric \in 0..MaxMetric
  /\ det \in [state : States, otherMetricVal : Nat, prevRawVal : Nat, rawValDiff : Nat,
              est : Estimates]
  /\ copy \in Estimates

(* The raw value of a drive when the metric is m.                          *)
RawVal(m) == (phase + m) \div realUnit

NoEstimate == [unit |-> 0, greater |-> FALSE, lower |-> 0, upper |-> 0]

(* initAttrVals.                                                           *)
Init ==
  /\ realUnit \in RealUnits
  /\ phase \in 0..realUnit - 1
  /\ metric = 0
  /\ det = [state |-> "getMinUnit", otherMetricVal |-> MaxUint64,
            prevRawVal |-> MaxUint64, rawValDiff |-> 0, est |-> NoEstimate]
  /\ copy = NoEstimate

-----------------------------------------------------------------------------
(* guessUnit, by its state.                                                *)

Memorize(raw, other) == [det EXCEPT !.otherMetricVal = other, !.prevRawVal = raw]

(* Mutant: the values of the first increase are not memorized.             *)
GetMinUnitNotMemorized(raw, other) ==
  LET d == other - det.otherMetricVal IN
  IF other < det.otherMetricVal THEN Memorize(raw, other)
  ELSE IF raw > det.prevRawVal
  THEN [det EXCEPT !.state = "getUnitTillValInc", !.prevRawVal = raw,
          !.est = [@ EXCEPT !.unit = d, !.greater = FALSE, !.lower = d]]
  ELSE [det EXCEPT !.est = [@ EXCEPT !.unit = d, !.greater = TRUE]]

(* Mutant: that the raw value has grown is not noticed.                    *)
GetMinUnitForever(raw, other) ==
  IF other < det.otherMetricVal THEN Memorize(raw, other)
  ELSE [det EXCEPT !.est = [@ EXCEPT !.unit = other - det.otherMetricVal, !.greater = TRUE]]

GetMinUnit(raw, other) ==
  LET d == other - det.otherMetricVal IN
  IF other < det.otherMetricVal THEN Memorize(raw, other)
  ELSE IF raw > det.prevRawVal
  THEN [Memorize(raw, other) EXCEPT !.state = "getUnitTillValInc",
          !.est = [@ EXCEPT !.unit = d, !.greater = FALSE, !.lower = d]]
  ELSE [det EXCEPT !.est = [@ EXCEPT !.unit = d, !.greater = TRUE]]

GetUnitTillValInc(raw, other) ==
  LET d == other - det.otherMetricVal
      rd == raw - det.prevRawVal
      lo == IF d > det.est.lower THEN d ELSE det.est.lower
  IN
  IF raw > det.prevRawVal
  THEN [det EXCEPT !.state = "getUnit", !.rawValDiff = rd,
          !.est = [unit |-> d \div rd, greater |-> FALSE,
                   lower |-> d \div rd, upper |-> d \div rd]]
  ELSE [det EXCEPT !.est = [@ EXCEPT !.unit = d, !.greater = TRUE, !.lower = lo]]

(* The middle of the bounds after u has widened them.                      *)
Widened(est, u) ==
  LET lo == IF u < est.lower THEN u ELSE est.lower
      up == IF u >= est.lower /\ u > est.upper THEN u ELSE est.upper
  IN [unit |-> lo + (up - lo) \div 2, greater |-> FALSE, lower |-> lo, upper |-> up]

(* A greater difference to the first increase than ever before.            *)
GetUnit(raw, other) ==
  LET rd == raw - det.prevRawVal IN
  IF raw > det.prevRawVal /\ rd > det.rawValDiff
  THEN [det EXCEPT !.rawValDiff = rd,
          !.est = Widened(@, (other - det.otherMetricVal) \div rd)]
  ELSE det

guessUnit(raw, other) ==
  CASE det.state = "getMinUnit"        -> GetMinUnit(raw, other)
    [] det.state = "getUnitTillValInc" -> GetUnitTillValInc(raw, other)
    [] det.state = "getUnit"           -> GetUnit(raw, other)

(* The next reading of the drive.                                          *)
possiblyAutoDetectUnit(step) ==
  /\ metric + step <= MaxMetric
  /\ metric' = metric + step
  /\ det' = guessUnit(RawVal(metric + step), metric + step)
  /\ UNCHANGED <<realUnit, phase, copy>>

-----------------------------------------------------------------------------
(* BeforeWait writes attributes that are not 0, units with their most      *)
(* significant bit as ">"; HandleSingleSMARTentry reads them, bounds that  *)
(* are missing as 0, and keeps units[] when there is no "unit".            *)

(* Mutant: the unit and its ">" are taken only once.                       *)
HandleFirstUnit ==
  IF copy.unit # 0 \/ (det.est.unit = 0 /\ ~det.est.greater)
  THEN [det.est EXCEPT !.unit = copy.unit, !.greater = copy.greater]
  ELSE det.est

HandleSingleSMARTentry ==
  IF det.est.unit = 0 /\ ~det.est.greater
  THEN [det.est EXCEPT !.unit = copy.unit, !.greater = copy.greater]
  ELSE det.est

Transmit ==
  /\ copy' = HandleSingleSMARTentry
  /\ UNCHANGED <<realUnit, phase, metric, det>>

(* useDeterminedUnits: what 1 of the raw value is shown to be, if the unit *)
(* without its "at least" bit is not 0.                                    *)
ShownUnit ==
  IF copy.greater /\ copy.lower # 0 THEN copy.lower ELSE copy.unit

-----------------------------------------------------------------------------
Next == (\E step \in 0..MaxStep : possiblyAutoDetectUnit(step)) \/ Transmit
Spec == Init /\ [][Next]_vars

-----------------------------------------------------------------------------
(* Once the unit is determined the bounds and the unit between them are    *)
(* off by less than what the metric grows between two readings, however    *)
(* readings fall between increases (guessUnit).                            *)
EstimateError ==
  det.state = "getUnit" =>
    /\ realUnit - MaxStep <= det.est.lower
    /\ det.est.lower <= det.est.unit /\ det.est.unit <= det.est.upper
    /\ det.est.upper <= realUnit + MaxStep

(* As long as the raw value has not grown the estimate is what its state   *)
(* says: "real unit >= this value".                                        *)
MinUnitIsMinimum == det.state = "getMinUnit" => det.est.unit <= realUnit

(* What the client shows, however late it is: a unit exceeds the real one  *)
(* by no more than what the metric grows between two readings; one with    *)
(* bounds on both sides is shown without ">=" and is not more than that    *)
(* below it either (HandleSingleSMARTentry, useDeterminedUnits). Every     *)
(* variable stays in its range.                                            *)
UnitShown ==
  copy.unit # 0 => /\ ShownUnit <= realUnit + MaxStep
                   /\ copy.upper # 0 => ~copy.greater /\ realUnit - MaxStep <= ShownUnit
ShownInv == TypeOK /\ UnitShown
=============================================================================
