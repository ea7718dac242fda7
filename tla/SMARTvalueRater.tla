--------------------------- MODULE SMARTvalueRater ---------------------------
(***************************************************************************)
(* The rating of an attribute value (src/src/SMARTvalueRater.hpp): a       *)
(* number that is 1 for the best and -1 for the worst value.               *)
(*                                                                         *)
(* A rating is a fraction, with the exact result of the divisions that the *)
(* code does in floating point. A value is what the drive reports of an    *)
(* attribute: "raw" is the value in its unit (degrees Celsius, percent, a  *)
(* number of errors), "curr" and "thresh" are the normalized value and its *)
(* threshold; "thresh" is also the threshold of NVMe's available spare.    *)
(***************************************************************************)
EXTENDS Integers

CONSTANTS
  UintRange,  \* number of values of a faststUint, a type of a library
  LongRange   \* number of values of a long int

ASSUME UintAssumption == UintRange \in Nat /\ UintRange > 512 /\ LongRange \in Nat

Bytes == 0..255   \* normalized values and thresholds
Values == [raw : Int, curr : Bytes, thresh : Bytes]

(* The attributes the rating tells apart, ATA and NVMe.                    *)
ATAKinds == {"mfr", "mfr200", "DevTemp"}
NVMeKinds == {"CompositeTemperature", "AvailableSpare", "PercentageUsed", "MediaErrors", "other"}
Kinds == ATAKinds \cup NVMeKinds

Frac(n, d) == [n |-> n, d |-> d]
Less(r, s) == r.n * s.d < s.n * r.d

BestRtgVal == Frac(1, 1)
WorstRtgVal == Frac(-1, 1)
OK == Frac(1, 1)
AtLeast1Warn == Frac(0, 1)
Unknown == Frac(3, 1)        \* a value of enum Rslt, not of the range
WarnThresh == Frac(1, 2)     \* SMARTattrValAbs1RngWarnThresh
MaxWarnTemp == 25
MinWarnTemp == 46
MinCritTemp == 69

(* setMaxNrmlzdVals: two attributes start at 200, all others at 100.       *)
maxNrmlzdVals(kind) == IF kind = "mfr200" THEN 200 ELSE 100

(* Mutant: the threshold is left out.                                      *)
mfrRtgFromZero(kind, v) ==
  IF v.curr >= maxNrmlzdVals(kind) THEN Frac(1, 1) ELSE Frac(v.curr, maxNrmlzdVals(kind))

getNxtGtrMaxNrmlzdVal(max, v) ==
  IF max < 200 /\ (max < v.thresh \/ max < v.curr) THEN 200 ELSE max

(* Mutant: a value above the assumed maximum is not cut off.               *)
Get1ToMns1RngNotCut(max, v) ==
  IF v.curr > v.thresh /\ max > v.thresh THEN Frac(v.curr - v.thresh, max - v.thresh) ELSE Frac(-1, 1)

ScaledQuotient(divisor, divident, thresh) ==
  IF divident = 0 THEN Frac(0, 1)
  ELSE IF divisor > divident THEN Frac(1, 1)
  ELSE IF divisor > 0 THEN Frac(divisor, divident)
  ELSE IF divisor = 0 THEN Frac(-1, 1)
  ELSE Frac(divisor, thresh)

(* Differences are unsigned: that of a smaller and a greater value wraps.  *)
UintDifference(x, y) == IF x >= y THEN x - y ELSE x - y + UintRange

(* The divisor is the unsigned difference as a long int, which is negative *)
(* again unless a long int is wider than a faststUint.                     *)
Wraps(v) == v.curr < v.thresh /\ UintRange < LongRange
LongDifference(v) ==
  IF Wraps(v) THEN UintDifference(v.curr, v.thresh) ELSE v.curr - v.thresh

Get1ToMns1Rng(max, v) ==
  ScaledQuotient(LongDifference(v), UintDifference(max, v.thresh), v.thresh)

maxNrmlzdVal(kind, v) == getNxtGtrMaxNrmlzdVal(maxNrmlzdVals(kind), v)
mfrRtg(kind, v) == Get1ToMns1Rng(maxNrmlzdVal(kind, v), v)

(* Mutant: the wrong one of two ratios.                                    *)
GetIntoRtgRngSwapped(best, worst, val) ==
  IF best < worst THEN Frac(2 * val - worst, worst)
                  ELSE Frac(2 * (best - val) - best, best)

(* 2 * ratio to the best value - 1.                                        *)
GetIntoRtgRng(best, worst, val) ==
  IF best >= worst THEN Frac(2 * val - best, best)
                   ELSE Frac(2 * (worst - val) - worst, worst)

RateAccDegCelsius(temp) ==
  IF temp > MinCritTemp THEN WorstRtgVal
  ELSE IF temp > MinWarnTemp
       THEN GetIntoRtgRng(MinWarnTemp - (MinCritTemp - MinWarnTemp), MinCritTemp, temp)
  ELSE IF temp < MaxWarnTemp THEN WorstRtgVal
  ELSE BestRtgVal

GetPrcntUsdRtng(used) == GetIntoRtgRng(0, 100, used)

(* The comparison with the threshold has no effect: its "return" is        *)
(* missing.                                                                *)
AvailSpareRtg(v) == GetIntoRtgRng(100, v.thresh, v.raw)

NVMe_SMART_rtg(kind, v) ==
  CASE kind = "CompositeTemperature" -> RateAccDegCelsius(v.raw)
    [] kind = "AvailableSpare"       -> AvailSpareRtg(v)
    [] kind = "PercentageUsed"       -> GetPrcntUsdRtng(v.raw)
    [] kind = "MediaErrors"          -> IF v.raw = 0 THEN OK ELSE AtLeast1Warn
    [] OTHER                         -> Unknown

(* ATA_SMART_rtg asks for the rating of its own only for temperatures, so  *)
(* the other cases of ATA_SMART_own_Rtg are never reached.                 *)
ATA_SMART_own_Rtg(v) == RateAccDegCelsius(v.raw)
ATA_SMART_rtg(kind, v) ==
  IF kind = "DevTemp" THEN ATA_SMART_own_Rtg(v) ELSE mfrRtg(kind, v)

GetSMARTattrValRtng(kind, v) ==
  IF kind \in NVMeKinds THEN NVMe_SMART_rtg(kind, v) ELSE ATA_SMART_rtg(kind, v)

(* What a value that must not go unnoticed is: ATA's normalized value has  *)
(* reached its threshold, the drive is too hot or too cold, half of its    *)
(* life or its reserve is used up, or there were errors.                   *)
InAlarm(kind, v) ==
  CASE kind \in {"mfr", "mfr200"} -> v.curr <= v.thresh
    [] kind \in {"DevTemp", "CompositeTemperature"} -> v.raw > MinWarnTemp \/ v.raw < MaxWarnTemp
    [] kind = "AvailableSpare" -> v.raw <= v.thresh
    [] kind = "PercentageUsed" -> v.raw >= 50
    [] kind = "MediaErrors" -> v.raw > 0
    [] OTHER -> FALSE

(* Values in alarm that the code nevertheless rates above the threshold    *)
(* for warnings: a spare of 75 % and more, as the worst rating is          *)
(* evaluated and not returned (AvailSpareRtg; a threshold above 100 %      *)
(* turns the scale around), and where the difference wraps.                *)
RatedGood(kind, v) ==
  CASE kind \in {"mfr", "mfr200"} -> Wraps(v) /\ maxNrmlzdVal(kind, v) # v.thresh
    [] kind = "AvailableSpare" -> IF v.thresh <= 100 THEN v.raw >= 75 ELSE 4 * v.raw <= v.thresh
    [] OTHER -> FALSE

(* Values outside of what their scale is made for: more than 100 % used,   *)
(* more spare than 100 % (or than the threshold).                          *)
OffScale(kind, v) ==
  CASE kind = "PercentageUsed" -> v.raw \notin 0..100
    [] kind = "AvailableSpare" -> v.raw < 0 \/ (v.raw > 100 /\ v.raw > v.thresh)
    [] OTHER -> FALSE

(* b is a worse value than a of the same attribute (and drive).            *)
Worse(kind, b, a) ==
  CASE kind \in {"mfr", "mfr200"} -> b.thresh = a.thresh /\ b.curr < a.curr
    [] kind \in {"DevTemp", "CompositeTemperature"} -> b.raw > a.raw /\ a.raw >= MaxWarnTemp
    [] kind = "AvailableSpare" -> b.thresh = a.thresh /\ b.raw < a.raw
    [] kind \in {"PercentageUsed", "MediaErrors"} -> b.raw > a.raw
    [] OTHER -> FALSE
=============================================================================
