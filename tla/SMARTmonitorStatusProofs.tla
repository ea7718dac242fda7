----------------------- MODULE SMARTmonitorStatusProofs ----------------------
(***************************************************************************)
(* Proofs about the rating, for all reported values and all sizes of       *)
(* integers; and that a warning that is taken as shown is shown and that   *)
(* the variables keep their types, for any number of attributes, whatever  *)
(* they are rated and whoever stores their values.                         *)
(***************************************************************************)
EXTENDS SMARTrating, SMARTmonitorStatus, TLAPS

-----------------------------------------------------------------------------
(* The rating.                                                             *)

(* A fraction that is no better than the best and no worse than the worst. *)
InRange(r) == r \in [n : Int, d : Int] /\ r.d > 0 /\ r.n <= r.d /\ 0 - r.d <= r.n

(* ScaledQuotient, case by case.                                           *)
LEMMA QuotientRating ==
  ASSUME NEW q \in Int, NEW D \in Nat, NEW t \in Nat, 0 - t <= q
  PROVE  /\ InRange(ScaledQuotient(q, D, t))
         /\ q <= 0 \/ D = 0 => ScaledQuotient(q, D, t).n <= 0
<1> DEFINE r == ScaledQuotient(q, D, t)
<1>1. CASE D = 0
  <2>1. r = [n |-> 0, d |-> 1]
    BY <1>1 DEF ScaledQuotient, Frac
  <2> QED BY <2>1 DEF InRange
<1>2. CASE D # 0 /\ q > D
  <2>1. r = [n |-> 1, d |-> 1]
    BY <1>2 DEF ScaledQuotient, Frac
  <2> QED BY <2>1, <1>2 DEF InRange
<1>3. CASE D # 0 /\ ~(q > D) /\ q > 0
  <2>1. r = [n |-> q, d |-> D]
    BY <1>3 DEF ScaledQuotient, Frac
  <2> QED BY <2>1, <1>3 DEF InRange
<1>4. CASE D # 0 /\ q = 0
  <2>1. r = [n |-> -1, d |-> 1]
    BY <1>4 DEF ScaledQuotient, Frac
  <2> QED BY <2>1 DEF InRange
<1>5. CASE D # 0 /\ q < 0
  <2>1. r = [n |-> q, d |-> t]
    BY <1>5 DEF ScaledQuotient, Frac
  <2> QED BY <2>1, <1>5 DEF InRange
<1>6. QED
  BY <1>1, <1>2, <1>3, <1>4, <1>5

(* A difference of bytes that wraps is far above all bytes.                *)
LEMMA DifferenceType ==
  ASSUME NEW x \in 0..255, NEW y \in 0..255
  PROVE  /\ UintDifference(x, y) \in Nat
         /\ x >= y => UintDifference(x, y) = x - y
         /\ x < y => UintDifference(x, y) = x - y + UintRange /\ UintDifference(x, y) > 256
BY UintAssumption DEF UintDifference

(* The distances that mfrRtg divides.                                      *)
LEMMA MfrQuotient ==
  ASSUME NEW k \in {"mfr", "mfr200"}, NEW v \in Values
  PROVE  /\ maxNrmlzdVal(k, v) \in {100, 200}
         /\ maxNrmlzdVal(k, v) < v.thresh => maxNrmlzdVal(k, v) = 200
         /\ v.curr \in 0..255 /\ v.thresh \in 0..255
         /\ UintDifference(maxNrmlzdVal(k, v), v.thresh) \in Nat
         /\ mfrRtg(k, v) = ScaledQuotient(LongDifference(v),
                             UintDifference(maxNrmlzdVal(k, v), v.thresh), v.thresh)
<1>1. maxNrmlzdVal(k, v) \in {100, 200}
  BY DEF maxNrmlzdVal, getNxtGtrMaxNrmlzdVal, maxNrmlzdVals
<1>2. v.curr \in 0..255 /\ v.thresh \in 0..255
  BY DEF Values, Bytes
<1>3. maxNrmlzdVal(k, v) < v.thresh => maxNrmlzdVal(k, v) = 200
  BY <1>2 DEF maxNrmlzdVal, getNxtGtrMaxNrmlzdVal, maxNrmlzdVals
<1>4. maxNrmlzdVal(k, v) \in 0..255
  BY <1>1
<1>5. UintDifference(maxNrmlzdVal(k, v), v.thresh) \in Nat
  BY <1>2, <1>4, DifferenceType
<1>6. mfrRtg(k, v) = ScaledQuotient(LongDifference(v),
                       UintDifference(maxNrmlzdVal(k, v), v.thresh), v.thresh)
  BY DEF mfrRtg, Get1ToMns1Rng
<1> QED BY <1>1, <1>2, <1>3, <1>5, <1>6

(* The divident of Get1ToMns1Rng wraps, but is never negative; a value up  *)
(* to the threshold is not rated positive, unless its difference wraps.    *)
LEMMA MfrRating ==
  ASSUME NEW k \in {"mfr", "mfr200"}, NEW v \in Values
  PROVE  /\ InRange(mfrRtg(k, v))
         /\ v.curr <= v.thresh /\ (~Wraps(v) \/ maxNrmlzdVal(k, v) = v.thresh)
              => mfrRtg(k, v).n <= 0
<1> DEFINE D == UintDifference(maxNrmlzdVal(k, v), v.thresh)
           q == LongDifference(v)
           t == v.thresh
<1>1. t \in Nat /\ D \in Nat /\ mfrRtg(k, v) = ScaledQuotient(q, D, t)
  BY MfrQuotient
<1>2. q \in Int /\ 0 - t <= q /\ (v.curr <= t /\ ~Wraps(v) => q <= 0)
  <2>0. v.curr \in 0..255 /\ t \in 0..255
    BY MfrQuotient
  <2>1. CASE Wraps(v)
    <3>1. q = UintDifference(v.curr, t)
      BY <2>1 DEF LongDifference
    <3> HIDE DEF q, t
    <3>2. UintDifference(v.curr, t) \in Nat
      BY <2>0, DifferenceType
    <3> QED BY <2>0, <2>1, <3>1, <3>2
  <2>2. CASE ~Wraps(v)
    <3>1. q = v.curr - t
      BY <2>2 DEF LongDifference
    <3> HIDE DEF q, t
    <3> QED BY <2>0, <2>2, <3>1
  <2> QED BY <2>1, <2>2
<1>3. maxNrmlzdVal(k, v) = t => D = 0
  <2>1. t \in 0..255 /\ D = UintDifference(maxNrmlzdVal(k, v), t)
    BY MfrQuotient
  <2>2. UintDifference(t, t) = 0
    <3> HIDE DEF t
    <3> QED BY <2>1 DEF UintDifference
  <2> QED BY <2>1, <2>2, Zenon
<1> HIDE DEF D, q, t
<1>4. /\ InRange(ScaledQuotient(q, D, t))
      /\ q <= 0 \/ D = 0 => ScaledQuotient(q, D, t).n <= 0
  BY <1>1, <1>2, QuotientRating
<1> QED BY <1>1, <1>2, <1>3, <1>4 DEF t

(* A value below its threshold whose difference wraps is rated at least as *)
(* half of the best.                                                       *)
LEMMA WrappedRating ==
  ASSUME NEW k \in {"mfr", "mfr200"}, NEW v \in Values, Wraps(v),
         maxNrmlzdVal(k, v) # v.thresh
  PROVE  ~Less(mfrRtg(k, v), WarnThresh)
<1> DEFINE m == maxNrmlzdVal(k, v)
           D == UintDifference(m, v.thresh)
           t == v.thresh
           c == v.curr
           q == UintDifference(c, t)
           r == ScaledQuotient(q, D, t)
<1>1. m \in {100, 200} /\ (m < t => m = 200) /\ c \in 0..255 /\ t \in 0..255
  BY MfrQuotient
<1>2. mfrRtg(k, v) = r
  BY MfrQuotient DEF LongDifference
<1>6. m # t /\ c < t
  BY DEF Wraps
<1>u. q = UintDifference(c, t) /\ D = UintDifference(m, t)
  OBVIOUS
<1> HIDE DEF m, D, t, c, q
<1>3. q \in Nat /\ q = c - t + UintRange /\ q > 256
  BY <1>1, <1>6, <1>u, UintAssumption DEF UintDifference
<1>4. m >= t => D = m - t
  BY <1>1, <1>u DEF UintDifference
<1>5. m < t => D = 200 - t + UintRange
  BY <1>1, <1>u DEF UintDifference
<1>7. D \in Nat /\ D # 0 /\ D <= 2 * q
  BY <1>1, <1>3, <1>4, <1>5, <1>6, UintAssumption
<1>8. CASE q > D
  <2>1. r = [n |-> 1, d |-> 1]
    BY <1>7, <1>8 DEF ScaledQuotient, Frac
  <2> QED BY <1>2, <2>1 DEF Less, WarnThresh, Frac
<1>9. CASE ~(q > D)
  <2>1. r = [n |-> q, d |-> D]
    BY <1>3, <1>7, <1>9 DEF ScaledQuotient, Frac
  <2> QED BY <1>2, <1>3, <1>7, <2>1 DEF Less, WarnThresh, Frac
<1> QED BY <1>8, <1>9

(* The rating of a temperature.                                            *)
LEMMA TempRating ==
  ASSUME NEW t \in Int
  PROVE  /\ InRange(RateAccDegCelsius(t))
         /\ t > MinWarnTemp \/ t < MaxWarnTemp => RateAccDegCelsius(t).n < 0
<1> USE DEF MinWarnTemp, MaxWarnTemp, MinCritTemp
<1> DEFINE r == RateAccDegCelsius(t)
<1>1. CASE t > 69 \/ t < 25
  <2>1. r = [n |-> -1, d |-> 1]
    BY <1>1 DEF RateAccDegCelsius, WorstRtgVal, Frac
  <2> QED BY <2>1 DEF InRange
<1>2. CASE t > 46 /\ ~(t > 69)
  <2>1. r = [n |-> 2 * (69 - t) - 69, d |-> 69]
    BY <1>2 DEF RateAccDegCelsius, GetIntoRtgRng, Frac
  <2> QED BY <2>1, <1>2 DEF InRange
<1>3. CASE ~(t > 46) /\ ~(t < 25)
  <2>1. r = [n |-> 1, d |-> 1]
    BY <1>3 DEF RateAccDegCelsius, BestRtgVal, Frac
  <2> QED BY <2>1, <1>3 DEF InRange
<1>4. QED
  BY <1>1, <1>2, <1>3

(* A fraction that is not positive is below the threshold for warnings.    *)
LEMMA NotPositiveWarns ==
  ASSUME NEW r, InRange(r), r.n <= 0
  PROVE  Less(r, WarnThresh)
BY DEF InRange, Less, WarnThresh, Frac

(* The rating of any value of an attribute.                                *)
LEMMA RatingOf ==
  ASSUME NEW k \in Kinds, NEW v \in Values, InAlarm(k, v)
  PROVE  Less(GetSMARTattrValRtng(k, v), WarnThresh) <=> ~RatedGood(k, v)
<1> DEFINE r == GetSMARTattrValRtng(k, v)
<1>0. v.raw \in Int /\ v.curr \in 0..255 /\ v.thresh \in 0..255
  BY DEF Values, Bytes
<1>1. CASE k \in {"mfr", "mfr200"}
  <2>1. r = mfrRtg(k, v)
    BY <1>1 DEF GetSMARTattrValRtng, ATA_SMART_rtg, NVMeKinds
  <2>2. v.curr <= v.thresh
    BY <1>1 DEF InAlarm
  <2>3. RatedGood(k, v) <=> Wraps(v) /\ maxNrmlzdVal(k, v) # v.thresh
    BY <1>1 DEF RatedGood
  <2>4. CASE RatedGood(k, v)
    BY <1>1, <2>1, <2>3, <2>4, WrappedRating
  <2>5. CASE ~RatedGood(k, v)
    <3>1. InRange(mfrRtg(k, v)) /\ mfrRtg(k, v).n <= 0
      BY <1>1, <2>2, <2>3, <2>5, MfrRating
    <3> QED BY <2>1, <2>5, <3>1, NotPositiveWarns
  <2> QED BY <2>4, <2>5
<1>2. CASE k \in {"DevTemp", "CompositeTemperature"}
  <2>1. r = RateAccDegCelsius(v.raw)
    BY <1>2 DEF GetSMARTattrValRtng, ATA_SMART_rtg, ATA_SMART_own_Rtg, NVMe_SMART_rtg, NVMeKinds
  <2>2. v.raw > MinWarnTemp \/ v.raw < MaxWarnTemp
    BY <1>2 DEF InAlarm
  <2>3. InRange(r) /\ r.n <= 0
    BY <1>0, <2>1, <2>2, TempRating DEF InRange
  <2>4. ~RatedGood(k, v)
    BY <1>2 DEF RatedGood
  <2> QED BY <2>3, <2>4, NotPositiveWarns
<1>3. CASE k = "AvailableSpare"
  <2>1. CASE v.thresh <= 100
    <3>1. r = [n |-> 2 * v.raw - 100, d |-> 100]
      BY <1>0, <1>3, <2>1 DEF GetSMARTattrValRtng, NVMe_SMART_rtg, AvailSpareRtg, GetIntoRtgRng, Frac, NVMeKinds
    <3>2. RatedGood(k, v) <=> v.raw >= 75
      BY <1>3, <2>1 DEF RatedGood
    <3> QED BY <1>0, <3>1, <3>2 DEF Less, WarnThresh, Frac
  <2>2. CASE ~(v.thresh <= 100)
    <3>1. r = [n |-> 2 * (v.thresh - v.raw) - v.thresh, d |-> v.thresh]
      BY <1>0, <1>3, <2>2 DEF GetSMARTattrValRtng, NVMe_SMART_rtg, AvailSpareRtg, GetIntoRtgRng, Frac, NVMeKinds
    <3>2. RatedGood(k, v) <=> 4 * v.raw <= v.thresh
      BY <1>3, <2>2 DEF RatedGood
    <3> QED BY <1>0, <3>1, <3>2 DEF Less, WarnThresh, Frac
  <2> QED BY <2>1, <2>2
<1>4. CASE k = "PercentageUsed"
  <2>1. r = [n |-> 2 * (100 - v.raw) - 100, d |-> 100]
    BY <1>0, <1>4 DEF GetSMARTattrValRtng, NVMe_SMART_rtg, GetPrcntUsdRtng, GetIntoRtgRng, Frac, NVMeKinds
  <2>2. v.raw >= 50
    BY <1>4 DEF InAlarm
  <2>3. ~RatedGood(k, v)
    BY <1>4 DEF RatedGood
  <2> QED BY <1>0, <2>1, <2>2, <2>3 DEF Less, WarnThresh, Frac
<1>5. CASE k = "MediaErrors"
  <2>1. r = IF v.raw = 0 THEN OK ELSE AtLeast1Warn
    BY <1>5 DEF GetSMARTattrValRtng, NVMe_SMART_rtg, NVMeKinds
  <2>2. v.raw > 0
    BY <1>5 DEF InAlarm
  <2>3. ~RatedGood(k, v)
    BY <1>5 DEF RatedGood
  <2> QED BY <1>0, <2>1, <2>2, <2>3 DEF Less, WarnThresh, Frac, AtLeast1Warn
<1>6. CASE k = "other"
  BY <1>6 DEF InAlarm
<1>7. QED
  BY <1>1, <1>2, <1>3, <1>4, <1>5, <1>6 DEF Kinds, ATAKinds, NVMeKinds

(* Where each state comes from: a reported value and its rating.           *)
RatingInv ==
  /\ <<kind, val>> \in Reports
  /\ rtg = GetSMARTattrValRtng(kind, val)

LEMMA RatingInvariance == RatingSpec => []RatingInv
<1>1. RatingInit => RatingInv
  <2> SUFFICES ASSUME RatingInit PROVE RatingInv
    OBVIOUS
  <2>1. PICK r \in Reports : kind = r[1] /\ val = r[2]
    BY DEF RatingInit
  <2>2. r = <<r[1], r[2]>>
    BY RatingAssumption
  <2> QED BY <2>1, <2>2 DEF RatingInit, RatingInv
<1>2. RatingInv /\ [RatingNext]_ratingVars => RatingInv'
  <2> SUFFICES ASSUME RatingInv, [RatingNext]_ratingVars PROVE RatingInv'
    OBVIOUS
  <2>1. CASE Report
    <3>1. PICK r \in Reports : r[1] = kind /\ val' = r[2]
      BY <2>1 DEF Report
    <3>2. r = <<r[1], r[2]>>
      BY RatingAssumption
    <3> QED BY <2>1, <3>1, <3>2 DEF Report, RatingInv
  <2>2. CASE UNCHANGED ratingVars
    BY <2>2 DEF RatingInv, ratingVars
  <2> QED BY <2>1, <2>2 DEF RatingNext
<1>3. QED
  BY <1>1, <1>2, PTL DEF RatingSpec

(* A value that must not go unnoticed is rated as a warning, for every     *)
(* value of every attribute, all thresholds and all widths of integers,    *)
(* but for a spare of 75 % and more and, where a long int is wider than a  *)
(* faststUint, a normalized value below its threshold; and for these it is *)
(* not (GetSMARTattrValRtng).                                              *)
THEOREM AlarmsAreWarnings == RatingSpec => []AlarmWarns
<1>1. RatingInv => AlarmWarns
  <2> SUFFICES ASSUME RatingInv PROVE AlarmWarns
    OBVIOUS
  <2>1. kind \in Kinds /\ val \in Values
    BY RatingAssumption DEF RatingInv
  <2> QED BY <2>1, RatingOf DEF RatingInv, AlarmWarns
<1>2. QED
  BY <1>1, RatingInvariance, PTL

(* Neither worse than the worst nor better than the best rating.           *)
Within(r) == ~Less(r, WorstRtgVal) /\ ~Less(BestRtgVal, r)

LEMMA InRangeWithin == ASSUME NEW r, InRange(r) PROVE Within(r)
BY DEF Within, InRange, Less, WorstRtgVal, BestRtgVal, Frac

(* The rating of a value is in the range if and only if the value is on    *)
(* its scale.                                                              *)
LEMMA RangeOf ==
  ASSUME NEW k \in Kinds, NEW v \in Values
  PROVE  \/ GetSMARTattrValRtng(k, v) = Unknown
         \/ Within(GetSMARTattrValRtng(k, v)) <=> ~OffScale(k, v)
<1> DEFINE r == GetSMARTattrValRtng(k, v)
<1>0. v.raw \in Int /\ v.thresh \in 0..255
  BY DEF Values, Bytes
<1>1. CASE k \in {"mfr", "mfr200"}
  <2>1. r = mfrRtg(k, v)
    BY <1>1 DEF GetSMARTattrValRtng, ATA_SMART_rtg, NVMeKinds
  <2>2. InRange(r)
    BY <1>1, <2>1, MfrRating
  <2>3. ~OffScale(k, v)
    BY <1>1 DEF OffScale
  <2> QED BY <2>2, <2>3, InRangeWithin
<1>2. CASE k \in {"DevTemp", "CompositeTemperature"}
  <2>1. r = RateAccDegCelsius(v.raw)
    BY <1>2 DEF GetSMARTattrValRtng, ATA_SMART_rtg, ATA_SMART_own_Rtg, NVMe_SMART_rtg, NVMeKinds
  <2>2. InRange(r)
    BY <1>0, <2>1, TempRating
  <2>3. ~OffScale(k, v)
    BY <1>2 DEF OffScale
  <2> QED BY <2>2, <2>3, InRangeWithin
<1>3. CASE k = "AvailableSpare"
  <2>0. OffScale(k, v) <=> v.raw < 0 \/ (v.raw > 100 /\ v.raw > v.thresh)
    BY <1>3 DEF OffScale
  <2>1. CASE v.thresh <= 100
    <3>1. r = [n |-> 2 * v.raw - 100, d |-> 100]
      BY <1>0, <1>3, <2>1 DEF GetSMARTattrValRtng, NVMe_SMART_rtg, AvailSpareRtg, GetIntoRtgRng, Frac, NVMeKinds
    <3> QED BY <1>0, <2>0, <2>1, <3>1 DEF Within, Less, WorstRtgVal, BestRtgVal, Frac
  <2>2. CASE ~(v.thresh <= 100)
    <3>1. r = [n |-> 2 * (v.thresh - v.raw) - v.thresh, d |-> v.thresh]
      BY <1>0, <1>3, <2>2 DEF GetSMARTattrValRtng, NVMe_SMART_rtg, AvailSpareRtg, GetIntoRtgRng, Frac, NVMeKinds
    <3> QED BY <1>0, <2>0, <2>2, <3>1 DEF Within, Less, WorstRtgVal, BestRtgVal, Frac
  <2> QED BY <2>1, <2>2
<1>4. CASE k = "PercentageUsed"
  <2>1. r = [n |-> 2 * (100 - v.raw) - 100, d |-> 100]
    BY <1>4 DEF GetSMARTattrValRtng, NVMe_SMART_rtg, GetPrcntUsdRtng, GetIntoRtgRng, Frac, NVMeKinds
  <2>2. OffScale(k, v) <=> v.raw \notin 0..100
    BY <1>4 DEF OffScale
  <2> QED BY <1>0, <2>1, <2>2 DEF Within, Less, WorstRtgVal, BestRtgVal, Frac
<1>5. CASE k = "MediaErrors"
  <2>1. r = IF v.raw = 0 THEN OK ELSE AtLeast1Warn
    BY <1>5 DEF GetSMARTattrValRtng, NVMe_SMART_rtg, NVMeKinds
  <2>2. InRange(r)
    BY <2>1 DEF InRange, OK, AtLeast1Warn, Frac
  <2>3. ~OffScale(k, v)
    BY <1>5 DEF OffScale
  <2> QED BY <2>2, <2>3, InRangeWithin
<1>6. CASE k = "other"
  BY <1>6 DEF GetSMARTattrValRtng, NVMe_SMART_rtg, NVMeKinds
<1>7. QED
  BY <1>1, <1>2, <1>3, <1>4, <1>5, <1>6 DEF Kinds, ATAKinds, NVMeKinds

(* A rating is outside of the range from worst to best for percentages     *)
(* that are off their scale, such as more than 100 % used, and for nothing *)
(* else: a normalized value above the assumed maximum is cut off, one      *)
(* below the threshold is scaled by the threshold (GetSMARTattrValRtng).   *)
THEOREM RatingsStayInRange == RatingSpec => []RatingInRange
<1>1. RatingInv => RatingInRange
  <2> SUFFICES ASSUME RatingInv PROVE RatingInRange
    OBVIOUS
  <2>1. kind \in Kinds /\ val \in Values
    BY RatingAssumption DEF RatingInv
  <2>2. rtg = Unknown \/ (Within(rtg) <=> ~OffScale(kind, val))
    BY <2>1, RangeOf DEF RatingInv
  <2> QED BY <2>2 DEF RatingInRange, Within
<1>2. QED
  BY <1>1, RatingInvariance, PTL

-----------------------------------------------------------------------------
(* How ratings compare.                                                    *)

(* Errors are counted from 0 on: the raw value is unsigned.                *)
ErrorsCounted == \A v \in Values : <<"MediaErrors", v>> \in Reports => v.raw >= 0

(* The best rating is not less than one in the range, and no rating of the *)
(* range is less than the worst.                                           *)
LEMMA NotBetterThanBest ==
  ASSUME NEW r, InRange(r)
  PROVE  ~Less([n |-> 1, d |-> 1], r) /\ ~Less(r, [n |-> -1, d |-> 1])
BY DEF InRange, Less

(* ScaledQuotient above the threshold falls with the value: the quotient   *)
(* of a smaller distance by the same divident, the worst rating at the     *)
(* threshold, a negative one below.                                        *)
LEMMA QuotientFalls ==
  ASSUME NEW p \in Int, NEW q \in Int, NEW D \in Nat, NEW t \in Nat,
         0 < p, q < p, 0 - t <= q
  PROVE  ~Less(ScaledQuotient(p, D, t), ScaledQuotient(q, D, t))
<1> DEFINE r == ScaledQuotient(p, D, t)
           s == ScaledQuotient(q, D, t)
<1> SUFFICES ~Less(r, s)
  OBVIOUS
<1>1. CASE D = 0
  <2>1. r = [n |-> 0, d |-> 1] /\ s = [n |-> 0, d |-> 1]
    BY <1>1 DEF ScaledQuotient, Frac
  <2> QED BY <2>1 DEF Less
<1>2. CASE D # 0 /\ p > D
  <2>1. r = [n |-> 1, d |-> 1]
    BY <1>2 DEF ScaledQuotient, Frac
  <2>2. InRange(s)
    BY QuotientRating
  <2> HIDE DEF r, s
  <2> QED BY <2>1, <2>2, NotBetterThanBest
<1>3. CASE D # 0 /\ ~(p > D)
  <2>1. r = [n |-> p, d |-> D] /\ ~(q > D) /\ D > 0
    BY <1>3 DEF ScaledQuotient, Frac
  <2>2. CASE q > 0
    <3>1. s = [n |-> q, d |-> D]
      BY <1>3, <2>1, <2>2 DEF ScaledQuotient, Frac
    <3>2. ~(p * D < q * D)
      BY <2>1
    <3> HIDE DEF r, s
    <3> QED BY <2>1, <3>1, <3>2 DEF Less
  <2>3. CASE q = 0
    <3>1. s = [n |-> -1, d |-> 1]
      BY <1>3, <2>1, <2>3 DEF ScaledQuotient, Frac
    <3> HIDE DEF r, s
    <3> QED BY <2>1, <3>1 DEF Less
  <2>4. CASE q < 0
    <3>1. s = [n |-> q, d |-> t]
      BY <1>3, <2>1, <2>4 DEF ScaledQuotient, Frac
    <3>2. t > 0 /\ p * t > 0 /\ q * D < 0
      BY <2>1, <2>4
    <3>3. p * t \in Int /\ q * D \in Int /\ ~(p * t < q * D)
      BY <3>2
    <3> HIDE DEF r, s
    <3> QED BY <2>1, <3>1, <3>3 DEF Less
  <2> QED BY <2>2, <2>3, <2>4
<1> QED BY <1>1, <1>2, <1>3

(* A normalized value above its threshold that falls, with the same        *)
(* assumed maximum.                                                        *)
LEMMA MfrFalls ==
  ASSUME NEW k \in {"mfr", "mfr200"}, NEW a \in Values, NEW b \in Values,
         maxNrmlzdVal(k, b) = maxNrmlzdVal(k, a), ~Wraps(b),
         b.thresh = a.thresh, b.curr < a.curr, a.curr > a.thresh
  PROVE  ~Less(mfrRtg(k, a), mfrRtg(k, b))
<1> DEFINE D == UintDifference(maxNrmlzdVal(k, a), a.thresh)
           t == a.thresh
           p == a.curr - t
           q == b.curr - t
<1>1. D \in Nat /\ a.curr \in 0..255 /\ b.curr \in 0..255 /\ t \in 0..255
  BY MfrQuotient
<1>2. mfrRtg(k, a) = ScaledQuotient(p, D, t)
  <2>1. \A x, y \in 0..255 : x > y => ~(x < y)
    OBVIOUS
  <2>2. ~Wraps(a)
    BY <1>1, <2>1, Zenon DEF Wraps
  <2> QED BY <2>2, MfrQuotient DEF LongDifference
<1>3. mfrRtg(k, b) = ScaledQuotient(q, D, t)
  <2>1. mfrRtg(k, b) = ScaledQuotient(b.curr - b.thresh,
                         UintDifference(maxNrmlzdVal(k, b), b.thresh), b.thresh)
    BY MfrQuotient DEF LongDifference
  <2> QED BY <2>1, Zenon
<1>6. p \in Int /\ q \in Int /\ t \in Nat /\ 0 < p /\ q < p /\ 0 - t <= q
  <2> DEFINE x == a.curr
             y == b.curr
  <2>1. x \in 0..255 /\ y \in 0..255 /\ t \in 0..255 /\ t < x /\ y < x
    BY <1>1
  <2>2. p = x - t /\ q = y - t
    OBVIOUS
  <2> HIDE DEF D, p, q, t, x, y
  <2> QED BY <2>1, <2>2
<1> HIDE DEF D, p, q, t
<1>7. ~Less(ScaledQuotient(p, D, t), ScaledQuotient(q, D, t))
  BY <1>1, <1>6, QuotientFalls
<1> QED BY <1>2, <1>3, <1>7, Zenon

(* A temperature that rises, from the lower limit on.                      *)
LEMMA TempFalls ==
  ASSUME NEW a \in Int, NEW b \in Int, b > a, a >= MaxWarnTemp
  PROVE  ~Less(RateAccDegCelsius(a), RateAccDegCelsius(b))
<1> USE DEF MinWarnTemp, MaxWarnTemp, MinCritTemp
<1> DEFINE r == RateAccDegCelsius(a)
           s == RateAccDegCelsius(b)
<1> SUFFICES ~Less(r, s)
  OBVIOUS
<1>0. InRange(r) /\ InRange(s)
  BY TempRating
<1>1. CASE ~(a > 46)
  <2>1. r = [n |-> 1, d |-> 1]
    BY <1>1 DEF RateAccDegCelsius, BestRtgVal, Frac
  <2> HIDE DEF r, s
  <2> QED BY <1>0, <2>1, NotBetterThanBest
<1>2. CASE b > 69
  <2>1. s = [n |-> -1, d |-> 1]
    BY <1>2 DEF RateAccDegCelsius, WorstRtgVal, Frac
  <2> HIDE DEF r, s
  <2> QED BY <1>0, <2>1, NotBetterThanBest
<1>3. CASE a > 46 /\ ~(b > 69)
  <2>1. r = [n |-> 2 * (69 - a) - 69, d |-> 69] /\ s = [n |-> 2 * (69 - b) - 69, d |-> 69]
    BY <1>3 DEF RateAccDegCelsius, GetIntoRtgRng, Frac
  <2> QED BY <2>1, <1>3 DEF Less
<1> QED BY <1>1, <1>2, <1>3

(* A value that got worse is not rated better, kind by kind.               *)
LEMMA RatingFalls ==
  ASSUME NEW k \in Kinds, NEW a \in Values, NEW b \in Values, Worse(k, b, a),
         k \in {"mfr", "mfr200"} =>
           ~InAlarm(k, a) /\ ~Wraps(b) /\ maxNrmlzdVal(k, b) = maxNrmlzdVal(k, a),
         k = "AvailableSpare" => a.thresh <= 100,
         k = "MediaErrors" => a.raw >= 0 /\ b.raw >= 0
  PROVE  ~Less(GetSMARTattrValRtng(k, a), GetSMARTattrValRtng(k, b))
<1> DEFINE r == GetSMARTattrValRtng(k, a)
           s == GetSMARTattrValRtng(k, b)
<1> SUFFICES ~Less(r, s)
  OBVIOUS
<1>0. /\ a.raw \in Int /\ a.curr \in 0..255 /\ a.thresh \in 0..255
      /\ b.raw \in Int /\ b.curr \in 0..255 /\ b.thresh \in 0..255
  BY DEF Values, Bytes
<1>1. CASE k \in {"mfr", "mfr200"}
  <2>1. r = mfrRtg(k, a) /\ s = mfrRtg(k, b)
    BY <1>1 DEF GetSMARTattrValRtng, ATA_SMART_rtg, NVMeKinds
  <2>2. b.thresh = a.thresh /\ b.curr < a.curr
    BY <1>1 DEF Worse
  <2>3. ~(a.curr <= a.thresh)
    BY <1>1 DEF InAlarm
  <2>4. a.curr > a.thresh
    <3>1. \A x, z \in 0..255 : ~(x <= z) => x > z
      OBVIOUS
    <3> QED BY <1>0, <2>3, <3>1, Zenon
  <2> QED BY <1>1, <2>1, <2>2, <2>4, MfrFalls
<1>2. CASE k \in {"DevTemp", "CompositeTemperature"}
  <2>1. r = RateAccDegCelsius(a.raw) /\ s = RateAccDegCelsius(b.raw)
    BY <1>2 DEF GetSMARTattrValRtng, ATA_SMART_rtg, ATA_SMART_own_Rtg, NVMe_SMART_rtg, NVMeKinds
  <2>2. b.raw > a.raw /\ a.raw >= MaxWarnTemp
    BY <1>2 DEF Worse
  <2> QED BY <1>0, <2>1, <2>2, TempFalls
<1>3. CASE k = "AvailableSpare"
  <2>0. a.thresh <= 100 /\ b.thresh = a.thresh
    BY <1>3 DEF Worse
  <2>1. r = [n |-> 2 * a.raw - 100, d |-> 100] /\ s = [n |-> 2 * b.raw - 100, d |-> 100]
    BY <1>0, <1>3, <2>0 DEF GetSMARTattrValRtng, NVMe_SMART_rtg, AvailSpareRtg, GetIntoRtgRng, Frac, NVMeKinds
  <2>2. b.raw < a.raw
    BY <1>3 DEF Worse
  <2> QED BY <1>0, <2>1, <2>2 DEF Less
<1>4. CASE k = "PercentageUsed"
  <2>1. r = [n |-> 2 * (100 - a.raw) - 100, d |-> 100] /\ s = [n |-> 2 * (100 - b.raw) - 100, d |-> 100]
    BY <1>0, <1>4 DEF GetSMARTattrValRtng, NVMe_SMART_rtg, GetPrcntUsdRtng, GetIntoRtgRng, Frac, NVMeKinds
  <2>2. b.raw > a.raw
    BY <1>4 DEF Worse
  <2> QED BY <1>0, <2>1, <2>2 DEF Less
<1>5. CASE k = "MediaErrors"
  <2>1. b.raw > a.raw
    BY <1>5 DEF Worse
  <2>2. b.raw # 0
    BY <1>0, <1>5, <2>1
  <2>3. s = [n |-> 0, d |-> 1] /\ (r = [n |-> 0, d |-> 1] \/ r = [n |-> 1, d |-> 1])
    BY <1>5, <2>2 DEF GetSMARTattrValRtng, NVMe_SMART_rtg, NVMeKinds, OK, AtLeast1Warn, Frac
  <2> HIDE DEF r, s
  <2> QED BY <2>3 DEF Less
<1>6. CASE k = "other"
  BY <1>6 DEF Worse
<1>7. QED
  BY <1>1, <1>2, <1>3, <1>4, <1>5, <1>6 DEF Kinds, ATAKinds, NVMeKinds

(* A value that gets worse is never rated better: not a normalized value   *)
(* above its threshold while the assumed maximum stays the same, not a     *)
(* temperature that rises, not a percentage or a number of errors, also    *)
(* where the difference to the maximum wraps and where more than 100 % are *)
(* used (GetSMARTattrValRtng).                                             *)
THEOREM WorseIsNotBetter ==
  ASSUME ErrorsCounted
  PROVE  RatingSpec => WorseAboveThresh
<1> DEFINE Falls ==
      (/\ Worse(kind, val', val)
       /\ SameMaximum
       /\ kind \in {"mfr", "mfr200"} => ~InAlarm(kind, val) /\ ~Wraps(val')
       /\ kind = "AvailableSpare" => val.thresh <= 100)
      => ~Less(rtg, rtg')
<1>1. RatingInv /\ RatingInv' /\ [RatingNext]_ratingVars => [Falls]_ratingVars
  <2> SUFFICES ASSUME RatingInv, RatingInv', RatingNext, Worse(kind, val', val), SameMaximum,
                      kind \in {"mfr", "mfr200"} => ~InAlarm(kind, val) /\ ~Wraps(val'),
                      kind = "AvailableSpare" => val.thresh <= 100
               PROVE  ~Less(rtg, rtg')
    OBVIOUS
  <2>1. kind' = kind
    BY DEF RatingNext, Report
  <2>2. <<kind, val>> \in Reports /\ <<kind, val'>> \in Reports
    BY <2>1 DEF RatingInv
  <2>3. kind \in Kinds /\ val \in Values /\ val' \in Values
    BY <2>2, RatingAssumption
  <2>4. rtg = GetSMARTattrValRtng(kind, val) /\ rtg' = GetSMARTattrValRtng(kind, val')
    BY <2>1 DEF RatingInv
  <2>5. kind = "MediaErrors" => val.raw >= 0 /\ val'.raw >= 0
    BY <2>2, <2>3 DEF ErrorsCounted
  <2> QED BY <2>3, <2>4, <2>5, RatingFalls DEF SameMaximum
<1>2. QED
  BY <1>1, RatingInvariance, PTL DEF RatingSpec, WorseAboveThresh

-----------------------------------------------------------------------------
(* The status.                                                             *)

(* Every source stores at least one field, by one of six names.            *)
LEMMA FieldsType ==
  /\ Fields \in Seq({"raw", "read", "untime", "time", "thresh", "curr"})
  /\ Len(Fields) \in Nat \ {0}
<1>1. Source = "libatasmart" \/ Source = "NVMe" \/ Source = "service"
  BY StatusAssumption
<1>2. CASE Source = "libatasmart"
  <2>1. Fields = <<"raw", "read", "untime", "time", "thresh", "curr">>
    BY <1>2 DEF Fields
  <2>2. QED
    BY <2>1
<1>3. CASE Source = "NVMe"
  <2>1. Fields = <<"read", "untime", "time", "raw", "thresh">>
    BY <1>3 DEF Fields
  <2>2. QED
    BY <2>1
<1>4. CASE Source = "service"
  <2>1. Fields = <<"read", "untime", "time", "raw">>
    BY <1>4 DEF Fields
  <2>2. QED
    BY <2>1
<1>5. QED
  BY <1>1, <1>2, <1>3, <1>4

(* One store changes one field to a value of its type.                     *)
LEMMA StoredType ==
  ASSUME NEW c \in Copies, NEW v \in Values,
         NEW f \in {"raw", "read", "untime", "time", "thresh", "curr"}
  PROVE  Stored(c, v, f) \in Copies
<1>1. v.raw \in Int /\ v.curr \in Bytes /\ v.thresh \in Bytes
  BY DEF Values
<1>2. f = "raw" \/ f = "read" \/ f = "untime" \/ f = "time" \/ f = "thresh" \/ f = "curr"
  OBVIOUS
<1>3. QED
  BY <1>1, <1>2 DEF Stored, Copies

(* What a new connection starts with has its type.                         *)
LEMMA NewAttrsType == NewAttrs \subseteq [Attrs -> Copies]
<1>1. [read : {FALSE}, timed : BOOLEAN, raw : {0}, curr : Garbage, thresh : Garbage]
        \subseteq Copies
  <2>1. Garbage \subseteq Bytes /\ {0} \subseteq Int /\ {FALSE} \subseteq BOOLEAN
    BY StatusAssumption
  <2>2. QED
    BY <2>1 DEF Copies
<1>2. QED
  BY <1>1 DEF NewAttrs

(* The thread that stores: the summary and the icon are not touched.       *)
LEMMA StoringStep ==
  ASSUME StatusInv,
         \/ DriveChanges \/ Connect \/ ReadSMARTattrs \/ Store
         \/ \E a \in Attrs : NextAttr(a)
  PROVE  StatusInv'
<1> USE DEF StatusInv, TypeOK, WarnStatusShown
<1>1. CASE DriveChanges
  <2>1. PICK a \in Attrs, v \in Values : drive' = [drive EXCEPT ![a] = v]
    BY <1>1, StatusAssumption DEF DriveChanges
  <2>2. drive' \in [Attrs -> Values]
    BY <2>1
  <2>3. QED
    BY <1>1, <2>2 DEF DriveChanges
<1>2. CASE Connect
  <2>1. attr' \in [Attrs -> Copies]
    BY <1>2, NewAttrsType DEF Connect
  <2>2. QED
    BY <1>2, <2>1 DEF Connect
<1>3. CASE ReadSMARTattrs
  BY <1>3 DEF ReadSMARTattrs
<1>4. CASE Store
  <2>1. wr.pos \in 1..Len(Fields)
    BY <1>4, FieldsType DEF Store
  <2>2. Fields[wr.pos] \in {"raw", "read", "untime", "time", "thresh", "curr"}
    BY <2>1, FieldsType
  <2>3. Stored(attr[wr.attr], drive[wr.attr], Fields[wr.pos]) \in Copies
    BY <2>2, StoredType
  <2>4. attr' \in [Attrs -> Copies]
    BY <1>4, <2>3 DEF Store
  <2>5. wr' \in [todo : SUBSET Attrs, attr : Attrs, pos : 0..Len(Fields)]
    BY <1>4, <2>1, FieldsType DEF Store
  <2>6. posted' \in BOOLEAN
    BY <1>4 DEF Store
  <2>7. QED
    BY <1>4, <2>4, <2>5, <2>6 DEF Store
<1>5. ASSUME NEW a \in Attrs, NextAttr(a) PROVE StatusInv'
  <2>1. wr' \in [todo : SUBSET Attrs, attr : Attrs, pos : 0..Len(Fields)]
    BY <1>5, FieldsType DEF NextAttr
  <2>2. QED
    BY <1>5, <2>1 DEF NextAttr
<1>6. QED
  BY <1>1, <1>2, <1>3, <1>4, <1>5

(* The user interface thread: a pass has a summary of two values, so that  *)
(* "different from the last one" means that the other one is to be shown.  *)
LEMMA ShowingStep ==
  ASSUME StatusInv,
         UpdateSMARTvaluesUI \/ EndUpdate \/ SetState \/ \E a \in Attrs : Rate(a)
  PROVE  StatusInv'
<1> USE DEF StatusInv, TypeOK, WarnStatusShown
<1>1. CASE UpdateSMARTvaluesUI
  BY <1>1 DEF UpdateSMARTvaluesUI
<1>2. CASE EndUpdate
  <2>1. pass' = [on |-> FALSE, todo |-> pass.todo, entire |-> pass.entire]
    BY <1>2 DEF EndUpdate
  <2>2. CASE status # pass.entire
    BY <1>2, <2>1, <2>2 DEF EndUpdate, ShowStateAccordingToSMARTvalues
  <2>3. CASE status = pass.entire
    BY <1>2, <2>1, <2>3 DEF EndUpdate
  <2>4. QED
    BY <2>2, <2>3
<1>3. CASE SetState
  BY <1>3 DEF SetState
<1>4. ASSUME NEW a \in Attrs, Rate(a) PROVE StatusInv'
  <2>1. PICK r \in Ratings(a) :
          pass' = [pass EXCEPT !.todo = @ \ {a},
                               !.entire = IF Less(r, WarnThresh) THEN "atLeast1Warn" ELSE @]
    BY <1>4 DEF Rate
  <2>2. pass' = [on |-> pass.on, todo |-> pass.todo \ {a},
                 entire |-> IF Less(r, WarnThresh) THEN "atLeast1Warn" ELSE pass.entire]
    BY <2>1
  <2>3. QED
    BY <1>4, <2>2 DEF Rate
<1>5. QED
  BY <1>1, <1>2, <1>3, <1>4

(* While the summary is "at least 1 warning" the icon shows it. The two    *)
(* are written in different functions: UpdateSMARTvaluesUI changes the     *)
(* icon only when its summary differs from the last one, SetState resets   *)
(* both. The invariant is inductive together with the types.               *)
THEOREM WarningsAreShown == Spec => []StatusInv
<1>1. Init => StatusInv
  <2> SUFFICES ASSUME Init PROVE StatusInv
    OBVIOUS
  <2>1. drive \in [Attrs -> Values]
    BY StatusAssumption DEF Init
  <2>2. attr \in [Attrs -> Copies]
    BY NewAttrsType DEF Init
  <2>3. wr \in [todo : SUBSET Attrs, attr : Attrs, pos : 0..Len(Fields)]
    BY FieldsType DEF Init
  <2>4. QED
    BY <2>1, <2>2, <2>3 DEF Init, StatusInv, TypeOK, WarnStatusShown
<1>2. StatusInv /\ [Next]_vars => StatusInv'
  <2> SUFFICES ASSUME StatusInv, [Next]_vars PROVE StatusInv'
    OBVIOUS
  <2>1. CASE UNCHANGED vars
    BY <2>1 DEF StatusInv, TypeOK, WarnStatusShown, vars
  <2>2. CASE Next
    BY <2>2, StoringStep, ShowingStep DEF Next
  <2>3. QED
    BY <2>1, <2>2
<1>3. QED
  BY <1>1, <1>2, PTL DEF Spec
=============================================================================
