--------------------------- MODULE SMARTunitProofs ---------------------------
(***************************************************************************)
(* The unit that guessUnit determines is off by at most what the metric    *)
(* grows between two readings, for every real unit, every distance of      *)
(* readings and every number of them.                                      *)
(*                                                                         *)
(* The argument: when the raw value is seen to have grown, the metric is   *)
(* at most MaxStep beyond the point where it grew. Both ends of the        *)
(* interval that is divided are such points, so the error of the interval  *)
(* is less than MaxStep, and dividing it by the number of units in the     *)
(* interval does not make it greater.                                      *)
(***************************************************************************)
EXTENDS SMARTunit, TLAPS

(***************************************************************************)
(* Arithmetic.                                                             *)
(***************************************************************************)

(* What \div is.                                                           *)
LEMMA Floor ==
  ASSUME NEW a \in Nat, NEW u \in Nat \ {0}
  PROVE  /\ a \div u \in Nat
         /\ u * (a \div u) \in Nat
         /\ u * (a \div u) <= a
         /\ a < u * (a \div u) + u
  OBVIOUS

(* Multiplication is monotone.                                             *)
LEMMA Times ==
  ASSUME NEW u \in Nat, NEW p \in Int, NEW r \in Int, p <= r
  PROVE  u * p \in Int /\ u * r \in Int /\ u * p <= u * r
  BY Z3

(* Only smaller factors give smaller products.                             *)
LEMMA Cancel ==
  ASSUME NEW u \in Nat, NEW p \in Int, NEW r \in Int, u * p < u * r
  PROVE  p < r
<1>1. ASSUME r <= p PROVE FALSE
  <2>1. u * r <= u * p /\ u * r \in Int /\ u * p \in Int
    BY <1>1, Times
  <2> QED
    BY <2>1
<1> QED
  BY <1>1

LEMMA Distribute ==
  ASSUME NEW u \in Nat, NEW p \in Int, NEW r \in Int
  PROVE  u * (p + r) = u * p + u * r /\ u * (p - r) = u * p - u * r /\ u * 1 = u
  BY Z3

(* An interval that is D units with an error of less than S gives a        *)
(* quotient with an error of at most S.                                    *)
LEMMA QuotientError ==
  ASSUME NEW X \in Nat, NEW D \in Nat \ {0}, NEW U \in Nat, NEW S \in Nat,
         X < D * U + S, D * U < X + S
  PROVE  /\ X \div D \in Nat
         /\ U - S <= X \div D /\ X \div D <= U + S
<1> DEFINE q == X \div D
<1>1. q \in Nat /\ D * q \in Nat /\ D * q <= X /\ X < D * q + D
  BY Floor
<1> HIDE DEF q
<1>2. D * U \in Int /\ D * S \in Int /\ S <= D * S
  <2>1. S * 1 <= S * D /\ S * D = D * S /\ S * 1 = S
    BY Times, Z3
  <2> QED
    BY <2>1, Z3
<1>3. D * (U + S) = D * U + D * S /\ D * (U - S) = D * U - D * S /\ D * (q + 1) = D * q + D
  <2>1. D * (q + 1) = D * q + D * 1 /\ D * 1 = D
    BY <1>1, Distribute
  <2> QED
    BY <2>1, Distribute
<1>4. D * q < D * (U + S)
  BY <1>1, <1>2, <1>3
<1>5. D * (U - S) < D * (q + 1)
  BY <1>1, <1>2, <1>3
<1>6. q < U + S
  BY <1>1, <1>4, Cancel
<1>7. U - S < q + 1
  BY <1>1, <1>5, Cancel
<1> QED
  BY <1>1, <1>6, <1>7 DEF q

(***************************************************************************)
(* The drive.                                                              *)
(***************************************************************************)

DriveOK == realUnit \in RealUnits /\ phase \in 0..realUnit - 1

(* The metric is less than MaxStep beyond the point where the raw value    *)
(* grew to r.                                                              *)
JustGrown(m, r) == phase + m < realUnit * r + MaxStep

LEMMA RawValOf ==
  ASSUME DriveOK, NEW m \in Nat
  PROVE  /\ realUnit \in Nat \ {0} /\ phase \in Nat
         /\ RawVal(m) \in Nat
         /\ realUnit * RawVal(m) \in Nat
         /\ realUnit * RawVal(m) <= phase + m
         /\ phase + m < realUnit * RawVal(m) + realUnit
<1>1. realUnit \in Nat \ {0} /\ phase \in Nat
  BY UnitAssumption DEF DriveOK
<1>2. phase + m \in Nat
  BY <1>1
<1> QED
  BY <1>1, <1>2, Floor DEF RawVal

(* While the raw value stays the same the metric grows by less than a unit.*)
LEMMA SameRaw ==
  ASSUME DriveOK, NEW m \in Nat, NEW n \in Nat, RawVal(m) = RawVal(n)
  PROVE  n - m < realUnit
<1>1. /\ realUnit * RawVal(n) \in Nat /\ realUnit \in Nat /\ phase \in Nat
      /\ phase + n < realUnit * RawVal(n) + realUnit
  BY RawValOf
<1>2. realUnit * RawVal(n) <= phase + m
  BY RawValOf
<1> QED
  BY <1>1, <1>2

(* The raw value does not fall.                                            *)
LEMMA RawMonotone ==
  ASSUME DriveOK, NEW m \in Nat, NEW n \in Nat, m <= n
  PROVE  RawVal(m) <= RawVal(n)
<1>1. /\ realUnit \in Nat /\ phase \in Nat
      /\ RawVal(m) \in Nat /\ RawVal(n) \in Nat
      /\ realUnit * RawVal(m) \in Nat /\ realUnit * RawVal(n) \in Nat
      /\ realUnit * RawVal(m) <= phase + m
      /\ phase + n < realUnit * RawVal(n) + realUnit
  BY RawValOf
<1>2. realUnit * (RawVal(n) + 1) = realUnit * RawVal(n) + realUnit
  BY <1>1, Distribute
<1>3. realUnit * RawVal(m) < realUnit * (RawVal(n) + 1)
  BY <1>1, <1>2
<1>4. RawVal(m) < RawVal(n) + 1
  BY <1>1, <1>3, Cancel
<1> QED
  BY <1>1, <1>4

(* A reading that sees the raw value grown comes less than MaxStep after   *)
(* it has grown.                                                           *)
LEMMA SeenGrown ==
  ASSUME DriveOK, NEW m \in Nat, NEW n \in Nat, n <= m + MaxStep, RawVal(m) < RawVal(n)
  PROVE  JustGrown(n, RawVal(n))
<1>1. /\ realUnit \in Nat /\ phase \in Nat
      /\ RawVal(m) \in Nat /\ RawVal(n) \in Nat
      /\ realUnit * RawVal(m) \in Nat /\ realUnit * RawVal(n) \in Nat
      /\ phase + m < realUnit * RawVal(m) + realUnit
  BY RawValOf
<1>2. realUnit * (RawVal(m) + 1) = realUnit * RawVal(m) + realUnit
  BY <1>1, Distribute
<1>3. realUnit * (RawVal(m) + 1) <= realUnit * RawVal(n)
  BY <1>1, Times
<1> QED
  BY <1>1, <1>2, <1>3, UnitAssumption DEF JustGrown

(* The quotient of guessUnit, between two readings that saw the raw value  *)
(* just grown.                                                             *)
LEMMA UnitBetween ==
  ASSUME DriveOK, NEW m \in Nat, NEW n \in Nat,
         JustGrown(m, RawVal(m)), JustGrown(n, RawVal(n)), RawVal(m) < RawVal(n), m <= n
  PROVE  LET u == (n - m) \div (RawVal(n) - RawVal(m)) IN
         u \in Nat /\ realUnit - MaxStep <= u /\ u <= realUnit + MaxStep
<1> DEFINE D == RawVal(n) - RawVal(m)  rm == realUnit * RawVal(m)  rn == realUnit * RawVal(n)
<1>1. /\ realUnit \in Nat /\ phase \in Nat /\ rm \in Nat /\ rn \in Nat
      /\ RawVal(m) \in Nat /\ RawVal(n) \in Nat
      /\ rm <= phase + m /\ rn <= phase + n
  BY RawValOf
<1>2. phase + m < rm + MaxStep /\ phase + n < rn + MaxStep
  BY DEF JustGrown
<1>3. realUnit * D = rn - rm
  BY <1>1, Distribute
<1>4. D \in Nat \ {0} /\ realUnit * D = D * realUnit
  BY <1>1, Z3
<1> HIDE DEF D, rm, rn
<1>5. n - m < D * realUnit + MaxStep /\ D * realUnit < (n - m) + MaxStep /\ n - m \in Nat
  BY <1>1, <1>2, <1>3, <1>4, UnitAssumption
<1> QED
  BY <1>1, <1>4, <1>5, QuotientError, UnitAssumption DEF D

(***************************************************************************)
(* The detection.                                                          *)
(***************************************************************************)

DetTypes == [state : States, otherMetricVal : Nat, prevRawVal : Nat, rawValDiff : Nat,
             est : Estimates]

(* By state: nothing is memorized yet; what is memorized belongs together  *)
(* and is not newer than the last reading, which saw the memorized raw     *)
(* value, or one that is rawValDiff greater; from the first increase on    *)
(* the memorized reading is one that saw the raw value just grown.         *)
Memorized ==
  /\ det.otherMetricVal <= metric
  /\ det.prevRawVal = RawVal(det.otherMetricVal)

DetInv ==
  \/ /\ det.state = "getMinUnit" /\ det.otherMetricVal = MaxUint64
     /\ det.est.unit = 0
  \/ /\ det.state = "getMinUnit" /\ Memorized
     /\ RawVal(metric) = det.prevRawVal
     /\ det.est.unit <= realUnit
  \/ /\ det.state = "getUnitTillValInc" /\ Memorized
     /\ JustGrown(det.otherMetricVal, det.prevRawVal)
     /\ RawVal(metric) = det.prevRawVal
  \/ /\ det.state = "getUnit" /\ Memorized
     /\ JustGrown(det.otherMetricVal, det.prevRawVal)
     /\ RawVal(metric) = det.prevRawVal + det.rawValDiff
     /\ det.rawValDiff > 0
     /\ EstimateError

(* The inductive invariant.                                                *)
UnitInv == DriveOK /\ metric \in 0..MaxMetric /\ det \in DetTypes /\ copy \in Estimates /\ DetInv

(* A reading when nothing is memorized yet.                                *)
LEMMA FirstReading ==
  ASSUME UnitInv, NEW n \in Nat, n <= MaxMetric, metric' = n, UNCHANGED <<realUnit, phase, copy>>,
         det.state = "getMinUnit", det.otherMetricVal = MaxUint64, det.est.unit = 0,
         det' = GetMinUnit(RawVal(n), n)
  PROVE  UnitInv'
<1>1. n < det.otherMetricVal
  BY UnitAssumption
<1>2. RawVal(n) \in Nat
  BY RawValOf DEF UnitInv
<1>3. det' = [det EXCEPT !.otherMetricVal = n, !.prevRawVal = RawVal(n)]
  BY <1>1 DEF GetMinUnit, Memorize
<1>4. /\ det' \in DetTypes /\ det'.state = "getMinUnit"
      /\ det'.otherMetricVal = n /\ det'.prevRawVal = RawVal(n) /\ det'.est.unit = 0
  BY <1>2, <1>3 DEF UnitInv, DetTypes
<1>5. realUnit' \in Nat /\ RawVal(n)' = RawVal(n)
  BY RawValOf DEF UnitInv, RawVal
<1>6. Memorized' /\ RawVal(metric)' = det'.prevRawVal /\ det'.est.unit <= realUnit'
  BY <1>4, <1>5 DEF Memorized, RawVal
<1>7. DetInv'
  BY <1>4, <1>6 DEF DetInv
<1> QED
  BY <1>4, <1>7, UnitAssumption DEF UnitInv, DriveOK

(* What setting the unit, the "at least" bit and the lower bound leaves.    *)
LEMMA EstimateSet ==
  ASSUME NEW e \in Estimates, NEW u \in Nat, NEW g \in BOOLEAN, NEW l \in Nat
  PROVE  /\ [e EXCEPT !.unit = u, !.greater = g, !.lower = l] \in Estimates
         /\ [e EXCEPT !.unit = u, !.greater = g] \in Estimates
         /\ [e EXCEPT !.unit = u, !.greater = g].unit = u
<1>1. [e EXCEPT !.unit = u, !.greater = g, !.lower = l] \in Estimates
  BY DEF Estimates
<1>2. /\ [e EXCEPT !.unit = u, !.greater = g] \in Estimates
      /\ [e EXCEPT !.unit = u, !.greater = g].unit = u
  BY DEF Estimates
<1> QED
  BY <1>1, <1>2

(* A later reading before the raw value has grown for the first time, or   *)
(* when it has.                                                            *)
LEMMA MinUnitReading ==
  ASSUME UnitInv, NEW n \in Nat, metric <= n, n <= metric + MaxStep, n <= MaxMetric,
         metric' = n, UNCHANGED <<realUnit, phase, copy>>,
         det.state = "getMinUnit", Memorized, RawVal(metric) = det.prevRawVal,
         det' = GetMinUnit(RawVal(n), n)
  PROVE  UnitInv'
<1> DEFINE o == det.otherMetricVal
<1>1. /\ o \in Nat /\ det.prevRawVal \in Nat /\ metric \in Nat /\ o <= n
      /\ det.est \in Estimates /\ det.prevRawVal = RawVal(o)
  BY UnitAssumption DEF UnitInv, DetTypes, Memorized
<1>2. DriveOK /\ RawVal(n) \in Nat /\ realUnit \in Nat
  BY RawValOf DEF UnitInv
<1>3. det.prevRawVal <= RawVal(n)
  BY <1>1, <1>2, RawMonotone
<1>4. CASE RawVal(n) > det.prevRawVal
  <2>1. JustGrown(n, RawVal(n))
    BY <1>1, <1>2, <1>4, SeenGrown
  <2>2. det' = [det EXCEPT !.otherMetricVal = n, !.prevRawVal = RawVal(n),
                  !.state = "getUnitTillValInc",
                  !.est = [det.est EXCEPT !.unit = n - o, !.greater = FALSE, !.lower = n - o]]
    BY <1>1, <1>4 DEF GetMinUnit, Memorize, UnitInv, DetTypes
  <2>3. [det.est EXCEPT !.unit = n - o, !.greater = FALSE, !.lower = n - o] \in Estimates
    <3>1. n - o \in Nat
      BY <1>1
    <3> QED
      BY <1>1, <3>1, EstimateSet
  <2>4. /\ det' \in DetTypes /\ det'.state = "getUnitTillValInc"
        /\ det'.otherMetricVal = n /\ det'.prevRawVal = RawVal(n)
    BY <1>2, <2>2, <2>3 DEF UnitInv, DetTypes, States
  <2>5. /\ Memorized' /\ RawVal(metric)' = det'.prevRawVal
        /\ JustGrown(det.otherMetricVal, det.prevRawVal)'
    BY <2>1, <2>4 DEF Memorized, RawVal, JustGrown
  <2>6. DetInv'
    BY <2>4, <2>5 DEF DetInv
  <2> QED
    BY <2>4, <2>6, UnitAssumption DEF UnitInv, DriveOK
<1>5. CASE ~(RawVal(n) > det.prevRawVal)
  <2>1. RawVal(n) = det.prevRawVal
    BY <1>1, <1>2, <1>3, <1>5
  <2>2. n - o < realUnit
    BY <1>1, <1>2, <2>1, SameRaw
  <2>3. det' = [det EXCEPT !.est = [det.est EXCEPT !.unit = n - o, !.greater = TRUE]]
    BY <1>1, <1>5 DEF GetMinUnit
  <2>4. /\ [det.est EXCEPT !.unit = n - o, !.greater = TRUE] \in Estimates
        /\ [det.est EXCEPT !.unit = n - o, !.greater = TRUE].unit = n - o
    <3>1. n - o \in Nat
      BY <1>1
    <3> QED
      BY <1>1, <3>1, EstimateSet
  <2>5. /\ det' \in DetTypes /\ det'.state = "getMinUnit" /\ det'.est.unit = n - o
        /\ det'.otherMetricVal = o /\ det'.prevRawVal = det.prevRawVal
    BY <2>3, <2>4 DEF UnitInv, DetTypes
  <2>6. Memorized' /\ RawVal(metric)' = det'.prevRawVal /\ det'.est.unit <= realUnit'
    BY <1>1, <1>2, <2>1, <2>2, <2>5 DEF Memorized, RawVal
  <2>7. DetInv'
    BY <2>5, <2>6 DEF DetInv
  <2> QED
    BY <2>5, <2>7, UnitAssumption DEF UnitInv, DriveOK
<1> QED
  BY <1>4, <1>5

(* A reading between the first and the second increase.                    *)
LEMMA TillValIncReading ==
  ASSUME UnitInv, NEW n \in Nat, metric <= n, n <= metric + MaxStep, n <= MaxMetric,
         metric' = n, UNCHANGED <<realUnit, phase, copy>>,
         det.state = "getUnitTillValInc", Memorized, RawVal(metric) = det.prevRawVal,
         JustGrown(det.otherMetricVal, det.prevRawVal),
         det' = GetUnitTillValInc(RawVal(n), n)
  PROVE  UnitInv'
<1> DEFINE o == det.otherMetricVal  r == RawVal(n)  rd == r - det.prevRawVal
<1>1. /\ o \in Nat /\ det.prevRawVal \in Nat /\ metric \in Nat /\ o <= n
      /\ det.est \in Estimates /\ det.prevRawVal = RawVal(o)
  BY UnitAssumption DEF UnitInv, DetTypes, Memorized
<1>2. DriveOK /\ r \in Nat /\ realUnit \in Nat
  BY RawValOf DEF UnitInv
<1>3. det.prevRawVal <= r
  BY <1>1, <1>2, RawMonotone
<1>4. CASE r > det.prevRawVal
  <2> DEFINE u == (n - o) \div rd
             e == [unit |-> u, greater |-> FALSE, lower |-> u, upper |-> u]
  <2>1. JustGrown(n, r)
    BY <1>1, <1>2, <1>4, SeenGrown
  <2>2. u \in Nat /\ realUnit - MaxStep <= u /\ u <= realUnit + MaxStep
    BY <1>1, <1>2, <1>4, <2>1, UnitBetween
  <2>3. det' = [det EXCEPT !.state = "getUnit", !.rawValDiff = rd, !.est = e]
    BY <1>4 DEF GetUnitTillValInc
  <2> HIDE DEF u
  <2>4. e \in Estimates /\ e.lower = u /\ e.unit = u /\ e.upper = u
    BY <2>2 DEF Estimates
  <2> HIDE DEF e
  <2>5. rd \in Nat /\ rd > 0 /\ r = det.prevRawVal + rd
    BY <1>1, <1>2, <1>4
  <2>6. /\ det' \in DetTypes /\ det'.state = "getUnit" /\ det'.rawValDiff = rd
        /\ det'.otherMetricVal = o /\ det'.prevRawVal = det.prevRawVal /\ det'.est = e
    BY <2>3, <2>4, <2>5 DEF UnitInv, DetTypes, States
  <2>7. /\ Memorized' /\ JustGrown(det.otherMetricVal, det.prevRawVal)'
        /\ RawVal(metric)' = det'.prevRawVal + det'.rawValDiff
    BY <1>1, <2>5, <2>6 DEF Memorized, RawVal, JustGrown
  <2>8. EstimateError'
    BY <1>2, <2>2, <2>4, <2>6, UnitAssumption DEF EstimateError
  <2>9. DetInv'
    BY <2>5, <2>6, <2>7, <2>8 DEF DetInv
  <2> QED
    BY <2>6, <2>9, UnitAssumption DEF UnitInv, DriveOK
<1>5. CASE ~(r > det.prevRawVal)
  <2> DEFINE l == IF n - o > det.est.lower THEN n - o ELSE det.est.lower
             e == [det.est EXCEPT !.unit = n - o, !.greater = TRUE, !.lower = l]
  <2>1. r = det.prevRawVal
    BY <1>1, <1>2, <1>3, <1>5
  <2>2. det' = [det EXCEPT !.est = e]
    BY <1>1, <1>5 DEF GetUnitTillValInc, Estimates
  <2>3. l \in Nat
    BY <1>1 DEF Estimates
  <2> HIDE DEF l
  <2>4. e \in Estimates
    <3>1. n - o \in Nat
      BY <1>1
    <3> QED
      BY <1>1, <2>3, <3>1, EstimateSet
  <2> HIDE DEF e
  <2>5. /\ det' \in DetTypes /\ det'.state = "getUnitTillValInc"
        /\ det'.otherMetricVal = o /\ det'.prevRawVal = det.prevRawVal
    BY <2>2, <2>4 DEF UnitInv, DetTypes
  <2>6. /\ Memorized' /\ JustGrown(det.otherMetricVal, det.prevRawVal)'
        /\ RawVal(metric)' = det'.prevRawVal
    BY <1>1, <2>1, <2>5 DEF Memorized, RawVal, JustGrown
  <2>7. DetInv'
    BY <2>5, <2>6 DEF DetInv
  <2> QED
    BY <2>5, <2>7, UnitAssumption DEF UnitInv, DriveOK
<1> QED
  BY <1>4, <1>5

(* Bounds that are widened by another estimate with a small error keep a   *)
(* small error, and their middle is between them.                          *)
LEMMA WidenedBounds ==
  ASSUME NEW est \in Estimates, NEW u \in Nat, NEW lo \in Int, NEW hi \in Int,
         lo <= est.lower, est.lower <= est.upper, est.upper <= hi, lo <= u, u <= hi
  PROVE  /\ Widened(est, u) \in Estimates
         /\ lo <= Widened(est, u).lower
         /\ Widened(est, u).lower <= Widened(est, u).unit
         /\ Widened(est, u).unit <= Widened(est, u).upper
         /\ Widened(est, u).upper <= hi
<1> DEFINE l == IF u < est.lower THEN u ELSE est.lower
           h == IF u >= est.lower /\ u > est.upper THEN u ELSE est.upper
<1>1. est.lower \in Nat /\ est.upper \in Nat
  BY DEF Estimates
<1>2. l \in Nat /\ h \in Nat /\ lo <= l /\ l <= h /\ h <= hi
  BY <1>1
<1>3. Widened(est, u) = [unit |-> l + (h - l) \div 2, greater |-> FALSE, lower |-> l, upper |-> h]
  BY DEF Widened
<1> HIDE DEF l, h
<1>4. l + (h - l) \div 2 \in Nat /\ l <= l + (h - l) \div 2 /\ l + (h - l) \div 2 <= h
  BY <1>2
<1> QED
  BY <1>2, <1>3, <1>4 DEF Estimates

(* A reading after the second increase.                                    *)
LEMMA UnitReading ==
  ASSUME UnitInv, NEW n \in Nat, metric <= n, n <= metric + MaxStep, n <= MaxMetric,
         metric' = n, UNCHANGED <<realUnit, phase, copy>>,
         det.state = "getUnit", Memorized,
         RawVal(metric) = det.prevRawVal + det.rawValDiff, det.rawValDiff > 0,
         JustGrown(det.otherMetricVal, det.prevRawVal), EstimateError,
         det' = GetUnit(RawVal(n), n)
  PROVE  UnitInv'
<1> DEFINE o == det.otherMetricVal  r == RawVal(n)  rd == r - det.prevRawVal
<1>1. /\ o \in Nat /\ det.prevRawVal \in Nat /\ metric \in Nat /\ o <= n
      /\ det.est \in Estimates /\ det.prevRawVal = RawVal(o) /\ det.rawValDiff \in Nat
  BY UnitAssumption DEF UnitInv, DetTypes, Memorized
<1>2. DriveOK /\ r \in Nat /\ realUnit \in Nat
  BY RawValOf DEF UnitInv
<1>3. det.prevRawVal + det.rawValDiff <= r
  BY <1>1, <1>2, RawMonotone
<1>4. CASE rd > det.rawValDiff
  <2> DEFINE u == (n - o) \div rd  e == Widened(det.est, u)
  <2>1. JustGrown(n, r)
    <3>1. RawVal(metric) < r
      BY <1>1, <1>2, <1>4
    <3> QED
      BY <1>1, <1>2, <3>1, SeenGrown
  <2>2. u \in Nat /\ realUnit - MaxStep <= u /\ u <= realUnit + MaxStep
    <3>1. RawVal(o) < r
      BY <1>1, <1>2, <1>4
    <3> QED
      BY <1>1, <1>2, <2>1, <3>1, UnitBetween
  <2>3. det' = [det EXCEPT !.rawValDiff = rd, !.est = e]
    BY <1>1, <1>2, <1>4 DEF GetUnit
  <2> HIDE DEF u
  <2>4. /\ realUnit - MaxStep <= det.est.lower /\ det.est.lower <= det.est.upper
        /\ det.est.upper <= realUnit + MaxStep
    BY <1>1 DEF EstimateError, Estimates
  <2>5. /\ e \in Estimates /\ realUnit - MaxStep <= e.lower /\ e.lower <= e.unit
        /\ e.unit <= e.upper /\ e.upper <= realUnit + MaxStep
    BY <1>1, <1>2, <2>2, <2>4, WidenedBounds, UnitAssumption
  <2> HIDE DEF e
  <2>6. rd \in Nat /\ rd > 0 /\ r = det.prevRawVal + rd
    BY <1>1, <1>2, <1>4
  <2>7. /\ det' \in DetTypes /\ det'.state = "getUnit" /\ det'.rawValDiff = rd
        /\ det'.otherMetricVal = o /\ det'.prevRawVal = det.prevRawVal /\ det'.est = e
    BY <2>3, <2>5, <2>6 DEF UnitInv, DetTypes
  <2>8. /\ Memorized' /\ JustGrown(det.otherMetricVal, det.prevRawVal)'
        /\ RawVal(metric)' = det'.prevRawVal + det'.rawValDiff
    BY <1>1, <2>6, <2>7 DEF Memorized, RawVal, JustGrown
  <2>9. EstimateError'
    BY <2>5, <2>7 DEF EstimateError
  <2>10. DetInv'
    BY <2>6, <2>7, <2>8, <2>9 DEF DetInv
  <2> QED
    BY <2>7, <2>10, UnitAssumption DEF UnitInv, DriveOK
<1>5. CASE ~(rd > det.rawValDiff)
  <2>1. r = det.prevRawVal + det.rawValDiff
    BY <1>1, <1>2, <1>3, <1>5
  <2>2. det' = det
    BY <1>5 DEF GetUnit
  <2>3. /\ Memorized' /\ JustGrown(det.otherMetricVal, det.prevRawVal)'
        /\ RawVal(metric)' = det'.prevRawVal + det'.rawValDiff /\ EstimateError'
    BY <1>1, <2>1, <2>2 DEF Memorized, RawVal, JustGrown, EstimateError
  <2>4. DetInv'
    BY <2>2, <2>3 DEF DetInv
  <2> QED
    BY <2>2, <2>4, UnitAssumption DEF UnitInv, DriveOK
<1> QED
  BY <1>4, <1>5

(* Every step keeps the invariant: a reading, by the state it is in, and   *)
(* sending what was determined.                                            *)
LEMMA UnitStep == UnitInv /\ [Next]_vars => UnitInv'
<1> SUFFICES ASSUME UnitInv, [Next]_vars PROVE UnitInv'
  OBVIOUS
<1>1. ASSUME NEW step \in 0..MaxStep, possiblyAutoDetectUnit(step) PROVE UnitInv'
  <2> DEFINE n == metric + step
  <2>1. /\ n \in Nat /\ metric <= n /\ n <= metric + MaxStep /\ n <= MaxMetric
        /\ metric' = n /\ UNCHANGED <<realUnit, phase, copy>>
        /\ det' = guessUnit(RawVal(n), n)
    BY <1>1, UnitAssumption DEF possiblyAutoDetectUnit, UnitInv
  <2> HIDE DEF n
  <2>2. CASE det.state = "getMinUnit" /\ det.otherMetricVal = MaxUint64 /\ det.est.unit = 0
    BY <2>1, <2>2, FirstReading DEF guessUnit
  <2>3. CASE det.state = "getMinUnit" /\ Memorized /\ RawVal(metric) = det.prevRawVal
    BY <2>1, <2>3, MinUnitReading DEF guessUnit
  <2>4. CASE /\ det.state = "getUnitTillValInc" /\ Memorized
             /\ JustGrown(det.otherMetricVal, det.prevRawVal)
             /\ RawVal(metric) = det.prevRawVal
    <3>1. det' = GetUnitTillValInc(RawVal(n), n)
      BY <2>1, <2>4 DEF guessUnit
    <3> QED
      BY <2>1, <2>4, <3>1, TillValIncReading
  <2>5. CASE /\ det.state = "getUnit" /\ Memorized
             /\ JustGrown(det.otherMetricVal, det.prevRawVal)
             /\ RawVal(metric) = det.prevRawVal + det.rawValDiff
             /\ det.rawValDiff > 0 /\ EstimateError
    <3>1. det' = GetUnit(RawVal(n), n)
      BY <2>1, <2>5 DEF guessUnit
    <3> QED
      BY <2>1, <2>5, <3>1, UnitReading
  <2> QED
    BY <2>2, <2>3, <2>4, <2>5 DEF UnitInv, DetInv
<1>2. CASE Transmit
  <2>1. det.est \in Estimates /\ copy \in Estimates
    BY DEF UnitInv, DetTypes
  <2>2. copy' \in Estimates
    BY <1>2, <2>1 DEF Transmit, HandleSingleSMARTentry, Estimates
  <2> QED
    BY <1>2, <2>2 DEF Transmit, UnitInv, DriveOK, DetInv, Memorized, RawVal, JustGrown, EstimateError
<1>3. CASE UNCHANGED vars
  BY <1>3 DEF vars, UnitInv, DriveOK, DetInv, Memorized, RawVal, JustGrown, EstimateError
<1> QED
  BY <1>1, <1>2, <1>3 DEF Next

(* Nothing is memorized initially.                                         *)
LEMMA UnitInit == Init => UnitInv
<1> SUFFICES ASSUME Init PROVE UnitInv
  OBVIOUS
<1>1. NoEstimate \in Estimates /\ NoEstimate.unit = 0
  BY DEF NoEstimate, Estimates
<1>2. det \in DetTypes
  BY <1>1, UnitAssumption DEF Init, DetTypes, States
<1>3. DetInv
  BY <1>1 DEF Init, DetInv
<1> QED
  BY <1>1, <1>2, <1>3, UnitAssumption DEF Init, UnitInv, DriveOK

(* For every unit of a drive, every phase and any readings, the unit that  *)
(* guessUnit has determined, and its bounds, are off by at most what the   *)
(* metric grows between two readings.                                      *)
THEOREM UnitErrorBounded == Spec => []EstimateError
<1>1. UnitInv => EstimateError
  BY DEF UnitInv, DetInv, EstimateError
<1> QED
  BY <1>1, UnitInit, UnitStep, PTL DEF Spec

(* Before the raw value has grown guessUnit's value is a minimum of the    *)
(* unit.                                                                   *)
THEOREM MinimumUnit == Spec => []MinUnitIsMinimum
<1>1. UnitInv => MinUnitIsMinimum
  <2> SUFFICES ASSUME UnitInv, det.state = "getMinUnit" PROVE det.est.unit <= realUnit
    BY DEF MinUnitIsMinimum
  <2>1. realUnit \in Nat
    BY UnitAssumption DEF UnitInv, DriveOK
  <2> QED
    BY <2>1 DEF UnitInv, DetInv
<1> QED
  BY <1>1, UnitInit, UnitStep, PTL DEF Spec
(***************************************************************************)
(* What the client shows.                                                  *)
(***************************************************************************)

(* An estimate that may be shown: whichever of unit and lower bound is     *)
(* shown is not too great, and with an upper bound it is the unit, which   *)
(* is not too small.                                                       *)
Showable(e) ==
  /\ e.unit <= realUnit + MaxStep /\ e.lower <= realUnit + MaxStep
  /\ e.upper # 0 => ~e.greater /\ realUnit - MaxStep <= e.unit

(* The detection's estimate is showable and has an upper bound only at the *)
(* end. When HandleSingleSMARTentry would keep the client's unit there are *)
(* no bounds that do not belong to that unit: a unit of 0 is never         *)
(* determined.                                                             *)
EstInv ==
  /\ Showable(det.est)
  /\ det.state # "getUnit" => det.est.upper = 0
  /\ det.state = "getUnit" => ~det.est.greater /\ det.est.lower > 0
  /\ det.est.unit = 0 /\ ~det.est.greater => det.est.lower = 0 /\ det.est.upper = 0

ShownIInv == UnitInv /\ EstInv /\ Showable(copy)

(* The raw value grows by no more than the metric.                         *)
LEMMA RawGrowth ==
  ASSUME DriveOK, NEW m \in Nat, NEW n \in Nat, m <= n
  PROVE  RawVal(n) - RawVal(m) <= n - m
<1> DEFINE d == n - m  D == RawVal(n) - RawVal(m)
<1>1. /\ realUnit \in Nat \ {0} /\ phase \in Nat
      /\ RawVal(m) \in Nat /\ RawVal(n) \in Nat
      /\ realUnit * RawVal(m) \in Nat /\ realUnit * RawVal(n) \in Nat
      /\ phase + m < realUnit * RawVal(m) + realUnit
      /\ realUnit * RawVal(n) <= phase + n
  BY RawValOf
<1>2. realUnit * D = realUnit * RawVal(n) - realUnit * RawVal(m)
  BY <1>1, Distribute
<1>3. realUnit * D < d + realUnit
  BY <1>1, <1>2
<1>4. d \in Nat /\ D \in Int
  BY <1>1
<1> HIDE DEF d, D
<1>5. d * 1 <= d * realUnit /\ d * 1 = d /\ d * realUnit = realUnit * d /\ realUnit * d \in Int
  BY <1>1, <1>4, Times, Z3
<1>6. realUnit * (d + 1) = realUnit * d + realUnit /\ realUnit * D \in Int
  <2>1. realUnit * (d + 1) = realUnit * d + realUnit * 1 /\ realUnit * 1 = realUnit
    BY <1>1, <1>4, Distribute
  <2> QED
    BY <1>1, <1>4, <2>1
<1>7. realUnit * D < realUnit * (d + 1)
  BY <1>1, <1>3, <1>4, <1>5, <1>6
<1>8. D < d + 1
  BY <1>1, <1>4, <1>7, Cancel
<1>9. D <= d
  BY <1>4, <1>8
<1> QED
  BY <1>9 DEF d, D

(* So the quotient of guessUnit is not 0.                                  *)
LEMMA QuotientNotZero ==
  ASSUME DriveOK, NEW m \in Nat, NEW n \in Nat, m <= n, RawVal(m) < RawVal(n)
  PROVE  /\ (n - m) \div (RawVal(n) - RawVal(m)) \in Nat
         /\ (n - m) \div (RawVal(n) - RawVal(m)) > 0
<1> DEFINE d == n - m  D == RawVal(n) - RawVal(m)  q == d \div D
<1>1. RawVal(m) \in Nat /\ RawVal(n) \in Nat
  BY RawValOf
<1>2. d \in Nat /\ D \in Nat \ {0} /\ D <= d
  BY <1>1, RawGrowth
<1> HIDE DEF d, D
<1>3. q \in Nat /\ d < D * q + D
  BY <1>2, Floor
<1>4. ASSUME q = 0 PROVE FALSE
  <2>1. D * q = 0
    BY <1>2, <1>4
  <2> QED
    BY <1>2, <1>3, <2>1
<1>5. q > 0
  BY <1>3, <1>4
<1> QED
  BY <1>3, <1>5 DEF d, D, q

(* A reading keeps the estimate showable, in each state of guessUnit.      *)
LEMMA EstReading ==
  ASSUME UnitInv, EstInv, UnitInv', NEW n \in Nat, metric <= n, n <= metric + MaxStep,
         n <= MaxMetric, metric' = n, UNCHANGED <<realUnit, phase, copy>>,
         det' = guessUnit(RawVal(n), n)
  PROVE  EstInv'
<1> DEFINE o == det.otherMetricVal  r == RawVal(n)  rd == r - det.prevRawVal
<1>1. /\ o \in Nat /\ det.prevRawVal \in Nat /\ metric \in Nat /\ det.rawValDiff \in Nat
      /\ det.est \in Estimates /\ DriveOK
  BY DEF UnitInv, DetTypes
<1>2. /\ det.est.unit \in Nat /\ det.est.lower \in Nat /\ det.est.upper \in Nat
      /\ det.est.greater \in BOOLEAN /\ det \in DetTypes /\ MaxStep \in Nat
  BY <1>1, UnitAssumption DEF UnitInv, Estimates
<1>3. r \in Nat /\ realUnit \in Nat \ {0} /\ realUnit' = realUnit
  BY <1>1, RawValOf
<1>4. CASE det.state = "getMinUnit" /\ n < o
  <2>1. det' = [det EXCEPT !.otherMetricVal = n, !.prevRawVal = r]
    BY <1>4 DEF guessUnit, GetMinUnit, Memorize
  <2>2. det'.est = det.est /\ det'.state = det.state
    BY <1>2, <2>1 DEF DetTypes
  <2> QED
    BY <1>3, <2>2 DEF EstInv, Showable
<1>5. CASE det.state = "getMinUnit" /\ o <= n
  <2>1. Memorized /\ RawVal(metric) = det.prevRawVal
    BY <1>1, <1>5, UnitAssumption DEF UnitInv, DetInv
  <2>2. n - o \in Nat /\ n - o <= realUnit + MaxStep
    <3>1. metric - o < realUnit
      BY <1>1, <2>1, SameRaw DEF Memorized
    <3> QED
      BY <1>1, <1>2, <1>3, <1>5, <3>1
  <2>3. CASE r > det.prevRawVal
    <3> DEFINE e == [det.est EXCEPT !.unit = n - o, !.greater = FALSE, !.lower = n - o]
    <3>1. det' = [det EXCEPT !.otherMetricVal = n, !.prevRawVal = r,
                    !.state = "getUnitTillValInc", !.est = e]
      BY <1>2, <1>5, <2>3, <1>1 DEF guessUnit, GetMinUnit, Memorize, DetTypes
    <3>2. e.unit = n - o /\ e.greater = FALSE /\ e.lower = n - o /\ e.upper = det.est.upper
      BY <1>1 DEF Estimates
    <3> HIDE DEF e
    <3>3. det'.est = e /\ det'.state = "getUnitTillValInc"
      BY <1>2, <3>1 DEF DetTypes
    <3>4. n - o # 0
      BY <1>1, <2>1, <2>3, <1>3 DEF Memorized
    <3> QED
      BY <1>3, <1>5, <2>2, <3>2, <3>3, <3>4 DEF EstInv, Showable
  <2>4. CASE ~(r > det.prevRawVal)
    <3> DEFINE e == [det.est EXCEPT !.unit = n - o, !.greater = TRUE]
    <3>1. det' = [det EXCEPT !.est = e]
      BY <1>1, <1>5, <2>4 DEF guessUnit, GetMinUnit
    <3>2. e.unit = n - o /\ e.greater = TRUE /\ e.lower = det.est.lower /\ e.upper = det.est.upper
      BY <1>1 DEF Estimates
    <3> HIDE DEF e
    <3>3. det'.est = e /\ det'.state = det.state
      BY <1>2, <3>1 DEF DetTypes
    <3> QED
      BY <1>3, <1>5, <2>2, <3>2, <3>3 DEF EstInv, Showable
  <2> QED
    BY <2>3, <2>4
<1>6. CASE det.state = "getUnitTillValInc"
  <2>1. Memorized /\ RawVal(metric) = det.prevRawVal
    BY <1>6 DEF UnitInv, DetInv
  <2>2. n - o \in Nat /\ n - o <= realUnit + MaxStep
    <3>1. metric - o < realUnit
      BY <1>1, <2>1, SameRaw DEF Memorized
    <3> QED
      BY <1>1, <1>2, <1>3, <2>1, <3>1 DEF Memorized
  <2>3. CASE r > det.prevRawVal
    <3> DEFINE u == (n - o) \div rd
               e == [unit |-> u, greater |-> FALSE, lower |-> u, upper |-> u]
    <3>1. det' = [det EXCEPT !.state = "getUnit", !.rawValDiff = rd, !.est = e]
      BY <1>6, <2>3 DEF guessUnit, GetUnitTillValInc
    <3>2. u \in Nat /\ u > 0
      BY <1>1, <2>1, <2>3, QuotientNotZero DEF Memorized
    <3> HIDE DEF u
    <3>3. e.unit = u /\ e.greater = FALSE /\ e.lower = u /\ e.upper = u
      OBVIOUS
    <3> HIDE DEF e
    <3>4. det'.est = e /\ det'.state = "getUnit"
      BY <1>2, <3>1 DEF DetTypes
    <3>5. realUnit - MaxStep <= u /\ u <= realUnit + MaxStep
      BY <1>3, <3>3, <3>4 DEF UnitInv, DetInv, EstimateError
    <3> QED
      BY <1>3, <3>2, <3>3, <3>4, <3>5 DEF EstInv, Showable
  <2>4. CASE ~(r > det.prevRawVal)
    <3> DEFINE l == IF n - o > det.est.lower THEN n - o ELSE det.est.lower
               e == [det.est EXCEPT !.unit = n - o, !.greater = TRUE, !.lower = l]
    <3>1. det' = [det EXCEPT !.est = e]
      BY <1>1, <1>6, <2>4 DEF guessUnit, GetUnitTillValInc, Estimates
    <3>2. l \in Nat /\ l <= realUnit + MaxStep
      BY <1>2, <1>3, <2>2 DEF EstInv, Showable
    <3> HIDE DEF l
    <3>3. e.unit = n - o /\ e.greater = TRUE /\ e.lower = l /\ e.upper = det.est.upper
      BY <1>1 DEF Estimates
    <3> HIDE DEF e
    <3>4. det'.est = e /\ det'.state = det.state
      BY <1>2, <3>1 DEF DetTypes
    <3> QED
      BY <1>3, <1>6, <2>2, <3>2, <3>3, <3>4 DEF EstInv, Showable
  <2> QED
    BY <2>3, <2>4
<1>7. CASE det.state = "getUnit"
  <2>1. Memorized /\ EstimateError
    BY <1>7 DEF UnitInv, DetInv
  <2>2. CASE rd > det.rawValDiff
    <3> DEFINE u == (n - o) \div rd  e == Widened(det.est, u)
    <3>1. r > det.prevRawVal
      BY <1>1, <1>3, <2>2
    <3>2. det' = [det EXCEPT !.rawValDiff = rd, !.est = e]
      BY <1>7, <2>2, <3>1 DEF guessUnit, GetUnit
    <3>3. u \in Nat /\ u > 0
      BY <1>1, <2>1, <3>1, QuotientNotZero DEF Memorized
    <3> HIDE DEF u
    <3>4. e.greater = FALSE /\ e.lower = IF u < det.est.lower THEN u ELSE det.est.lower
      BY DEF Widened
    <3> HIDE DEF e
    <3>5. det'.est = e /\ det'.state = "getUnit"
      BY <1>2, <1>7, <3>2 DEF DetTypes
    <3>6. e.lower > 0
      BY <1>2, <1>7, <3>3, <3>4 DEF EstInv
    <3>7. e.unit \in Nat /\ e.lower \in Nat /\ e.upper \in Nat
      BY <3>5 DEF UnitInv, DetTypes, Estimates
    <3>8. /\ realUnit - MaxStep <= e.lower /\ e.lower <= e.unit
          /\ e.unit <= e.upper /\ e.upper <= realUnit + MaxStep
      BY <1>3, <3>5 DEF UnitInv, DetInv, EstimateError
    <3> QED
      BY <1>2, <1>3, <3>4, <3>5, <3>6, <3>7, <3>8 DEF EstInv, Showable
  <2>3. CASE ~(rd > det.rawValDiff)
    <3>1. det' = det
      BY <1>7, <2>3 DEF guessUnit, GetUnit
    <3> QED
      BY <1>3, <3>1 DEF EstInv, Showable
  <2> QED
    BY <2>2, <2>3
<1> QED
  BY <1>1, <1>4, <1>5, <1>6, <1>7 DEF UnitInv, DetInv

LEMMA ShownStep == ShownIInv /\ [Next]_vars => ShownIInv'
<1> SUFFICES ASSUME ShownIInv, [Next]_vars PROVE ShownIInv'
  OBVIOUS
<1>1. UnitInv'
  BY UnitStep DEF ShownIInv
<1>2. ASSUME NEW step \in 0..MaxStep, possiblyAutoDetectUnit(step) PROVE ShownIInv'
  <2> DEFINE n == metric + step
  <2>1. /\ n \in Nat /\ metric <= n /\ n <= metric + MaxStep /\ n <= MaxMetric
        /\ metric' = n /\ UNCHANGED <<realUnit, phase, copy>>
        /\ det' = guessUnit(RawVal(n), n)
    BY <1>2, UnitAssumption DEF possiblyAutoDetectUnit, ShownIInv, UnitInv
  <2> HIDE DEF n
  <2>2. EstInv'
    BY <1>1, <2>1, EstReading DEF ShownIInv
  <2> QED
    BY <1>1, <2>1, <2>2 DEF ShownIInv, Showable
<1>3. CASE Transmit
  <2>1. /\ det.est \in Estimates /\ copy \in Estimates
        /\ UNCHANGED <<realUnit, det>> /\ copy' = HandleSingleSMARTentry
    BY <1>3 DEF ShownIInv, UnitInv, DetTypes, Transmit
  <2>2. CASE det.est.unit = 0 /\ ~det.est.greater
    <3>1. copy' = [det.est EXCEPT !.unit = copy.unit, !.greater = copy.greater]
      BY <2>1, <2>2 DEF HandleSingleSMARTentry
    <3>2. /\ copy'.unit = copy.unit /\ copy'.greater = copy.greater
          /\ copy'.lower = 0 /\ copy'.upper = 0
      BY <2>1, <2>2, <3>1 DEF Estimates, ShownIInv, EstInv
    <3>3. realUnit + MaxStep >= 0
      BY UnitAssumption DEF ShownIInv, UnitInv, DriveOK
    <3> QED
      BY <1>1, <2>1, <3>2, <3>3 DEF ShownIInv, EstInv, Showable
  <2>3. CASE ~(det.est.unit = 0 /\ ~det.est.greater)
    <3>1. copy' = det.est
      BY <2>1, <2>3 DEF HandleSingleSMARTentry
    <3> QED
      BY <1>1, <2>1, <3>1 DEF ShownIInv, EstInv, Showable
  <2> QED
    BY <2>2, <2>3
<1>4. CASE UNCHANGED vars
  BY <1>1, <1>4 DEF vars, ShownIInv, EstInv, Showable
<1> QED
  BY <1>2, <1>3, <1>4 DEF Next

LEMMA ShownInit == Init => ShownIInv
<1> SUFFICES ASSUME Init PROVE ShownIInv
  OBVIOUS
<1>1. /\ NoEstimate.unit = 0 /\ NoEstimate.greater = FALSE
      /\ NoEstimate.lower = 0 /\ NoEstimate.upper = 0
  BY DEF NoEstimate
<1>2. det.est = NoEstimate /\ det.state = "getMinUnit" /\ copy = NoEstimate
  BY DEF Init
<1>3. realUnit + MaxStep >= 0
  BY UnitAssumption DEF Init
<1> QED
  BY <1>1, <1>2, <1>3, UnitInit DEF ShownIInv, EstInv, Showable

(* However late the client is and whatever it has kept, the unit it shows  *)
(* exceeds the real one by no more than what the metric grows between two  *)
(* readings, and one with an upper bound is not more than that below it    *)
(* (HandleSingleSMARTentry, useDeterminedUnits); every variable stays in   *)
(* its range.                                                              *)
THEOREM UnitShownBounded == Spec => []ShownInv
<1>1. ShownIInv => ShownInv
  <2> SUFFICES ASSUME ShownIInv PROVE TypeOK /\ UnitShown
    BY DEF ShownInv
  <2>1. TypeOK
    BY DEF ShownIInv, UnitInv, DriveOK, DetTypes, TypeOK
  <2>2. UnitShown
    BY DEF ShownIInv, UnitInv, Estimates, Showable, UnitShown, ShownUnit
  <2> QED
    BY <2>1, <2>2
<1> QED
  BY <1>1, ShownInit, ShownStep, PTL DEF Spec
=============================================================================
