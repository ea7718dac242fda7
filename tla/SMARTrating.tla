----------------------------- MODULE SMARTrating -----------------------------
(***************************************************************************)
(* One attribute of a drive over time: the drive reports a value, and the  *)
(* value is rated (GetSMARTattrValRtng of src/src/SMARTvalueRater.hpp).    *)
(* The properties are about the rating of any value and about how the      *)
(* rating changes from one value to the next.                              *)
(***************************************************************************)
EXTENDS SMARTvalueRater

CONSTANT Reports  \* attributes and values the drives report, as
                  \* <<kind, value>>

ASSUME RatingAssumption == Reports \subseteq Kinds \X Values

VARIABLES
  kind,  \* the attribute
  val,   \* the value the drive reports
  rtg    \* its rating

ratingVars == <<kind, val, rtg>>

RatingInit ==
  /\ \E r \in Reports : kind = r[1] /\ val = r[2]
  /\ rtg = GetSMARTattrValRtng(kind, val)

(* The drive reports another value of the same attribute, which is rated.  *)
Report ==
  /\ \E r \in Reports : r[1] = kind /\ val' = r[2]
  /\ rtg' = GetSMARTattrValRtng(kind, val')
  /\ UNCHANGED kind

RatingNext == Report
RatingSpec == RatingInit /\ [][RatingNext]_ratingVars

-----------------------------------------------------------------------------
(* A value that must not go unnoticed is rated below the threshold for     *)
(* warnings (UpdateSMARTvaluesUI compares the rating of                    *)
(* GetSMARTattrValRtng with it) for all attributes, values and thresholds  *)
(* but those of RatedGood, and for those it is not.                        *)
AlarmWarns == InAlarm(kind, val) => (Less(rtg, WarnThresh) <=> ~RatedGood(kind, val))

(* A rating is "unknown" (enum Rslt) or between the worst and the best,    *)
(* exactly as long as the value is on its scale: more than 100 % used is   *)
(* rated worse than the worst ("100 % used: fully critical (worst          *)
(* rating)", SMARTvalueRater.hpp 233).                                     *)
RatingInRange ==
  rtg # Unknown =>
    ((~Less(rtg, WorstRtgVal) /\ ~Less(BestRtgVal, rtg)) <=> ~OffScale(kind, val))

SameMaximum ==
  kind \in {"mfr", "mfr200"} => maxNrmlzdVal(kind, val') = maxNrmlzdVal(kind, val)

(* As long as the assumed maximum of the normalized values stays the same  *)
(* and its threshold has not been reached, a value that gets worse never   *)
(* gets a better rating, unless the difference wraps; nor do temperatures  *)
(* and NVMe's values, used percentages above 100 included, if thresholds   *)
(* of the spare are percentages (GetSMARTattrValRtng).                     *)
WorseAboveThresh ==
  [][(/\ Worse(kind, val', val)
      /\ SameMaximum
      /\ kind \in {"mfr", "mfr200"} => ~InAlarm(kind, val) /\ ~Wraps(val')
      /\ kind = "AvailableSpare" => val.thresh <= 100)
     => ~Less(rtg, rtg')]_ratingVars
=============================================================================
