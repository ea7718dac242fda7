SPECIFICATION RatingSpec
CONSTANTS
  UintRange = 65536
  LongRange = 65536
  Reports <- AllReports
INVARIANTS AlarmWarns RatingInRange
PROPERTY WorseAboveThresh
