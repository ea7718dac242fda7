SPECIFICATION FairSpec
CONSTANTS
  UintRange = 65536
  LongRange = 65536
  Attrs = {a1, a2}
  Kind <- TwoMfr
  ValuesOf <- GoodOrBad
  Garbage = {0, 100}
  Source = "libatasmart"
INVARIANTS StatusInv
PROPERTY AlarmShown
