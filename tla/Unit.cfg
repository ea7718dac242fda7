SPECIFICATION Spec
CONSTANTS
  RealUnits = {1, 3, 6}
  MaxStep = 4
  MaxMetric = 24
  MaxUint64 = 100
INVARIANTS EstimateError MinUnitIsMinimum ShownInv
