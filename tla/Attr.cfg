CONSTANTS
  Attrs = {spare, hours}
  Bits = {0}
  NSamples = 3
  TimeOf <- OneBit
  Wide = {hours}
SPECIFICATION Spec
INVARIANT ReadWhole
CHECK_DEADLOCK FALSE
