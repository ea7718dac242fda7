SPECIFICATION Spec
CONSTANTS
  Starts <- ShippedStarts
  OptionFiles <- MCOptionFiles
  IDs = {1, 2}
  DefaultIDs = {1}
  LogLevels = {"debug", "warning", "error"}
INVARIANTS BothNamed
