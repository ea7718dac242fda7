SPECIFICATION FairSpec
CONSTANTS
  Starts <- MCStarts
  OptionFiles <- MCOptionFiles
  IDs = {1, 2}
  DefaultIDs = {1}
  LogLevels = {"debug", "warning", "error"}
INVARIANTS StartInv NamesIfMissing LoadedAsWritten ServesAsConfigured ConfigErrorShown ConnectsOrReads
PROPERTIES StartEnds
