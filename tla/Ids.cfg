SPECIFICATION FairSpec
CONSTANTS
  N = 4
  Texts <- MCTexts
  Tables <- MCTables
  CopyCounts <- MCCounts
  Tails <- MCTails
  NotANumber = NotANumber
  MaxBlind = 1
INVARIANTS TypeOK ReadsIntersection ReadsWhatIsInOrder ClientLinesMatch
PROPERTIES ImplementsSelection LinesSettle
