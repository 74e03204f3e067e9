SPECIFICATION FairSpec
CONSTANTS
  Files <- MCFiles
  Envs <- MCEnvs
  Tables <- MCTables
  Names <- MCNames
  Blank = Blank
  Missing = Missing
  None = None
  MaxStarts = 3
  MaxOutages = 1
  MaxEdits = 1
INVARIANTS TypeOK ServesOnTables TimeSeriesReady DiesForAReason
PROPERTY StartEnds
CHECK_DEADLOCK FALSE
