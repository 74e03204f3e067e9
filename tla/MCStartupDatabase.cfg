SPECIFICATION FairSpec
CONSTANTS
  Files <- MCFiles
  Envs <- MCEnvs
  Tables <- MCTables
  Names <- MCNames
  Blank = Blank
  Missing = Missing
  None = None
  MaxStarts = 3
  MaxOutages = 1
  MaxEdits = 1
INVARIANT OpensWhatTheFileNames
CHECK_DEADLOCK FALSE
