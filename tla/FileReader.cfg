SPECIFICATION FairSpec
CONSTANTS
  Files <- MCFiles
  FixedSize = 2
  Retention = 2
  MaxFileSize = 26
  MaxSlice = 8
  Rooms = {0, 1, 5, 99}
INVARIANTS
    OutputIsPrefix OutcomeFitsFile
PROPERTY DecodeEnds
CHECK_DEADLOCK FALSE
