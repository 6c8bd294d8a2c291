CONSTANTS
  N = 3
  Wrap = 16
  Size = 9
  INT_MAX = 15
  PerSector = 2
  InitTables <- MCInitTables
  Answers = {0, 4}
  MaxEdits = 2
  MaxCrashes = 1
  MaxErrors = 1
SPECIFICATION Spec
PROPERTY ModifiedIsShown
