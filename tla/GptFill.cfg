CONSTANTS
  N = 3
  Wrap = 16
  FirstLba = 3
  LastLba = 10
  Tables <- MCTables
SPECIFICATION FillFairSpec
INVARIANTS TakesOnlyFreeSpace StaysUsable ComputesFill
PROPERTY Terminates
