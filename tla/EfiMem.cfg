CONSTANTS
  Pages = 4
  EfiTypes = {"EfiConventionalMemory", "EfiReservedMemoryType"}
  MaxRanges = 3
  IOM_BEGIN = 1
  IOM_END = 2
  LLONG_MAX = 31
  Numbers <- MCNumbers
  MaxEdits = 2
SPECIFICATION Spec
INVARIANTS TypeOK ProbeIsExact NoInventedMemory NoLostMemory KernelGetsWhatWasShown ExtmemStopsAtGap
CHECK_DEADLOCK FALSE
