CONSTANTS
  Procs = {p1, p2, p3}
  MaxDepth = 3
SPECIFICATION Spec
INVARIANTS HeldWhileNested
