CONSTANTS
  Procs = {p1}
  NoProc = NoProc
  gc = gc
  Idents = {gc}
  NoIdent = NoIdent
  ncpu = 1
  levels = 2
  SRP_HAZARD_NUM = 2
  Srps = {s1}
  Values = {v1, v2}
  NULL = NULL
  SameSrp = TRUE
SPECIFICATION Spec
INVARIANT NoUseAfterFree
