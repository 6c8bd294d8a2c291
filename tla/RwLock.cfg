CONSTANTS
  p1 = p1
  p2 = p2
  p3 = p3
  Procs = {p1, p2, p3}
  NoProc = NoProc
  rwl = rwl
  Idents = {rwl}
  NoIdent = NoIdent
  Calls <- MCCalls
  Signalled = {p1}
  Stoppable = {p1}
SPECIFICATION FairSpec
INVARIANTS MutualExclusion WaitBitsNeedHolder NoLostWakeup
PROPERTIES Implements OthersRun
