CONSTANTS
  p1 = p1
  p2 = p2
  p3 = p3
  Procs = {p1, p2}
  NoProc = NoProc
  rwl = rwl
  Idents = {rwl}
  NoIdent = NoIdent
  Calls <- MCStopCalls
  Signalled = {}
  Stoppable = {p1}
SPECIFICATION FairSpec
PROPERTY SleepersRun
