CONSTANTS
  Procs = {p1, p2}
  NoProc = NoProc
  chan = chan
  globalsleepaddr = globalsleepaddr
  Idents = {chan, globalsleepaddr, p1, p2}
  NoIdent = NoIdent
  Timeouts = {p1, p2}
  NoTimeout = NoTimeout
  Durations = {1}
  Adjustments = {}
  ThrIdents = {1}
  Signalled = {p1}
  Stoppable = {p1}
SPECIFICATION FairSpec
INVARIANTS OwnTimeout HonestResult NoLostThrwakeup
PROPERTIES TimedSleepEnds
