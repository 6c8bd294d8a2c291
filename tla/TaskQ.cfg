CONSTANTS
  creator = creator
  destroyer = destroyer
  Procs = {w1, w2, w3, c1, c2, creator, destroyer}
  Workers = {w1, w2, w3}
  Callers = {c1, c2}
  Tasks = {t1, t2}
  NoTask = NoTask
  NoProc = NoProc
  NoIdent = NoIdent
  tq = tq
  running = running
  Idents = {tq, running}
  NThreads = 2
  MayFail = TRUE
  MaxAdds = 2
SPECIFICATION ForkSpec
INVARIANTS RunsOncePerAdd FreedIsUnused
PROPERTIES Serviced DestroyReturns
CHECK_DEADLOCK FALSE
