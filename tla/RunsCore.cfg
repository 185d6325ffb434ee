SPECIFICATION FairSpec
CONSTANTS
  Run = {r1, r2}
  Message = {m1}
  MaxEvents = 1
  MaxRestarts = 1
  NoRecord = NoRecord

INVARIANTS
  AbortStopsTheWork
  TerminalMeansOver
PROPERTIES
  OnlyThreadsUndo
  RunnersEnd
