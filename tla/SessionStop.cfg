SPECIFICATION Spec
CONSTANTS
  Client = {c1, c2}
  Job = {j1}
  Session = {main}
  Main = main
  NoOne = NoOne
  MaxBudget = 2
  MaxMessages = 2
  MaxClicks = 2
  MaxFirings = 1

INVARIANTS
  OneStopOneTurn
