SPECIFICATION FairSpec
CHECK_DEADLOCK FALSE
CONSTANTS
  look = look
  edit = edit
  shell = shell
  Call = {look, edit, shell}
  NeedsApproval = {shell}
  ReadOnly = {look}
  a = a
  b = b
  x = x
  y = y
  Text = {a, b, x, y}
  Continues = {a, b}
  Concludes = {x}
  Fallbacks = 1
  BaseLimit = 2
  ToolBudget = 1
  MaxBudget = 3
  MaxTurns = 1
  MaxSwitches = 2

INVARIANTS
  RunnerInStep
  CirclesAreFound
PROPERTIES
  LoopAsPromised
  TurnsEnd
