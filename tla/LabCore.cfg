SPECIFICATION MCSpec
CHECK_DEADLOCK FALSE
CONSTANTS
  s1 = s1
  s2 = s2
  Sessions = {s1, s2}
  Agents = {s1}
  n1 = n1
  Names = {n1}
  a = a
  Muts = {a}
  MaxVersion = 3
  MaxTask = 2
  MaxCycles = 1
  MaxMoves = 1
  Stagnation = 1
  MaxMutations = 2
  Schedule = 2
  ParamSlots = 1
  Bars <- MCBars
  Strategies <- MCStrategies
  Totals = {15}
  MaxBars = 5
  Warmups = {1, 2}
  Folds = {2}
  None = None
INVARIANTS
  TradesAreFirstHits
  RejectionIsRemembered
PROPERTIES
  KeepsLineage
  
