SPECIFICATION MCSpec
CHECK_DEADLOCK FALSE
CONSTANTS
  Agents = {"trader", "analyst"}
  Words = {"w", "x"}
  Contents <- MCContents
  Limit = 3
  SkillNames = {"s"}
  ToolThreads = {"t1", "t2", "learn"}
  Owner <- MCOwner
  MaxCalls = 3
  MaxTools = 3
  Nudge = 3
  SessionNames = {"a"}
  Spellings = {" a"}
  Stripped <- MCStripped
  Holders = {"c1", "c2"}
  MaxObjects = 3
  MaxBegun = 2
  Callers = {"k", "t"}
  Terminals = {"t"}
  AtOnce = 1
  MaxSpawns = 3
  MaxCommands = 5
  Processes = {"daemon", "terminal"}
  Assets = {"BTC"}
  Prices = {0, 720}
  Start = 1200
  MaxQty = 2
  MaxOrders = 3
  Parallel = 1
  Grain <- MCGrain
  Builders = {"daemon", "terminal", "codex"}
  MaxIssued = 4
  Page = 2
  Cap = 3
  Ratio = 2
  MaxLimit = 4
  MaxTs = 6
  Clients = {"c1", "c2"}
  Intervals = {"1m", "1h"}
  MinBackoff = 1
  MaxBackoff = 3
  MaxBars = 2
  MaxEvents = 4
INVARIANTS
  NothingForgotten
  
  ChatsAreKept
  
  
  LoginSurvives
  PagesAreExact
  WordsArriveInOrder
  QuietIsCurrent
PROPERTIES
  ClientsSeeTime
