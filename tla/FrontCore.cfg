SPECIFICATION MCSpec
CHECK_DEADLOCK FALSE
CONSTANTS
  MaxInputs = 3
  MaxQueue = 2
  Kinds = {"chat", "command", "task", "queue", "autooff"}
  MaxForeign = 1
  MaxStream = 3
  Watched <- MCWatched
  Product <- MCProduct
  Timeframes <- MCTimeframes
  MaxLoads = 3
  Concurrent = 1
  Markets = {"BTC", "ETH"}
  MaxSockets = 2
  MaxFetches = 2
  MaxTurns = 2
  Managers = {"m1"}
  Names = {"trader"}
  Fallbacks = 1
  MaxAgents = 2
  MaxTasks = 2
  Handlers <- MCHandlers
  Symbols = {"BTC", "ETH"}
  SignalKinds = {"BUY", "ANALYSIS"}
  Depth = 2
  MaxSignals = 3
  MaxTime = 1
INVARIANTS
  InputsRunOnce
  ChartIsFed
  AgentsKeepBooks
  DeskAsPromised
PROPERTIES
  EveryInputLeaves
  ChartCatchesUp
