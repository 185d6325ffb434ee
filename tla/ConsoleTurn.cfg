SPECIFICATION ConsoleSpec
CHECK_DEADLOCK FALSE
CONSTANTS
  MaxInputs = 3
  MaxQueue = 2
  Kinds = {"task"}
  MaxForeign = 1
  MaxStream = 3
INVARIANT
  InputsDoNotRace
