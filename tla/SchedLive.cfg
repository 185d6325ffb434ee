SPECIFICATION FairSpec
CONSTANTS
  a = a
  c = c
  e = e
  s1 = s1
  Job = {a, c}
  Session = {s1}
  Handler = {}
  JobType <- MCJobType
  Owner <- MCOwner
  MaxRuns <- MCMaxRuns
  At <- MCAt
  SkipWhenBusy = {}
  JobLimit = 2
  CatchUpWindow = 0
  MayMisfire = FALSE
  MaxTime = 2
  MaxRestarts = 1
  MaxEventRuns = 1
  User = User
  NoJob = NoJob
  NoOne = NoOne

PROPERTIES
  
  FiringEnds
