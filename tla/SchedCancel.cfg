SPECIFICATION Spec
CONSTANTS
  a = a
  c = c
  e = e
  s1 = s1
  Job = {a, c, e}
  Session = {s1}
  Handler = {h1}
  JobType <- MCJobType
  Owner <- MCOwner
  MaxRuns <- MCMaxRuns
  At <- MCAt
  SkipWhenBusy = {c}
  JobLimit = 2
  CatchUpWindow = 0
  MayMisfire = TRUE
  MaxTime = 2
  MaxRestarts = 1
  MaxEventRuns = 1
  User = User
  NoJob = NoJob
  NoOne = NoOne

PROPERTY
  CancelIsFinal
