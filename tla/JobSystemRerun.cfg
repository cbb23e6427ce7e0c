SPECIFICATION Spec
CONSTANTS
  T = T
  O = O
  P = P
  F = F
  L = L
  U = U
  NoJob = NoJob
  Job <- Jobs
  JobType <- Types
  TypeOf <- MCTypeOf
  Registered <- MCRegistered
  Priority <- MCPriority
  RetryOf <- MCRetryOf
  BackupOf <- MCBackupOf
  Results <- MCResults
  Roots <- RootsRerun
  Faulty = {L}
  Raising = {L}
  Waits = {L}
  Aborting = {}
  MaxThreads = 2
  MaxTries = 1
  MaxCycle = 1
  MaxQuiet = 2
  MaxRuns = 2
  FailGracefully = TRUE
  Interruptible = TRUE
  MaxPkgs = 6
CHECK_DEADLOCK FALSE
INVARIANTS SettledOnce NothingLost
PROPERTIES CancelStopsSpawning ImplementsLedger
