SPECIFICATION FairSpec
CONSTANTS
  T = T
  O = O
  P = P
  F = F
  L = L
  U = U
  NoJob = NoJob
  Job <- Jobs
  JobType <- Types
  TypeOf <- MCTypeOf
  Registered <- MCRegistered
  Priority <- MCPriority
  RetryOf <- MCRetryOf
  BackupOf <- MCBackupOf
  Results <- MCResults
  Roots <- RootsSummary
  Faulty = {T, O}
  Raising = {P, F}
  Waits = {P}
  Aborting = {}
  MaxThreads = 2
  MaxTries = 1
  MaxCycle = 1
  MaxQuiet = 2
  MaxRuns = 1
  FailGracefully = FALSE
  Interruptible = TRUE
  MaxPkgs = 7
CHECK_DEADLOCK FALSE
INVARIANTS TypeOK PendingAccounting CleanExit
PROPERTIES ExecutionEnds
