SPECIFICATION FairSpec
CONSTANTS
  M1 = M1
  Z1 = Z1
  O1 = O1
  X1 = X1
  W1 = W1
  D1 = D1
  M2 = M2
  Z2 = Z2
  O2 = O2
  X2 = X2
  W2 = W2
  D2 = D2
  NoJob = NoJob
  Job <- AllJobs
  JobType <- MCTypes
  TypeOf <- MCTypeOf
  Registered <- MCTypes
  Priority <- AllJobs
  RetryOf <- MCRetryOf
  BackupOf <- MCBackupOf
  Results <- MCResults
  Roots <- MCRoots
  Tag <- MCTag
  TagsOf <- MCTagsOf
  WaitsFor <- MCWaitsFor
  Faulty = {}
  Raising = {}
  Waits = {W1, W2}
  Aborting = {}
  MaxThreads = 2
  MaxTries = 1
  MaxCycle = 3
  MaxQuiet = 2
  MaxRuns = 1
  FailGracefully = FALSE
  Interruptible = FALSE
  Dbs = 2
  MaxPkgs = 12
CHECK_DEADLOCK FALSE
INVARIANT SomeoneProgresses
