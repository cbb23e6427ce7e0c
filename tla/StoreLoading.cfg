SPECIFICATION FairSpec
CONSTANTS
  T1 = T1
  O1 = O1
  X1 = X1
  T2 = T2
  O2 = O2
  X2 = X2
  S = S
  A = A
  NoJob = NoJob
  Job <- AllJobs
  JobType <- MCTypes
  TypeOf <- MCTypeOf
  Registered <- MCTypes
  Priority = {T1, O1, X1, T2, O2, X2, S}
  RetryOf <- MCRetryOf
  BackupOf <- MCBackupOf
  Results <- MCResults
  Roots <- MCRoots
  Tag <- MCTag
  TagsOf <- MCTagsOf
  WaitsFor <- MCWaitsFor
  OpenDb = {O1, O2}
  Mix = {X1, X2}
  Load = S
  Faulty = {X1, X2, S}
  Raising = {}
  Waits = {X1, X2}
  Aborting = {A}
  MaxThreads = 2
  MaxTries = 1
  MaxCycle = 3
  MaxQuiet = 2
  MaxRuns = 1
  FailGracefully = FALSE
  Interruptible = FALSE
  Dbs = 2
  MaxPkgs = 14
CHECK_DEADLOCK FALSE
INVARIANTS LoadedOnce
PROPERTIES MixGetsStore
