SPECIFICATION FairSpec
CONSTANTS
  Drives <- MCDrives
  Key <- MCKey
  FolderOf <- MCFolderOf
  Cores <- MCCores
  Worlds <- MCWorlds
  MaxChanges = 2
  MaxCrashes = 1
  MaxFailures = 1
INVARIANTS ImportTypeOK RecordedIsOnDisk NoOrphans SkippedIsComplete
PROPERTIES ClaimedKept Converges
