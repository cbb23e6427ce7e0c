SPECIFICATION FairSpec
CONSTANTS
  Descriptions <- All
  MaxTries = 2
  MaxCrashes = 2
INVARIANTS InstallTypeOK RecordedIsInstalled
PROPERTIES GoodFileKept UpdateIsDurable EventuallyInstalled
