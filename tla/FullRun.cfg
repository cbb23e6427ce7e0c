SPECIFICATION FairSpec
CONSTANTS
  MaxVersion = 3
  MaxFailures = 1
  MaxCuts = 1
  MaxOutages = 1
  Checkings = {"exhaustive", "balanced"}
  Reboots = {"never", "always", "linux"}
CHECK_DEADLOCK FALSE
INVARIANTS FullTypeOK UserFilesKept TornFlashIsSeen RebootIntoNew
PROPERTIES EventuallyCurrent
