SPECIFICATION FairSpec
CONSTANTS
  MaxVersion = 2
  MaxFailures = 1
  MaxCuts = 0
  MaxOutages = 0
  Checkings = {"balanced"}
  Reboots = {"always"}
CHECK_DEADLOCK FALSE
PROPERTY TryAgainLater
