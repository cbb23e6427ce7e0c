SPECIFICATION FairSpec
CONSTANTS
  Base = "ini"
  DropIns <- MCDropIns
  DefaultDb = "dist"
  Dbs <- MCDbs
  Editions <- MCEditions
  Outer <- MCOuter
  Drives <- MCDrives
  Inis <- MCInis
  Options = {"balanced"}
  MaxChanges = 2
  MaxTroubles = 1
INVARIANTS SkippedIsServed CheckedIsServed UninstallComplete ReturnIsAnnounced
PROPERTIES OthersKept Settles
