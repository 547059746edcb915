CONSTANTS
  MAX_PKGS = 2
  SectorSlots = 1
  Package <- MCPackage
  Name = {"a"}
  Commands = {"recv", "update", "rollback", "look"}
  RestartAfterFailure = TRUE
  NoPkg = NoPkg
  Blank = Blank
  Torn = Torn
SPECIFICATION Spec
PROPERTY
  RecoveredRollbackRuns
