CONSTANTS
  MAX_PKGS = 2
  SectorSlots = 1
  Package <- MCPackage
  Name = {"a"}
  Commands = {"recv", "update", "rollback", "remove", "pin", "unpin", "gc", "recover", "store", "look", "fault"}
  RestartAfterFailure = TRUE
  NoPkg = NoPkg
  Blank = Blank
  Torn = Torn
SPECIFICATION Spec

  
  
PROPERTIES
  
  RecoverSucceeds
