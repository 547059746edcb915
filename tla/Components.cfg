CONSTANTS
  GEN_MOD = 4
  Rights = {"read", "write", "delegate"}
  SecrecyTag = {"vault"}
  Endorsement = {"endorsed"}
  Revocable = {"lab"}
  MaxRevocations = 1
  MAX_AHD = 2
  Package = {"lab", "elf"}
  Requests <- MCRequests
  IsElf = {"elf"}
  HasNs = {"lab", "elf"}
  Calls <- MCCalls
  Leases = {0, 2}
  MaxBoots = 1
  Object = {o1, o2}
  MaxRevokes = 2
  MaxHandles = 3
  Slug = {s1, s2}
  RX_NBUF = 2
  MARZ_TRIES = 1
  MaxLaunches = 2
  MaxWire = 2
  PromptNetwork = TRUE
  RunsEnd = TRUE
  MAX_PROG = 7
  STACK_SIZE = 2
  CALL_SIZE = 1
  MEM_SIZE = 2
  MaxLen = 7
  Programs <- MCPrograms
  Caps = {{"print", "read"}, {"print", "write"}}
  Text = {"t"}
  PkgSector = {24, 25, 32, 1600}
  MaxCommands = 2
  MaxFaults = 2
INIT PartInit
NEXT PartNext
CHECK_DEADLOCK FALSE
INVARIANTS
  FlowsObeyLabels
  
  WithinCeiling
  LeaseBounds
  RevokedStaysDead
  DelegationNarrows
  
  VerifiedStaysOnInstructions

  
  
