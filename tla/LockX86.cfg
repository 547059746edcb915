CONSTANTS
  Hart = {h1, h2, h3}
  MaxTicket = 3
  WORKERS = 2
  TARGET_TICKS = 1
  RUN_TICKS = 6
  MIN_TURNS = 2
  MIN_NOTES = 2
  BACKSTOP_TICKS = 5
  POOL_PAGES = 64
SPECIFICATION PartSpec
CHECK_DEADLOCK FALSE
INVARIANTS
  MutualExclusion
  NeverWaitsForItself
  RunsItsOwnContext
  DemosPass
PROPERTIES
  EveryWaiterServed
  BootCompletes
