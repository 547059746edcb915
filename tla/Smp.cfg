CONSTANTS
  Hart = {b, h1, h2}
  BootHart = b
  MaxTicket = 3
  RUNQ_CAP = 2
  FRAME_TOTAL = 4
  NJOBS = 2
  AP_SLOTS = 2
  SMP_WORK = 1
  SMP_LOCK_WORK = 1
  SpinRunsOut = TRUE
  PromptCheckIn = TRUE
  MaxCommands = 2
  MaxTicks = 1
SPECIFICATION SmpSpec
INVARIANTS
  RoundExact
  BatchExact
  
  FramesAccounted
SYMMETRY Symmetry
