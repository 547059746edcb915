CONSTANTS
  Slug = {s1, s2}
  RX_NBUF = 2
  MARZ_TRIES = 1
  MaxLaunches = 2
  MaxWire = 2
  PromptNetwork = TRUE
  RunsEnd = FALSE
INIT MarzInit
NEXT MarzNext
INVARIANTS  VerdictTruthful 
CHECK_DEADLOCK FALSE
