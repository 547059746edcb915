CONSTANTS
  Hart = {b, h1, h2}
  BootHart = b
  MAX_TASKS = 3
  MAILBOX_DEPTH = 1
  IPC = ipc
  Cap = {ipc}
  Space = {s1, s2, s3}
  KernelSpace = kernel
  Bare = bare
  LaunchCaps = {{ipc}}
  Personality = {"native"}
  ExitCode = {0}
  Commands = {"smp"}
  Counts = {2, 3}
  Syscalls = {"yield", "exit", "fault"}
  Timeouts = {}
  MaxIrqs = 0
  GiveUps = {}
SPECIFICATION Spec
SYMMETRY Symmetry
INVARIANTS
  ClaimExclusive
  TrapFindsItsTask
  RunsInItsSpace
  SpacesConserved
