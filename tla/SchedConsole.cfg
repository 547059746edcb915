CONSTANTS
  Hart = {b}
  BootHart = b
  MAX_TASKS = 2
  MAILBOX_DEPTH = 1
  IPC = ipc
  Cap = {ipc, k}
  Space = {s1, s2}
  KernelSpace = kernel
  Bare = bare
  LaunchCaps = {{ipc}, {ipc, k}}
  Personality = {"native"}
  ExitCode = {0}
  Commands = {"tasks", "processes"}
  Counts = {1, 2}
  Syscalls = {"yield", "exit", "fault", "send", "recv", "recv_timeout"}
  Timeouts = {1}
  MaxIrqs = 0
  GiveUps = {}
SPECIFICATION Spec
SYMMETRY SpaceSymmetry

  
PROPERTIES
  NoAmplification
