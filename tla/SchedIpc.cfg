CONSTANTS
  Hart = {b, h1}
  BootHart = b
  MAX_TASKS = 2
  MAILBOX_DEPTH = 1
  IPC = ipc
  Cap = {ipc}
  Space = {s1, s2}
  KernelSpace = kernel
  Bare = bare
  LaunchCaps = {{ipc}}
  Personality = {"native"}
  ExitCode = {0}
  Commands = {"smp", "tasks"}
  Counts = {2}
  Syscalls = {"exit", "send", "recv", "irq_wait"}
  Timeouts = {}
  MaxIrqs = 1
  GiveUps = {"idle"}
SPECIFICATION Spec
SYMMETRY Symmetry
INVARIANTS
  NoStrandedMessage
  NoLostInterrupt
