CONSTANTS
  Hart = {b}
  BootHart = b
  MAX_TASKS = 2
  MAILBOX_DEPTH = 1
  IPC = ipc
  Cap = {ipc}
  Space = {s1, s2}
  KernelSpace = kernel
  Bare = bare
  LaunchCaps = {{ipc}}
  Personality = {"native"}
  ExitCode = {0}
  Commands = {"foreground", "service"}
  Counts = {1}
  Syscalls = {"exit", "send", "recv", "recv_timeout", "irq_wait"}
  Timeouts = {1}
  MaxIrqs = 1
  GiveUps = {}
SPECIFICATION FairSpec
PROPERTIES
  
  ReadyTaskRuns
  InterruptEndsWait
  TimedReceiveEnds
