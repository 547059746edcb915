------------------------------- MODULE Sched -------------------------------
(***************************************************************************)
(* The scheduler of the RISC-V kernel, dezh-boot/src/sched.rs: the task    *)
(* table, the run entries of the console, the trap handler that serves the *)
(* tasks' system calls, and the secondary harts that may join a run.       *)
(*                                                                         *)
(* A step is one critical section of SCHED_LOCK (TicketLock proves it      *)
(* exclusive) together with the hart-local work around it.  Everything     *)
(* between two sections is where the harts interleave: pc[h] names the     *)
(* point a hart has reached.                                               *)
(***************************************************************************)
EXTENDS Integers, Sequences, FiniteSets

CONSTANTS
  Hart, BootHart,       \* the harts; the one that runs the console
  MAX_TASKS,            \* slots of the task table (4 in the code)
  MAILBOX_DEPTH,        \* messages a mailbox holds (4 in the code)
  Cap, IPC,             \* capability bits, and TASK_IPC among them
  Space,                \* address spaces the frame allocator can provide
  KernelSpace, Bare,    \* kernel_satp() and the satp value 0
  LaunchCaps,           \* capability sets the console launches tasks with
  Personality,          \* personalities it launches them with
  ExitCode,             \* exit codes tasks pass to SYS_EXIT
  Commands,             \* which run entries the console uses
  Counts,               \* how many programs one command launches
  Syscalls,             \* system calls the tasks make
  Timeouts,             \* tick counts passed to SYS_RECV_TIMEOUT
  MaxIrqs,              \* bound on the device interrupts raised
  GiveUps               \* bounded waits that may run out: "idle", "join"

Task == 0 .. MAX_TASKS - 1
FIRST_FOREGROUND_TASK == 1
NoTask == MAX_TASKS                 \* NO_TASK: no valid slot
SYS_DENIED == -1                    \* exit code of a killed task
NoDeadline == -1                    \* TRECV_WAITING is false
Call == [call : {"none", "recv", "recv_timeout", "irq_wait"}, arg : Nat]
NoCall == [call |-> "none", arg |-> 0]
Message == [from : Task, grant : SUBSET Cap, sender_caps : SUBSET Cap]

ASSUME SchedAssumption ==
  /\ BootHart \in Hart
  /\ MAX_TASKS \in Nat /\ MAX_TASKS > FIRST_FOREGROUND_TASK
  /\ MAILBOX_DEPTH \in Nat \ {0}
  /\ IPC \in Cap
  /\ KernelSpace \notin Space /\ Bare \notin Space /\ KernelSpace # Bare
  /\ LaunchCaps \subseteq SUBSET Cap
  /\ Personality \subseteq {"native", "linux"}
  /\ ExitCode \subseteq Nat
  /\ Commands \subseteq {"tasks", "processes", "smp", "foreground", "service"}
  /\ Counts \subseteq 1 .. MAX_TASKS
  /\ Timeouts \subseteq Nat \ {0}
  /\ MaxIrqs \in Nat
  /\ GiveUps \subseteq {"idle", "join"}

VARIABLES
  (* the task table *)
  tstate,     \* TSTATE
  texit,      \* TEXIT
  tcaps,      \* TCAPS
  tpers,      \* TPERS
  tsatp,      \* TSATP: the address space a slot runs in
  tres,       \* TRES: the address space whose frames a slot owns, or Bare
  mbox,       \* MBOX, oldest message first
  deadline,   \* ticks left of a timed receive, NoDeadline when not waiting
  irqWaiting, \* TIRQ_WAITING, as the set of slots whose flag is set
  pend,       \* the ecall a slot's frame re-executes when it is resumed
  fhart,      \* F_HART: the hart stamped into a slot's frame
  (* the harts *)
  current,    \* CURRENT: the slot each hart claims
  pc,         \* where each hart is
  satp,       \* the address space loaded in each hart
  (* the boot hart and the console *)
  sie,        \* sstatus.SIE of the boot hart while it is in kernel mode
  activeMem,  \* the baked stack region user mode may reach
  smpOn,      \* CONSOLE_SMP_ON
  job,        \* the run entry in progress, or the last one
  free,       \* address spaces the frame allocator has to give
  (* the devices *)
  extIrqs,    \* EXT_IRQS
  irqLine,    \* a device asserts its interrupt line
  waking      \* plic_handle() has counted an interrupt, not yet woken anyone

tableVars  == <<tstate, texit, pend>>
capVars    == <<tcaps, tpers>>
spaceVars  == <<tsatp, tres, free>>
waitVars   == <<mbox, deadline, irqWaiting>>
hartVars   == <<current, pc, satp, fhart>>
bootVars   == <<sie, activeMem, smpOn, job>>
deviceVars == <<extIrqs, irqLine, waking>>
vars == <<tableVars, capVars, spaceVars, waitVars, hartVars, bootVars, deviceVars>>

\* A run entry: the next slot it launches, the one after its last, and the first
\* slot it has launched.
Job == [kind : {"none", "tasks", "processes", "smp", "foreground", "service"},
        slot : 0 .. MAX_TASKS, last : 0 .. MAX_TASKS, first : Task \cup {NoTask}]
IdleJob == [kind |-> "none", slot |-> 0, last |-> 0, first |-> NoTask]

Init ==
  /\ tstate = [i \in Task |-> "Unused"]
  /\ texit = [i \in Task |-> 0]
  /\ tcaps = [i \in Task |-> {}]
  /\ tpers = [i \in Task |-> "native"]
  /\ tsatp = [i \in Task |-> Bare]
  /\ tres = [i \in Task |-> Bare]
  /\ mbox = [i \in Task |-> <<>>]
  /\ deadline = [i \in Task |-> NoDeadline]
  /\ irqWaiting = {}
  /\ pend = [i \in Task |-> NoCall]
  /\ fhart = [i \in Task |-> BootHart]
  /\ current = [h \in Hart |-> NoTask]
  /\ pc = [h \in Hart |-> IF h = BootHart THEN "console" ELSE "out"]
  /\ satp = [h \in Hart |-> IF h = BootHart THEN KernelSpace ELSE Bare]
  /\ sie = TRUE
  /\ activeMem = NoTask
  /\ smpOn = FALSE
  /\ job = IdleJob
  /\ free = Space
  /\ extIrqs = 0
  /\ irqLine = FALSE
  /\ waking = FALSE

-----------------------------------------------------------------------------
(* Shared pieces of the handlers. *)

\* Hart h is at p, and not inside plic_handle().
At(h, p) == pc[h] = p /\ ~(h = BootHart /\ waking)

Goto(h, p) == pc' = [pc EXCEPT ![h] = p]

\* The slots of S whose rows own frames: the others keep their capabilities and
\* mailbox in reclaim_task_resources_locked().
Owning(S) == {i \in S : tres[i] # Bare}

\* Defect: the row forgets its frames without freeing them.
ReclaimLeaks(S) ==
  /\ tsatp' = [i \in Task |-> IF i \in S THEN Bare ELSE tsatp[i]]
  /\ tres' = [i \in Task |-> IF i \in S THEN Bare ELSE tres[i]]
  /\ UNCHANGED free

\* reclaim_task_resources_locked() over the slots of S.
ReclaimSpaces(S) ==
  /\ tsatp' = [i \in Task |-> IF i \in S THEN Bare ELSE tsatp[i]]
  /\ tres' = [i \in Task |-> IF i \in S THEN Bare ELSE tres[i]]
  /\ free' = free \cup {tres[i] : i \in Owning(S)}

ReclaimRights(S) ==
  /\ tcaps' = [i \in Task |-> IF i \in Owning(S) THEN {} ELSE tcaps[i]]
  /\ tpers' = [i \in Task |-> IF i \in Owning(S) THEN "native" ELSE tpers[i]]

\* clear_mailbox() over the slots of S; it leaves TIRQ_WAITING alone.
ClearMailboxes(S) ==
  /\ mbox' = [i \in Task |-> IF i \in S THEN <<>> ELSE mbox[i]]
  /\ deadline' = [i \in Task |-> IF i \in S THEN NoDeadline ELSE deadline[i]]
  /\ UNCHANGED irqWaiting

Reclaim(S) == ReclaimSpaces(S) /\ ReclaimRights(S) /\ ClearMailboxes(Owning(S))

\* Defect: a timer interrupt that does not count.
TickLost == UNCHANGED deadline

\* TICKS.fetch_add(1): every armed deadline comes one tick nearer.
Tick == deadline' = [i \in Task |-> IF deadline[i] > 0 THEN deadline[i] - 1
                                                        ELSE deadline[i]]

-----------------------------------------------------------------------------
(* pick_next(): time out receivers, then choose round robin. *)

\* expire_recv_timeouts(): receivers whose deadline has passed, and those of
\* them that have nothing to receive and resume after their ecall.
Expired == {i \in Task : tstate[i] = "Blocked" /\ deadline[i] = 0}
TimedOut == {i \in Expired : mbox[i] = <<>>}

StateNow == [i \in Task |-> IF i \in Expired THEN "Ready" ELSE tstate[i]]

ExpireTimeouts ==
  /\ tstate' = StateNow
  /\ deadline' = [i \in Task |-> IF i \in Expired THEN NoDeadline ELSE deadline[i]]
  /\ pend' = [i \in Task |-> IF i \in TimedOut THEN NoCall ELSE pend[i]]
  /\ UNCHANGED <<texit, mbox, irqWaiting>>

\* Defects: a scheduler that honours no claim, or scans from slot 0 every time.
ClaimIgnored(h, i) == FALSE
DistanceFromZero(h, i) == i

ClaimedElsewhere(h, i) == \E g \in Hart \ {h} : current[g] = i

RunnableHere(h, i) == h = BootHart \/ tsatp[i] # KernelSpace

Eligible(h) ==
  {i \in Task : StateNow[i] = "Ready" /\ ~ClaimedElsewhere(h, i) /\ RunnableHere(h, i)}

\* Steps of the scan that starts after the slot h ran last, or at slot 0.
Distance(h, i) ==
  (i - (IF current[h] = NoTask THEN 0 ELSE current[h] + 1)) % MAX_TASKS

IsNext(h, i) ==
  /\ i \in Eligible(h)
  /\ \A j \in Eligible(h) : Distance(h, i) <= Distance(h, j)

\* Defects: a dispatch that does not stamp the frame, or does not switch the
\* address space.
ClaimUnstamped(h, i) ==
  /\ current' = [current EXCEPT ![h] = i]
  /\ satp' = [satp EXCEPT ![h] = tsatp[i]]
  /\ Goto(h, "user")
  /\ UNCHANGED fhart

ClaimUnswitched(h, i) ==
  /\ current' = [current EXCEPT ![h] = i]
  /\ fhart' = [fhart EXCEPT ![i] = h]
  /\ Goto(h, "user")
  /\ UNCHANGED satp

\* The claim, the stamp and the address space a dispatch installs.
Claim(h, i) ==
  /\ current' = [current EXCEPT ![h] = i]
  /\ fhart' = [fhart EXCEPT ![i] = h]
  /\ satp' = [satp EXCEPT ![h] = tsatp[i]]
  /\ Goto(h, "user")

-----------------------------------------------------------------------------
(* schedule_or_return(). *)

\* Where a trap handler that gives up the hart continues.
Reschedule(h) == IF h = BootHart THEN "sched" ELSE "pick"


\* any_irq_waiting().
AnyIrqWaiting == \E i \in irqWaiting : StateNow[i] = "Blocked"

\* The section that decides to idle, first in schedule_or_return() and then in
\* each round of idle_until_device(): only the boot hart passes here.
IdleTest ==
  /\ At(BootHart, "sched") \/ At(BootHart, "idle")
  /\ ExpireTimeouts
  /\ Goto(BootHart,
          IF Eligible(BootHart) = {} /\ AnyIrqWaiting
          THEN IF pc[BootHart] = "sched" THEN "idle" ELSE "wfi"
          ELSE "pick")
  /\ UNCHANGED <<capVars, spaceVars, current, satp, fhart, bootVars, deviceVars>>

\* wfi returns and plic_handle() finds nothing to claim; perhaps for the last
\* time that IDLE_LIMIT allows.
IdleRound ==
  /\ At(BootHart, "wfi")
  /\ ~irqLine
  /\ \/ Goto(BootHart, "idle")
     \/ "idle" \in GiveUps /\ Goto(BootHart, "pick")
  /\ UNCHANGED <<tableVars, capVars, spaceVars, waitVars, current, satp, fhart,
                 bootVars, deviceVars>>


\* set_active_task_mem() on a dispatch: for baked tasks only.
ExposeStack(i) == activeMem' = IF tsatp[i] = KernelSpace THEN i ELSE activeMem

\* The section that picks: enter the next task ...
Dispatch(h, i) ==
  /\ At(h, "pick")
  /\ IsNext(h, i)
  /\ ExpireTimeouts
  /\ Claim(h, i)
  /\ ExposeStack(i)
  /\ UNCHANGED <<capVars, spaceVars, sie, smpOn, job, deviceVars>>

\* Where the boot hart resumes after restore_kernel_ctx().
AfterRun ==
  CASE job.kind = "tasks" -> "console"
    [] job.kind \in {"processes", "smp"} -> "tail"
    [] OTHER -> "swept"

\* ... or leave the scheduler.  The longjmp restores no sstatus, so the boot
\* hart comes back with the interrupts the trap had masked still masked.
Leave(h) ==
  /\ At(h, "pick")
  /\ Eligible(h) = {}
  /\ ExpireTimeouts
  /\ current' = [current EXCEPT ![h] = NoTask]
  /\ Goto(h, IF h = BootHart THEN AfterRun ELSE "undo")
  /\ sie' = IF h = BootHart THEN FALSE ELSE sie
  /\ UNCHANGED <<capVars, spaceVars, satp, fhart, activeMem, smpOn, job,
                 deviceVars>>

-----------------------------------------------------------------------------
(* Devices and plic_handle(). *)

ConsolePoints ==
  {"console", "opened", "load", "tail", "spawn", "row", "swept", "join"}

DeviceRaise ==
  /\ ~irqLine
  /\ extIrqs < MaxIrqs
  /\ irqLine' = TRUE
  /\ UNCHANGED <<tableVars, capVars, spaceVars, waitVars, hartVars, bootVars, extIrqs,
                 waking>>

\* Claim, acknowledge, complete and count one interrupt: in the console while
\* interrupts are on, in user mode, and by hand in idle_until_device().
PlicCount ==
  /\ irqLine
  /\ ~waking
  /\ \/ pc[BootHart] \in {"user", "wfi"}
     \/ pc[BootHart] \in ConsolePoints /\ sie
  /\ irqLine' = FALSE
  /\ extIrqs' = extIrqs + 1
  /\ waking' = TRUE
  /\ UNCHANGED <<tableVars, capVars, spaceVars, waitVars, hartVars, bootVars>>

\* Defect: the walk clears the flags and wakes nobody.
WokenNone == tstate

Woken == [i \in Task |-> IF i \in irqWaiting /\ tstate[i] = "Blocked"
                         THEN "Ready" ELSE tstate[i]]

\* wake_irq_waiters(), the section that ends plic_handle().
WakeIrqWaiters ==
  /\ waking
  /\ waking' = FALSE
  /\ tstate' = Woken
  /\ irqWaiting' = {}
  /\ pc' = [pc EXCEPT ![BootHart] = IF @ = "wfi" THEN "idle" ELSE @]
  /\ UNCHANGED <<texit, pend, capVars, spaceVars, mbox, deadline, current, satp, fhart,
                 bootVars, extIrqs, irqLine>>

\* The timer in the console, while interrupts are on.
ConsoleTick ==
  /\ pc[BootHart] \in ConsolePoints
  /\ sie
  /\ ~waking
  /\ Tick
  /\ UNCHANGED <<tableVars, capVars, spaceVars, mbox, irqWaiting, hartVars, bootVars,
                 deviceVars>>

-----------------------------------------------------------------------------
(* utrap_handler(): interrupts, faults and system calls of the running task.  *)
(* Calls that end in a refusal or only print change no state and are left out. *)

\* Hart h runs a task that makes this call: for the first time, or again
\* because the call was rewound when the task was parked in it.
Calls(h, name, arg) ==
  /\ At(h, "user")
  /\ tpers[current[h]] = "native"
  /\ \/ pend[current[h]] = [call |-> name, arg |-> arg]
     \/ pend[current[h]] = NoCall /\ name \in Syscalls

\* The timer interrupt preempts the task.
Preempt(h) ==
  /\ At(h, "user")
  /\ Tick
  /\ Goto(h, Reschedule(h))
  /\ UNCHANGED <<tableVars, capVars, spaceVars, mbox, irqWaiting, current, satp, fhart,
                 bootVars, deviceVars>>

\* SYS_YIELD.
Yield(h) ==
  /\ Calls(h, "yield", 0)
  /\ tstate' = [tstate EXCEPT ![current[h]] = "Ready"]
  /\ Goto(h, Reschedule(h))
  /\ UNCHANGED <<texit, pend, capVars, spaceVars, waitVars, current, satp, fhart,
                 bootVars, deviceVars>>

Finish(h, code) ==
  /\ tstate' = [tstate EXCEPT ![current[h]] = "Done"]
  /\ texit' = [texit EXCEPT ![current[h]] = code]
  /\ Goto(h, Reschedule(h))
  /\ UNCHANGED <<pend, capVars, spaceVars, waitVars, current, satp, fhart, bootVars,
                 deviceVars>>

\* SYS_EXIT, and exit and exit_group of the Linux personality.
Exit(h) ==
  /\ At(h, "user")
  /\ "exit" \in Syscalls
  /\ pend[current[h]] = NoCall
  /\ \E code \in ExitCode : Finish(h, code)

\* A page fault kills the task.
Fault(h) ==
  /\ At(h, "user")
  /\ "fault" \in Syscalls
  /\ Finish(h, SYS_DENIED)

\* Defect: a grant that is not attenuated.
GrantedAsAsked(requested, held) == requested

\* ATTENUATION: a sender delegates at most what it holds.
Granted(requested, held) == requested \cap held

\* Defect: a send that does not wake.
WakeNobody(to) == UNCHANGED <<tstate, deadline>>

\* A blocked receiver becomes ready and its timed wait is over.
WakeReceiver(to) ==
  /\ tstate' = [tstate EXCEPT ![to] = "Ready"]
  /\ deadline' = IF tstate[to] = "Blocked"
                 THEN [deadline EXCEPT ![to] = NoDeadline] ELSE deadline

\* SYS_SEND, when it is not refused: enqueue and wake in one section.
Send(h, to, requested) ==
  LET me == current[h] IN
  /\ Calls(h, "send", 0)
  /\ IPC \in tcaps[me]
  /\ tstate[to] \in {"Ready", "Blocked"}
  /\ Len(mbox[to]) < MAILBOX_DEPTH
  /\ mbox' = [mbox EXCEPT ![to] = Append(@,
       [from |-> me, grant |-> Granted(requested, tcaps[me]), sender_caps |-> tcaps[me]])]
  /\ WakeReceiver(to)
  /\ UNCHANGED <<texit, pend, capVars, spaceVars, irqWaiting, hartVars, bootVars,
                 deviceVars>>

\* recv_message_into(), for SYS_RECV and SYS_RECV_TIMEOUT.
Receive(h) ==
  LET me == current[h] IN
  /\ \/ Calls(h, "recv", 0)
     \/ \E n \in Timeouts : Calls(h, "recv_timeout", n)
  /\ IPC \in tcaps[me]
  /\ mbox[me] # <<>>
  /\ tcaps' = [tcaps EXCEPT ![me] = @ \cup Head(mbox[me]).grant]
  /\ mbox' = [mbox EXCEPT ![me] = Tail(@)]
  /\ pend' = [pend EXCEPT ![me] = NoCall]
  /\ UNCHANGED <<tstate, texit, tpers, spaceVars, deadline, irqWaiting, hartVars,
                 bootVars, deviceVars>>

\* A receive that is re-executed by a task which no longer holds IPC is refused.
RecvDenied(h) ==
  LET me == current[h] IN
  /\ At(h, "user")
  /\ tpers[me] = "native"
  /\ pend[me].call \in {"recv", "recv_timeout"}
  /\ IPC \notin tcaps[me]
  /\ pend' = [pend EXCEPT ![me] = NoCall]
  /\ UNCHANGED <<tstate, texit, capVars, spaceVars, waitVars, hartVars, bootVars,
                 deviceVars>>

\* The task parks in a call that is re-executed when it is resumed.
Park(h, name, arg) ==
  /\ tstate' = [tstate EXCEPT ![current[h]] = "Blocked"]
  /\ pend' = [pend EXCEPT ![current[h]] = [call |-> name, arg |-> arg]]
  /\ Goto(h, Reschedule(h))
  /\ UNCHANGED <<texit, capVars, spaceVars, mbox, current, satp, fhart, bootVars,
                 deviceVars>>

\* SYS_RECV on an empty mailbox.
RecvPark(h) ==
  /\ Calls(h, "recv", 0)
  /\ IPC \in tcaps[current[h]]
  /\ mbox[current[h]] = <<>>
  /\ Park(h, "recv", 0)
  /\ UNCHANGED <<deadline, irqWaiting>>

\* SYS_RECV_TIMEOUT on an empty mailbox; a timeout of 0 does not park.
RecvTimeoutPark(h) ==
  \E n \in Timeouts :
    /\ Calls(h, "recv_timeout", n)
    /\ IPC \in tcaps[current[h]]
    /\ mbox[current[h]] = <<>>
    /\ Park(h, "recv_timeout", n)
    /\ deadline' = [deadline EXCEPT ![current[h]] = n]
    /\ UNCHANGED irqWaiting

\* SYS_IRQ_WAIT(prev) parks while no interrupt has been counted since prev.
IrqWaitPark(h) ==
  /\ Calls(h, "irq_wait", extIrqs)
  /\ Park(h, "irq_wait", extIrqs)
  /\ irqWaiting' = irqWaiting \cup {current[h]}
  /\ UNCHANGED deadline

\* ... and returns the count once it has moved.
IrqWaitReturn(h) ==
  LET me == current[h] IN
  /\ At(h, "user")
  /\ pend[me].call = "irq_wait"
  /\ pend[me].arg # extIrqs
  /\ pend' = [pend EXCEPT ![me] = NoCall]
  /\ UNCHANGED <<tstate, texit, capVars, spaceVars, waitVars, hartVars, bootVars,
                 deviceVars>>

-----------------------------------------------------------------------------
(* The run entries of the console, all on the boot hart. *)

Begin(kind, first, count) ==
  job' = [kind |-> kind, slot |-> first, last |-> first + count, first |-> NoTask]

\* The columns a launch writes whichever entry makes it; the zeroed frame names
\* hart 0, taken here as the boot hart.
LaunchRow(i, space) ==
  /\ \E caps \in LaunchCaps, pers \in Personality :
       /\ tcaps' = [tcaps EXCEPT ![i] = caps]
       /\ tpers' = [tpers EXCEPT ![i] = pers]
  /\ tsatp' = [tsatp EXCEPT ![i] = space]
  /\ tres' = [tres EXCEPT ![i] = space]
  /\ free' = free \ {space}
  /\ tstate' = [tstate EXCEPT ![i] = "Ready"]
  /\ pend' = [pend EXCEPT ![i] = NoCall]
  /\ fhart' = [fhart EXCEPT ![i] = BootHart]

\* run_tasks(): clear the table, fill the first rows with baked tasks and claim
\* slot 0 by name, in one section.
RunTasks ==
  /\ At(BootHart, "console")
  /\ "tasks" \in Commands
  /\ \E n \in Counts, caps \in [Task -> LaunchCaps], pers \in [Task -> Personality] :
       /\ Begin("tasks", 0, n)
       /\ tstate' = [i \in Task |-> IF i < n THEN "Ready" ELSE "Unused"]
       /\ tcaps' = [i \in Task |-> IF i < n THEN caps[i]
                                   ELSE IF i \in Owning(Task) THEN {} ELSE tcaps[i]]
       /\ tpers' = [i \in Task |-> IF i < n THEN pers[i]
                                   ELSE IF i \in Owning(Task) THEN "native" ELSE tpers[i]]
       /\ tsatp' = [i \in Task |-> IF i < n THEN KernelSpace ELSE Bare]
       /\ pend' = [i \in Task |-> IF i < n THEN NoCall ELSE pend[i]]
       /\ fhart' = [i \in Task |-> IF i < n THEN BootHart ELSE fhart[i]]
  /\ tres' = [i \in Task |-> Bare]
  /\ free' = free \cup {tres[i] : i \in Owning(Task)}
  /\ ClearMailboxes(Task)
  /\ current' = [current EXCEPT ![BootHart] = 0]
  /\ activeMem' = 0
  /\ Goto(BootHart, "user")
  /\ UNCHANGED <<texit, satp, sie, smpOn, deviceVars>>

\* The SMP console run opens the table to the secondaries before it starts.
OpenConsole ==
  /\ At(BootHart, "console")
  /\ "smp" \in Commands
  /\ smpOn' = TRUE
  /\ Goto(BootHart, "opened")
  /\ UNCHANGED <<tableVars, capVars, spaceVars, waitVars, current, satp, fhart, sie,
                 activeMem, job, deviceVars>>

\* run_processes(): the section that clears the table.
RunProcesses ==
  /\ \/ At(BootHart, "console") /\ "processes" \in Commands
     \/ At(BootHart, "opened")
  /\ \E n \in Counts :
       Begin(IF pc[BootHart] = "opened" THEN "smp" ELSE "processes", 0, n)
  /\ ReclaimSpaces(Task)
  /\ ReclaimRights(Task)
  /\ ClearMailboxes(Task)
  /\ tstate' = [i \in Task |-> "Unused"]
  /\ activeMem' = NoTask
  /\ Goto(BootHart, "load")
  /\ UNCHANGED <<texit, pend, current, satp, fhart, sie, smpOn, deviceVars>>

\* One program: build_address_space() may fail, otherwise its row appears.
LoadRow ==
  /\ At(BootHart, "load")
  /\ job.slot < job.last
  /\ \/ \E s \in free :
          /\ LaunchRow(job.slot, s)
          /\ job' = [job EXCEPT !.slot = @ + 1,
                                !.first = IF @ = NoTask THEN job.slot ELSE @]
     \/ /\ job' = [job EXCEPT !.slot = @ + 1]
        /\ UNCHANGED <<tcaps, tpers, spaceVars, tstate, pend, fhart>>
  /\ UNCHANGED <<texit, waitVars, current, pc, satp, sie, activeMem, smpOn,
                 deviceVars>>

\* Where run_processes() returns to.
AfterProcesses == IF job.kind = "smp" THEN "join" ELSE "console"

\* run_processes() enters the run through pick_next() ...
EnterProcesses ==
  /\ At(BootHart, "load")
  /\ job.slot = job.last
  /\ job.first # NoTask
  /\ ExpireTimeouts
  /\ \/ \E i \in Task : IsNext(BootHart, i) /\ Claim(BootHart, i)
     \/ /\ Eligible(BootHart) = {}
        /\ Goto(BootHart, "tail")
        /\ UNCHANGED <<current, satp, fhart>>
  /\ UNCHANGED <<capVars, spaceVars, bootVars, deviceVars>>

\* ... or returns at once when no program could be loaded.
NothingLaunched ==
  /\ \/ At(BootHart, "load") /\ Goto(BootHart, AfterProcesses)
     \/ At(BootHart, "spawn") /\ Goto(BootHart, "console")
  /\ job.slot = job.last
  /\ job.first = NoTask
  /\ UNCHANGED <<tableVars, capVars, spaceVars, waitVars, current, satp, fhart,
                 bootVars, deviceVars>>

BackToKernel == satp' = [satp EXCEPT ![BootHart] = KernelSpace]

\* Back on the kernel's address space, run_processes() reclaims what is Done.
ReclaimDone ==
  /\ At(BootHart, "tail")
  /\ Reclaim({i \in Task : tstate[i] = "Done"})
  /\ BackToKernel
  /\ Goto(BootHart, AfterProcesses)
  /\ UNCHANGED <<tableVars, current, fhart, bootVars, deviceVars>>

\* join_secondaries(): close the console, then poll until no secondary has a
\* claim or the limit is hit.
CloseConsole ==
  /\ At(BootHart, "join")
  /\ smpOn
  /\ smpOn' = FALSE
  /\ UNCHANGED <<tableVars, capVars, spaceVars, waitVars, hartVars, sie, activeMem,
                 job, deviceVars>>

JoinReturns ==
  /\ At(BootHart, "join")
  /\ ~smpOn
  /\ (\E h \in Hart \ {BootHart} : current[h] # NoTask) => "join" \in GiveUps
  /\ Goto(BootHart, "console")
  /\ UNCHANGED <<tableVars, capVars, spaceVars, waitVars, current, satp, fhart, bootVars,
                 deviceVars>>

\* run_foreground_processes(): clear_foreground_tasks().
ClearForeground ==
  LET S == FIRST_FOREGROUND_TASK .. MAX_TASKS - 1 IN
  /\ At(BootHart, "console")
  /\ "foreground" \in Commands
  /\ \E n \in Counts \cap 1 .. MAX_TASKS - FIRST_FOREGROUND_TASK :
       Begin("foreground", FIRST_FOREGROUND_TASK, n)
  /\ ReclaimSpaces(S)
  /\ tcaps' = [i \in Task |-> IF i \in S THEN {} ELSE tcaps[i]]
  /\ tpers' = [i \in Task |-> IF i \in Owning(S) THEN "native" ELSE tpers[i]]
  /\ ClearMailboxes(S)
  /\ tstate' = [i \in Task |-> IF i \in S THEN "Unused" ELSE tstate[i]]
  /\ texit' = [i \in Task |-> IF i \in S THEN 0 ELSE texit[i]]
  /\ activeMem' = NoTask
  /\ Goto(BootHart, "spawn")
  /\ UNCHANGED <<pend, current, satp, fhart, sie, smpOn, deviceVars>>

\* ensure_virtio_block_service() starts the daemon in slot 0.
StartService ==
  /\ At(BootHart, "console")
  /\ "service" \in Commands
  /\ Begin("service", 0, 1)
  /\ Goto(BootHart, "spawn")
  /\ UNCHANGED <<tableVars, capVars, spaceVars, waitVars, current, satp, fhart, sie,
                 activeMem, smpOn, deviceVars>>

\* spawn_process_at(): the section that reclaims the slot, before the load ...
SpawnReclaim ==
  /\ At(BootHart, "spawn")
  /\ job.slot < job.last
  /\ Reclaim({job.slot})
  /\ Goto(BootHart, "row")
  /\ UNCHANGED <<tableVars, current, satp, fhart, bootVars, deviceVars>>

\* ... and the section that publishes the row, or gives the slot up.
SpawnRow ==
  /\ At(BootHart, "row")
  /\ \/ \E s \in free :
          /\ LaunchRow(job.slot, s)
          /\ texit' = [texit EXCEPT ![job.slot] = 0]
          /\ job' = [job EXCEPT !.slot = @ + 1,
                                !.first = IF @ = NoTask THEN job.slot ELSE @]
     \/ /\ tstate' = [tstate EXCEPT ![job.slot] = "Unused"]
        /\ job' = [job EXCEPT !.slot = @ + 1]
        /\ UNCHANGED <<texit, pend, tcaps, tpers, spaceVars, fhart>>
  /\ ClearMailboxes({job.slot})
  /\ Goto(BootHart, "spawn")
  /\ UNCHANGED <<current, satp, sie, activeMem, smpOn, deviceVars>>

\* run_scheduler_from(): claims the first launched slot by name.
RunSchedulerFrom ==
  /\ At(BootHart, "spawn")
  /\ job.slot = job.last
  /\ job.first # NoTask
  /\ Claim(BootHart, job.first)
  /\ UNCHANGED <<tableVars, capVars, spaceVars, waitVars, bootVars, deviceVars>>

\* The end of run_scheduler_from() and what its callers reclaim:
\* reclaim_finished_foreground_tasks(), refresh_virtio_service_state().
ReclaimFinished ==
  /\ At(BootHart, "swept")
  /\ Reclaim({i \in Task : /\ tstate[i] = "Done"
                           /\ job.kind = "service" <=> i = 0})
  /\ BackToKernel
  /\ Goto(BootHart, "console")
  /\ UNCHANGED <<tableVars, current, fhart, bootVars, deviceVars>>

-----------------------------------------------------------------------------
(* A secondary hart: hart_main() calls secondary_serve() again and again. *)

\* The test of CONSOLE_SMP_ON is outside the lock ...
ServeEnter(h) ==
  /\ h # BootHart
  /\ At(h, "out")
  /\ smpOn
  /\ Goto(h, "serve")
  /\ UNCHANGED <<tableVars, capVars, spaceVars, waitVars, current, satp, fhart,
                 bootVars, deviceVars>>

\* ... and the claim is in the section that follows it.
ServeClaim(h) ==
  /\ h # BootHart
  /\ At(h, "serve")
  /\ ExpireTimeouts
  /\ \/ \E i \in Task : IsNext(h, i) /\ Claim(h, i)
     \/ /\ Eligible(h) = {}
        /\ Goto(h, "out")
        /\ UNCHANGED <<current, satp, fhart>>
  /\ UNCHANGED <<capVars, spaceVars, bootVars, deviceVars>>

\* The claim is dropped; only now does the hart leave the address space.
ServeUndo(h) ==
  /\ h # BootHart
  /\ At(h, "undo")
  /\ satp' = [satp EXCEPT ![h] = Bare]
  /\ Goto(h, "out")
  /\ UNCHANGED <<tableVars, capVars, spaceVars, waitVars, current, fhart, bootVars,
                 deviceVars>>

-----------------------------------------------------------------------------
UserStep(h) ==
  \/ Preempt(h)
  \/ Yield(h)
  \/ Exit(h)
  \/ Fault(h)
  \/ \E to \in Task, requested \in SUBSET Cap : Send(h, to, requested)
  \/ Receive(h)
  \/ RecvDenied(h)
  \/ RecvPark(h)
  \/ RecvTimeoutPark(h)
  \/ IrqWaitPark(h)
  \/ IrqWaitReturn(h)

PickStep(h) == Leave(h) \/ \E i \in Task : Dispatch(h, i)

ServeStep(h) == ServeEnter(h) \/ ServeClaim(h) \/ ServeUndo(h)

\* A run entry once the console has called it.
EntryStep ==
  \/ RunProcesses /\ pc[BootHart] = "opened"
  \/ LoadRow
  \/ EnterProcesses
  \/ NothingLaunched
  \/ ReclaimDone
  \/ CloseConsole
  \/ JoinReturns
  \/ SpawnReclaim
  \/ SpawnRow
  \/ RunSchedulerFrom
  \/ ReclaimFinished

Command ==
  \/ RunTasks
  \/ OpenConsole
  \/ RunProcesses /\ pc[BootHart] = "console"
  \/ ClearForeground
  \/ StartService

Next ==
  \/ \E h \in Hart : UserStep(h) \/ PickStep(h) \/ ServeStep(h)
  \/ IdleTest
  \/ IdleRound
  \/ DeviceRaise
  \/ PlicCount
  \/ WakeIrqWaiters
  \/ ConsoleTick
  \/ EntryStep
  \/ Command

Spec == Init /\ [][Next]_vars

\* A hart in the kernel goes on.  The timer and an asserted line stay pending
\* while the hart is in the kernel and are taken when it is next in user mode,
\* so both are strongly fair.  Tasks and the console owe nothing.
Fairness ==
  /\ \A h \in Hart : SF_vars(Preempt(h)) /\ WF_vars(PickStep(h)) /\ WF_vars(ServeStep(h))
  /\ WF_vars(IdleTest)
  /\ SF_vars(PlicCount)
  /\ WF_vars(WakeIrqWaiters)
  /\ WF_vars(EntryStep)

FairSpec == Spec /\ Fairness

-----------------------------------------------------------------------------
TypeOK ==
  /\ tstate \in [Task -> {"Unused", "Ready", "Blocked", "Done"}]
  /\ texit \in [Task -> ExitCode \cup {0, SYS_DENIED}]
  /\ tcaps \in [Task -> SUBSET Cap]
  /\ tpers \in [Task -> {"native", "linux"}]
  /\ tsatp \in [Task -> Space \cup {KernelSpace, Bare}]
  /\ tres \in [Task -> Space \cup {Bare}]
  /\ mbox \in [Task -> Seq(Message)]
  /\ deadline \in [Task -> Nat \cup {NoDeadline}]
  /\ irqWaiting \in SUBSET Task
  /\ pend \in [Task -> Call]
  /\ fhart \in [Task -> Hart]
  /\ current \in [Hart -> Task \cup {NoTask}]
  /\ pc \in [Hart -> ConsolePoints \cup
                     {"user", "sched", "idle", "wfi", "pick", "out", "serve", "undo"}]
  /\ satp \in [Hart -> Space \cup {KernelSpace, Bare}]
  /\ sie \in BOOLEAN
  /\ activeMem \in Task \cup {NoTask}
  /\ smpOn \in BOOLEAN
  /\ job \in Job
  /\ free \in SUBSET Space
  /\ extIrqs \in Nat
  /\ irqLine \in BOOLEAN
  /\ waking \in BOOLEAN

\* Two harts never claim one task, hence never run one register frame: the
\* purpose of CURRENT and claimed_elsewhere().
ClaimExclusive ==
  \A g, h \in Hart : current[g] = current[h] /\ current[g] # NoTask => g = h

\* A hart in user mode holds the claim of the task it runs and its own id is in
\* that task's frame, so a trap finds its hart and its task again; otherwise
\* utrap_handler() halts the machine or serves another task's call.
TrapFindsItsTask ==
  \A h \in Hart :
    pc[h] = "user" => current[h] # NoTask /\ fhart[current[h]] = h

\* A hart in user mode has the address space of the task it claims loaded.
RunsInItsSpace ==
  \A h \in Hart : pc[h] = "user" => satp[h] = tsatp[current[h]]

\* Every address space is either free or owned by exactly one slot: no launch,
\* failed launch, exit, kill or table clear loses one or frees one twice.
SpacesConserved ==
  /\ \A i, j \in Task : tres[i] = tres[j] /\ tres[i] # Bare => i = j
  /\ \A i \in Task : tres[i] \notin free
  /\ Space = free \cup {tres[i] : i \in Owning(Task)}



\* Only the boot hart ever runs in the kernel's address space (runnable_here).
BakedTasksOnBootHart ==
  \A h \in Hart \ {BootHart} : satp[h] # KernelSpace

\* No task sleeps in a receive while a message waits for it: drain-or-park and
\* enqueue-and-wake are single sections.
NoStrandedMessage ==
  \A i \in Task :
    tstate[i] = "Blocked" /\ pend[i].call \in {"recv", "recv_timeout"} => mbox[i] = <<>>

\* No task sleeps on a device whose interrupt has been counted, unless the wake
\* that follows the count is still to come: the comparison with EXT_IRQS is in
\* the section that parks.
NoLostInterrupt ==
  \A i \in Task :
    tstate[i] = "Blocked" /\ pend[i].call = "irq_wait" =>
      i \in irqWaiting /\ (pend[i].arg = extIrqs \/ waking)

\* The kernel sleeps only while some task is parked on a device.
IdleOnlyForDevice ==
  pc[BootHart] = "wfi" => \E i \in Task : pend[i].call = "irq_wait"


\* The boot hart is inside a run.
InRun == pc[BootHart] \in {"user", "sched", "idle", "wfi", "pick"}

\* Round robin starves nobody: while a run lasts, a ready task gets a hart.
ReadyTaskRuns ==
  \A i \in Task :
    tstate[i] = "Ready" /\ InRun ~>
      \/ tstate[i] # "Ready"
      \/ \E h \in Hart : pc[h] = "user" /\ current[h] = i
      \/ ~InRun

\* While a run lasts, a task parked on a device is out of its wait after the
\* device has asserted its line: counted, woken, dispatched and returned to.
InterruptEndsWait ==
  \A i \in Task :
    tstate[i] = "Blocked" /\ pend[i].call = "irq_wait" /\ irqLine /\ InRun ~>
      tstate[i] # "Blocked" \/ ~InRun

\* While a run lasts and nobody sleeps on a device, a timed receive ends.
TimedReceiveEnds ==
  \A i \in Task :
    tstate[i] = "Blocked" /\ deadline[i] # NoDeadline /\ InRun ~>
      tstate[i] # "Blocked" \/ irqWaiting # {} \/ ~InRun

\* All authority in the table: held by tasks or travelling in messages.
Authority ==
  {k \in Cap : \E i \in Task :
     k \in tcaps[i] \/ \E n \in 1 .. Len(mbox[i]) : k \in mbox[i][n].grant}

\* System calls move authority and never create it: only a launch, which starts
\* or advances the console's job, can add a capability to the table.
NoAmplification ==
  [][job' # job \/ (pc[BootHart] = "console" /\ pc'[BootHart] # "console")
       \/ Authority' \subseteq Authority]_vars
=============================================================================
