-------------------------------- MODULE X86 ---------------------------------
(***************************************************************************)
(* The x86_64 kernel (dezh-boot-x86): one CPU, a timer that preempts,       *)
(* kernel tasks and ring-3 tasks each in an address space of its own, one   *)
(* system-call gate, and the boot sequence whose demos use them.            *)
(*                                                                         *)
(* A context is what isr_ext_common saves: the task it belongs to, its      *)
(* ring, where it is (pc), its interrupt flag and one register.  Handlers   *)
(* run with interrupts off on the only CPU, so a handler is one action.     *)
(*                                                                         *)
(* cpu      the live context, cr3, rsp0 of the TSS, and whether it halted   *)
(* saved    the frame at the top of each task's kernel stack                *)
(* task     TASKS; frame is the stack its frame lies on                     *)
(* run      ENABLED, CURRENT, TURNS, the tasks killed                       *)
(* timer    calibrated (INITIAL # 0), armed, fired (pending in the APIC),   *)
(*          left: ticks until the deadline of the demo that runs            *)
(* demo     the statics of the demos, pages: NEXT of the page pool          *)
(***************************************************************************)
EXTENDS Integers, FiniteSets, TLC

CONSTANTS
  WORKERS,         \* workers of the scheduler demo (3 in the code)
  TARGET_TICKS, RUN_TICKS, MIN_TURNS, MIN_NOTES, BACKSTOP_TICKS,
  POOL_PAGES       \* pages of the pool (64 in the code)

ASSUME X86Assumption ==
  /\ WORKERS \in Nat \ {0}
  /\ {TARGET_TICKS, RUN_TICKS, MIN_TURNS, MIN_NOTES, BACKSTOP_TICKS, POOL_PAGES} \subseteq Nat

VARIABLES cpu, saved, task, run, timer, demo

x86Vars == <<cpu, saved, task, run, timer, demo>>

Boot == 0
Workers == 1..WORKERS
GOOD_TASK == WORKERS + 1
BAD_TASK == WORKERS + 2
WIDE_TASK == WORKERS + 3
NARROW_TASK == WORKERS + 4
MAX_TASKS == WORKERS + 5
Tid == 0..MAX_TASKS - 1

ContextAt(t, ring, pc, if) == [of |-> t, ring |-> ring, pc |-> pc, if |-> if, reg |-> 0]
\* Space t is task t's own, 0 the trampoline's, NoSpace that of a task without one.
NoSpace == -1
NoTask == [state |-> "Idle", frame |-> 0, kstack |-> 0, cr3 |-> NoSpace, caps |-> {}]
NoContext == ContextAt(0, 0, "none", FALSE)

\* Counters that are only compared with a threshold stop one past it.
CountTo(n, limit) == IF n > limit THEN n ELSE n + 1

\* kmain() after the GDT, the IDT and the interrupt controllers are set up, with
\* interrupts off.
X86Init ==
  /\ cpu = [ctx |-> ContextAt(Boot, 0, "timer", FALSE), cr3 |-> 0, rsp0 |-> 0, halted |-> FALSE]
  /\ saved = [t \in Tid |-> NoContext]
  /\ task = [t \in Tid |-> NoTask]
  /\ run = [enabled |-> FALSE, current |-> 0, turns |-> [t \in Workers |-> 0], kills |-> {}]
  /\ timer = [calibrated |-> FALSE, armed |-> FALSE, fired |-> FALSE, left |-> 0]
  /\ demo = [pages |-> 0, done |-> 0, wrong |-> 0, hook |-> "none", good |-> 0, bad |-> 0,
             after |-> 0, status |-> -1, exited |-> FALSE, backstopped |-> FALSE,
             report |-> [t \in {WIDE_TASK, NARROW_TASK} |-> {"none"}], denials |-> 0,
             exits |-> 0, verdict |-> [d \in {"sched", "user", "caps"} |-> "none"]]

-----------------------------------------------------------------------------
(* Traps and the scheduler. *)

\* isr_ext_common on entry: a ring-3 context is pushed on the stack the TSS
\* names, a ring-0 one on the stack it runs on.
Stack == IF cpu.ctx.ring = 3 THEN cpu.rsp0 ELSE cpu.ctx.of
Pushed(ctx) == [saved EXCEPT ![Stack] = ctx]

\* iretq to a context: nothing but the live context changes.
Resumed(ctx) == cpu' = [cpu EXCEPT !.ctx = ctx]

\* Round-robin: the next runnable task after the current one, or the current.
NextTask(tasks) ==
  LET cur == run.current
      after == {s \in 1..MAX_TASKS : tasks[(cur + s) % MAX_TASKS].state = "Runnable"}
  IN  IF after = {} THEN cur
      ELSE (cur + CHOOSE s \in after : \A r \in after : s <= r) % MAX_TASKS

\* reschedule() that does not point the TSS at the incoming task's stack: the
\* mutated form.
SwitchedStaleStack(tasks, next) ==
  [cpu EXCEPT !.ctx = saved'[tasks[next].frame],
              !.cr3 = IF tasks[next].cr3 # NoSpace THEN tasks[next].cr3 ELSE @]

\* The switch of reschedule(): address space, kernel stack, context.
Switched(tasks, next) ==
  LET cr3 == IF tasks[next].cr3 # NoSpace THEN tasks[next].cr3 ELSE cpu.cr3
      rsp0 == IF tasks[next].kstack # 0 THEN tasks[next].kstack ELSE cpu.rsp0
  IN  [cpu EXCEPT !.ctx = saved'[tasks[next].frame], !.cr3 = cr3, !.rsp0 = rsp0]

\* reschedule(): ctx has been pushed; tasks is the table the handler leaves.
Reschedule(ctx, tasks, kills) ==
  LET next == NextTask(tasks)
      table == [tasks EXCEPT ![run.current].frame = Stack]
  IN
  /\ saved' = Pushed(ctx)
  /\ task' = table
  /\ IF next = run.current
     THEN Resumed(ctx) /\ run' = [run EXCEPT !.kills = kills]
     ELSE /\ cpu' = Switched(table, next)
          /\ run' = [run EXCEPT !.current = next, !.kills = kills,
                       !.turns = [t \in Workers |-> IF t = next THEN CountTo(@[t], MIN_TURNS)
                                                    ELSE @[t]]]

\* The APIC's periodic timer: it fires into the APIC whatever the CPU does.
TimerFires ==
  /\ timer.armed /\ ~timer.fired
  /\ timer' = [timer EXCEPT !.fired = TRUE]
  /\ UNCHANGED <<cpu, saved, task, run, demo>>

\* The timer interrupt: timer::on_tick(), then sched::on_tick().
Tick ==
  /\ timer.fired /\ cpu.ctx.if /\ ~cpu.halted
  /\ timer' = [timer EXCEPT !.fired = FALSE, !.left = IF @ > 0 THEN @ - 1 ELSE 0]
  /\ IF run.enabled THEN Reschedule(cpu.ctx, task, run.kills)
     ELSE saved' = Pushed(cpu.ctx) /\ UNCHANGED <<cpu, task, run>>
  /\ UNCHANGED demo

Exited == [task EXCEPT ![run.current].state = "Idle"]

\* on_syscall(): ctx is the caller's context with the answer in place; a caller
\* that has exited is not resumed.
Answered(ctx, tasks) ==
  IF tasks[run.current].state = "Idle" THEN Reschedule(ctx, tasks, run.kills)
  ELSE saved' = Pushed(ctx) /\ task' = tasks /\ Resumed(ctx) /\ UNCHANGED run

\* exception(): a fault at ring 3 costs the task (kill_current()), unless nothing
\* else can run; one in the kernel halts the machine.
Fault ==
  IF cpu.ctx.ring = 3 /\ NextTask(Exited) # run.current
  THEN Reschedule(cpu.ctx, Exited, run.kills \cup {run.current})
  ELSE /\ cpu' = [cpu EXCEPT !.halted = TRUE]
       /\ UNCHANGED <<saved, task, run>>

-----------------------------------------------------------------------------
(* The tasks. *)

On(t, pc) == ~cpu.halted /\ cpu.ctx.of = t /\ cpu.ctx.pc = pc
Goto(pc) == cpu' = [cpu EXCEPT !.ctx.pc = pc]

\* worker(): a round of work through the private page, or the deadline.  The page
\* is mapped in the worker's own space only.
WorkerRound(w) ==
  /\ On(w, "loop")
  /\ IF timer.left = 0 THEN Goto("count") /\ UNCHANGED <<saved, task, run, demo>>
     ELSE IF cpu.cr3 \notin Workers THEN Fault /\ UNCHANGED demo
     ELSE /\ demo' = [demo EXCEPT !.wrong = IF cpu.cr3 = w THEN @ ELSE 1]
          /\ UNCHANGED <<cpu, saved, task, run>>
  /\ UNCHANGED timer

\* DONE is counted, and then finish() makes the task idle with interrupts off.
WorkerCounts(w) ==
  /\ On(w, "count") /\ Goto("finish")
  /\ demo' = [demo EXCEPT !.done = @ + 1]
  /\ UNCHANGED <<saved, task, run, timer>>

WorkerFinishes(w) ==
  /\ On(w, "finish") /\ Goto("spin")
  /\ task' = Exited
  /\ UNCHANGED <<saved, run, timer, demo>>

\* The system calls of the user demo and of the caps demo; unknown numbers are
\* refused.
Refused(pc) == Answered([cpu.ctx EXCEPT !.pc = pc], task) /\ UNCHANGED demo

\* SYS_NOTE answered without waiting for the neighbour's fault: the mutated form.
GoodStopsEarly(n) == n >= MIN_NOTES

\* SYS_NOTE stops the caller once its neighbour has faulted, or at the backstop.
GoodStops(n) ==
  \/ n >= MIN_NOTES /\ run.kills # {}
  \/ timer.left = 0

\* The well-behaved task: user_good_start and SYS_NOTE of the user demo.
GoodNotes ==
  LET n == CountTo(demo.good, MIN_NOTES)
      asked == CountTo(cpu.ctx.reg, MIN_NOTES)
  IN
  /\ On(GOOD_TASK, "note")
  /\ Answered([cpu.ctx EXCEPT !.reg = asked, !.pc = IF GoodStops(n) THEN "exit" ELSE "note"],
              task)
  /\ demo' = [demo EXCEPT !.good = n, !.after = IF run.kills # {} THEN 1 ELSE @,
                          !.backstopped = @ \/ timer.left = 0]
  /\ UNCHANGED timer

GoodExits ==
  /\ On(GOOD_TASK, "exit")
  /\ Answered([cpu.ctx EXCEPT !.pc = "spin"], Exited)
  /\ demo' = [demo EXCEPT !.status = cpu.ctx.reg, !.exited = TRUE]
  /\ UNCHANGED timer

\* The other one: it announces itself, in whichever demo it gets to, and faults.
BadNotes ==
  /\ On(BAD_TASK, "note")
  /\ IF demo.hook = "user"
     THEN /\ Answered([cpu.ctx EXCEPT !.pc = "fault"], task)
          /\ demo' = [demo EXCEPT !.bad = CountTo(@, 1)]
     ELSE Refused("fault")
  /\ UNCHANGED timer

BadFaults == On(BAD_TASK, "fault") /\ Fault /\ UNCHANGED <<timer, demo>>

\* cap_blob_start and the caps demo's system calls: print, read the clock, and
\* report which of the two was allowed.
CapAsks(t, cap, pc) ==
  /\ On(t, cap)
  /\ Answered([cpu.ctx EXCEPT !.pc = pc,
                              !.reg = IF cap \notin task[t].caps THEN @
                                      ELSE @ + (IF cap = "print" THEN 1 ELSE 2)], task)
  /\ demo' = [demo EXCEPT !.denials = IF cap \in task[t].caps THEN @ ELSE CountTo(@, 1)]
  /\ UNCHANGED timer

CapReports(t) ==
  /\ On(t, "exit")
  /\ Answered([cpu.ctx EXCEPT !.pc = "spin"], Exited)
  /\ demo' = [demo EXCEPT !.report[t] = {cpu.ctx.reg}, !.exits = @ + 1]
  /\ UNCHANGED timer

-----------------------------------------------------------------------------
(* The boot task: kmain() and its demos. *)

\* spawn() and spawn_user(): a fresh frame on the task's own kernel stack.
Spawned(tasks, t, space, caps) ==
  [tasks EXCEPT ![t] = [state |-> "Runnable", frame |-> t, kstack |-> t, cr3 |-> space,
                        caps |-> caps]]
Framed(t, ring, pc) == ContextAt(t, ring, pc, TRUE)

\* start(): the boot context becomes task 0, in the space that is loaded.
BootTask == [NoTask EXCEPT !.state = "Runnable", !.cr3 = cpu.cr3]

\* The pages of an address space with n pages mapped in one table: the top level,
\* three tables on the way down, and the pages.
SpacePages(n) == 4 + n

\* demos::timer::run(): the APIC and its calibration may be unavailable.
BootTimer ==
  /\ On(Boot, "timer")
  /\ \/ /\ timer' = [timer EXCEPT !.calibrated = TRUE, !.armed = TRUE, !.left = TARGET_TICKS]
        /\ cpu' = [cpu EXCEPT !.ctx.pc = "timer-wait", !.ctx.if = TRUE]
     \/ Goto("sched") /\ UNCHANGED timer
  /\ UNCHANGED <<saved, task, run, demo>>

\* The timer is masked with interrupts still on; what the APIC has begun to
\* deliver arrives before the boot task goes on with interrupts off.
BootMask ==
  /\ On(Boot, "timer-wait") /\ timer.left = 0
  /\ timer' = [timer EXCEPT !.armed = FALSE]
  /\ Goto("timer-masked")
  /\ UNCHANGED <<saved, task, run, demo>>
BootDrained ==
  /\ On(Boot, "timer-masked") /\ ~timer.fired
  /\ cpu' = [cpu EXCEPT !.ctx.pc = "sched", !.ctx.if = FALSE]
  /\ UNCHANGED <<saved, task, run, timer, demo>>

\* A demo that cannot start: no measured rate (rearm()), or no pages left.
Skip(d, pc, pages) ==
  /\ Goto(pc)
  /\ demo' = [demo EXCEPT !.verdict[d] = "skip", !.pages = pages]
  /\ UNCHANGED <<saved, task, run, timer>>

\* What the three demos do to start: tasks, timer, start(), sti().
Launch(tasks, contexts, ticks, wait) ==
  /\ task' = [tasks EXCEPT ![Boot] = BootTask]
  /\ saved' = [t \in Tid |-> IF t \in DOMAIN contexts THEN contexts[t] ELSE saved[t]]
  /\ timer' = [timer EXCEPT !.armed = TRUE, !.left = ticks]
  /\ run' = [run EXCEPT !.enabled = TRUE, !.current = Boot]
  /\ cpu' = [cpu EXCEPT !.ctx.pc = wait, !.ctx.if = TRUE]

\* demos::sched::run(): a worker for which no page is left has none of its own.
BootSched ==
  LET pages(w) == demo.pages + w * SpacePages(1)
      space(w) == IF pages(w) <= POOL_PAGES THEN w ELSE NoSpace
  IN
  /\ On(Boot, "sched")
  /\ \/ ~timer.calibrated /\ Skip("sched", "user", demo.pages)
     \/ /\ timer.calibrated
        /\ Launch([t \in Tid |-> IF t \in Workers THEN Spawned(task, t, space(t), {})[t]
                                 ELSE task[t]],
                  [w \in Workers |-> Framed(w, 0, "loop")], RUN_TICKS, "sched-wait")
        /\ demo' = [demo EXCEPT !.pages = pages(WORKERS)]

\* demos::user::run() and demos::caps::run(): two ring-3 tasks in spaces of a code
\* page and a stack page.
BootPair(d, t, u, pc, caps, ticks, wait, next) ==
  LET pages == demo.pages + 2 * SpacePages(2) IN
  /\ On(Boot, d)
  /\ \/ (~timer.calibrated \/ pages > POOL_PAGES) /\ Skip(d, next, pages)
     \/ /\ timer.calibrated /\ pages <= POOL_PAGES
        /\ Launch(Spawned(Spawned(task, t, t, caps[t]), u, u, caps[u]),
                  [x \in {t, u} |-> Framed(x, 3, pc)], ticks, wait)
        /\ demo' = [demo EXCEPT !.pages = pages, !.hook = d]

BootUser == BootPair("user", GOOD_TASK, BAD_TASK, "note",
                     [t \in Tid |-> {}], BACKSTOP_TICKS + 1, "user-wait", "caps")

\* The intents of the caps demo: one manifest, two ceilings.
Requested == {"print", "uptime"}
Ceiling == [t \in Tid |-> IF t = WIDE_TASK THEN {"print", "uptime"} ELSE {"uptime"}]
Granted == [t \in Tid |-> Requested \cap Ceiling[t]]
BootCaps == BootPair("caps", WIDE_TASK, NARROW_TASK, "print", Granted, 0,
                     "caps-wait", "breakpoint")

\* The end of a demo: stop(), and then, with interrupts off, what it prints.
BootStop(pc, ended, stopped) ==
  /\ On(Boot, pc) /\ ended
  /\ run' = [run EXCEPT !.enabled = FALSE]
  /\ Goto(stopped)
  /\ UNCHANGED <<saved, task, timer, demo>>
BootReport(pc, d, passed, next) ==
  /\ On(Boot, pc)
  /\ cpu' = [cpu EXCEPT !.ctx.pc = next, !.ctx.if = FALSE]
  /\ timer' = [timer EXCEPT !.armed = FALSE]
  /\ demo' = [demo EXCEPT !.verdict[d] = IF passed THEN "pass" ELSE "fail"]
  /\ UNCHANGED <<saved, task, run>>

SchedPassed == demo.wrong = 0 /\ \A w \in Workers : run.turns[w] >= MIN_TURNS
Contained ==
  /\ demo.good >= MIN_NOTES /\ ~demo.backstopped /\ demo.status = demo.good
  /\ demo.bad = 1 /\ run.kills = {BAD_TASK} /\ demo.after > 0
Behaved == demo.report = (WIDE_TASK :> {3} @@ NARROW_TASK :> {2}) /\ demo.denials = 1

\* int3: a fault in the kernel.
BootBreakpoint == On(Boot, "breakpoint") /\ Fault /\ UNCHANGED <<timer, demo>>

-----------------------------------------------------------------------------

\* A worker that is idle before it has counted itself done: the mutated form.
WorkerStepSwapped(w) ==
  \/ WorkerRound(w)
  \/ /\ On(w, "count") /\ Goto("finish")
     /\ task' = Exited
     /\ UNCHANGED <<saved, run, timer, demo>>
  \/ /\ On(w, "finish") /\ Goto("spin")
     /\ demo' = [demo EXCEPT !.done = @ + 1]
     /\ UNCHANGED <<saved, task, run, timer>>

WorkerStep(w) == WorkerRound(w) \/ WorkerCounts(w) \/ WorkerFinishes(w)
GoodStep == GoodNotes \/ GoodExits
BadStep == BadNotes \/ BadFaults
CapStep(t) == CapAsks(t, "print", "uptime") \/ CapAsks(t, "uptime", "exit") \/ CapReports(t)
BootStep ==
  \/ BootTimer \/ BootMask \/ BootDrained
  \/ BootSched \/ BootUser \/ BootCaps
  \/ BootStop("sched-wait", demo.done >= WORKERS, "sched-stop")
  \/ BootStop("user-wait", demo.exited, "user-stop")
  \/ BootStop("caps-wait", demo.exits >= 2, "caps-stop")
  \/ BootReport("sched-stop", "sched", SchedPassed, "user")
  \/ BootReport("user-stop", "user", Contained, "caps")
  \/ BootReport("caps-stop", "caps", Behaved, "breakpoint")
  \/ BootBreakpoint

X86Next ==
  \/ TimerFires \/ Tick
  \/ \E w \in Workers : WorkerStep(w)
  \/ GoodStep \/ BadStep
  \/ \E t \in {WIDE_TASK, NARROW_TASK} : CapStep(t)
  \/ BootStep

X86Spec == X86Init /\ [][X86Next]_x86Vars

\* The APIC fires and the CPU takes what is pending; a turn is long enough for the
\* task that has it to get on with its program.
X86Fairness ==
  /\ WF_x86Vars(TimerFires) /\ WF_x86Vars(Tick)
  /\ SF_x86Vars(BootStep) /\ SF_x86Vars(GoodStep) /\ SF_x86Vars(BadStep)
  /\ \A w \in Workers : SF_x86Vars(WorkerStep(w))
  /\ \A t \in {WIDE_TASK, NARROW_TASK} : SF_x86Vars(CapStep(t))

-----------------------------------------------------------------------------
(* Properties. *)

\* The CPU runs the context of the task that CURRENT names, in that task's space,
\* and a ring-3 task's interrupts land on that task's own kernel stack, whatever
\* sequence of ticks, calls, exits, faults and demos led there (reschedule(),
\* isr_ext_common).
RunsItsOwnContext ==
  ~cpu.halted =>
    /\ cpu.ctx.of = run.current
    /\ cpu.ctx.of \in {Boot} \cup Workers => cpu.cr3 = cpu.ctx.of
    /\ cpu.ctx.ring = 3 => cpu.cr3 = cpu.ctx.of /\ cpu.rsp0 = cpu.ctx.of

\* A fault costs the task that made it and nothing else, and what the demos print
\* is a pass on every schedule: only the misbehaving task is ever killed, the
\* machine halts at the breakpoint that ends the boot and nowhere before, no worker
\* starves or reads a neighbour's page, the well-behaved task runs on after its
\* neighbour's fault (unless the backstop ended it), and one of two identical
\* programs is refused one call (exception(), kill_current(), the verdicts of the
\* demos).
DemosPass ==
  /\ run.kills \subseteq {BAD_TASK}
  /\ cpu.halted => cpu.ctx.of = Boot /\ cpu.ctx.pc = "breakpoint"
  /\ demo.verdict.sched # "fail" /\ demo.verdict.caps # "fail"
  /\ demo.verdict.user = "fail" => demo.backstopped

\* Once the boot task has got past the timer's set-up, the boot sequence ends,
\* although no task yields and a worker or a faulting task may never run on.
BootCompletes == (cpu.ctx.pc # "timer") ~> cpu.halted

=============================================================================
