-------------------------------- MODULE Smp --------------------------------
(***************************************************************************)
(* The secondary harts of dezh-boot/src/smp.rs, and the demos of           *)
(* demos/smp.rs that drive them from the boot hart's console.              *)
(*                                                                         *)
(* The boot hart opens numbered rounds: every hart drains one queue of     *)
(* jobs, adds to an atomic counter and to a plain one under SMP_LOCK.      *)
(* Between rounds the boot hart hands slots (a U-mode task with page       *)
(* tables of its own) to whichever secondary pops them first.  Every wait  *)
(* of the boot hart is a spin with a limit.                                *)
(*                                                                         *)
(* SMP_LOCK is the lock of module TicketLock, step by step; the locks of   *)
(* the two queues are the same code, so push and pop are one step each.    *)
(***************************************************************************)
EXTENDS TicketLock, RunQueue, Frames

CONSTANTS
  BootHart,       \* the hart that runs the console
  NJOBS,          \* jobs of a round
  AP_SLOTS,       \* task slots
  SMP_WORK,       \* atomic increments of a hart in a round
  SMP_LOCK_WORK,  \* locked increments of a hart in a round
  SpinRunsOut,    \* may a wait of the boot hart reach SMP_SPIN_LIMIT?
  PromptCheckIn,  \* does a hart load SMP_GEN before the next round opens?
  MaxCommands,    \* bound: rounds and demos the console runs
  MaxTicks        \* bound: timer interrupts a task takes

ASSUME SmpAssumption ==
  /\ BootHart \in Hart
  /\ NJOBS \in Nat /\ NJOBS <= RUNQ_CAP
  /\ AP_SLOTS \in Nat \ {0, 1} /\ AP_SLOTS <= RUNQ_CAP

Secondary == Hart \ {BootHart}
Job == 0 .. NJOBS - 1
Slot == 0 .. AP_SLOTS - 1
None == -1
Thread(h) == <<h, "thread">>

VARIABLES
  at,          \* where each hart is in its program
  started,     \* SMP_STARTED: the harts the firmware accepted
  gen,         \* SMP_GEN
  seen,        \* `served` of hart_main: the last generation a hart loaded
  rounds,      \* HART_ROUNDS
  counter,     \* SMP_COUNTER
  guarded,     \* SMP_GUARDED
  left,        \* the work a hart still has to do in its phase
  loaded,      \* what a hart read from SMP_GUARDED; in a task, its satp
  runq,        \* RUNQ
  jobRuns,     \* JOB_RUNS
  jobsDone,    \* JOBS_DONE
  hand,        \* the job or the slot a hart has popped
  report,      \* what the last smp_round() returned
  cmd,         \* the demo the console runs
  prepared,    \* slots the demo has prepared
  slot,        \* AP_SLOT_*
  mem,         \* the frame allocator
  maps,        \* page tables: a root's L1, an L1's one reachable stack
  apq,         \* AP_Q
  apOn,        \* AP_SCHED_ON
  apDone,      \* AP_TASKS_DONE
  ticks,       \* HART_TICKS
  commands,    \* how many commands the console has run
  gaveUp       \* has a spin limit run out?

roundVars == <<gen, seen, rounds, counter, guarded, left, loaded, runq,
               jobRuns, jobsDone, report>>
batchVars == <<cmd, prepared, slot, mem, maps, apq, apOn, apDone, ticks>>
smpVars == <<at, started, roundVars, hand, batchVars, commands, gaveUp>>

Go(h, to) == at' = [at EXCEPT ![h] = to]

EmptySlot == [entry |-> "none", root |-> NoFrame, l1 |-> NoFrame, satp |-> NoFrame,
              runs |-> 0, hart |-> None, exit |-> None, fault |-> FALSE]
Zeroed == <<"zero", 0>>
NoReport == [parts |-> {}, counter |-> 0, guarded |-> 0, jobs |-> 0, once |-> FALSE]

\* The demos: the task each one puts in its slots, and whether it goes on with
\* fewer slots than it asked for when the frames run out.  The task of
\* smp-preempt is a worker whose loop is longer.
SmpTask == [entry |-> <<"worker">>, partial |-> FALSE]
SmpPreempt == [entry |-> <<"worker">>, partial |-> FALSE]
SmpSched == [entry |-> [n \in 1 .. AP_SLOTS |-> "worker"], partial |-> TRUE]
SmpIsolate == [entry |-> <<"worker", "rogue">>, partial |-> FALSE]
NoDemo == [entry |-> <<>>, partial |-> FALSE]
Demo == {SmpTask, SmpPreempt, SmpSched, SmpIsolate}

SmpInit ==
  /\ Init
  /\ at = [h \in Hart |-> IF h = BootHart THEN "bringup" ELSE "off"]
  /\ started \in SUBSET Secondary
  /\ gen = 0
  /\ seen = [h \in Secondary |-> 0]
  /\ rounds = [h \in Secondary |-> 0]
  /\ counter = 0 /\ guarded = 0
  /\ left = [h \in Hart |-> 0]
  /\ loaded = [h \in Hart |-> 0]
  /\ runq = EmptyRing(0)
  /\ jobRuns = [j \in Job |-> 0]
  /\ jobsDone = 0
  /\ hand = [h \in Hart |-> None]
  /\ report = NoReport
  /\ cmd = NoDemo
  /\ prepared = 0
  /\ slot = [s \in Slot |-> EmptySlot]
  /\ mem = FramesInit
  /\ maps = [f \in Frame |-> Zeroed]
  /\ apq = EmptyRing(0)
  /\ apOn = FALSE
  /\ apDone = 0
  /\ ticks = [h \in Secondary |-> 0]
  /\ commands = 0
  /\ gaveUp = FALSE

\* A bounded spin: it ends when its condition holds, or when its limit is
\* reached and the condition does not.
SpinUntil(cond) ==
  \/ cond /\ UNCHANGED gaveUp
  \/ SpinRunsOut /\ ~cond /\ gaveUp' = TRUE

-----------------------------------------------------------------------------
\* hart_main: the hart is counted as online first ...
CheckIn(h) ==
  /\ h \in started /\ at[h] = "off"
  /\ Go(h, "checked_in")
  /\ UNCHANGED <<vars, started, roundVars, hand, batchVars, commands, gaveUp>>

\* ... and loads the generation it will wait to see changed afterwards.
LoadGeneration(h) ==
  /\ at[h] = "checked_in"
  /\ seen' = [seen EXCEPT ![h] = gen]
  /\ Go(h, "idle")
  /\ UNCHANGED <<vars, started, gen, rounds, counter, guarded, left, loaded,
                 runq, jobRuns, jobsDone, report, hand, batchVars, commands, gaveUp>>

\* smp_bringup(): wait for the harts the firmware accepted.
Bringup ==
  /\ at[BootHart] = "bringup"
  /\ SpinUntil(\A h \in started : at[h] # "off")
  /\ Go(BootHart, "console")
  /\ UNCHANGED <<vars, started, roundVars, hand, batchVars, commands>>

\* smp_round(): the resets.
RoundReset ==
  /\ at[BootHart] = "console"
  /\ started # {} /\ commands < MaxCommands
  /\ commands' = commands + 1
  /\ counter' = 0 /\ guarded' = 0 /\ jobsDone' = 0
  /\ jobRuns' = [j \in Job |-> 0]
  /\ left' = [left EXCEPT ![BootHart] = NJOBS]
  /\ report' = NoReport
  /\ Go(BootHart, "fill")
  /\ UNCHANGED <<vars, started, gen, seen, rounds, loaded, runq, hand, batchVars,
                 gaveUp>>

\* smp_round(): one runq_push per job, up to the first refusal.
RoundFill ==
  /\ at[BootHart] = "fill"
  /\ IF left[BootHart] = 0 \/ RingIsFull(runq)
       THEN Go(BootHart, "open") /\ UNCHANGED <<runq, left>>
       ELSE /\ runq' = RingPush(runq, NJOBS - left[BootHart])
            /\ left' = [left EXCEPT ![BootHart] = @ - 1]
            /\ UNCHANGED at
  /\ UNCHANGED <<vars, started, gen, seen, rounds, counter, guarded, loaded,
                 jobRuns, jobsDone, report, hand, batchVars, commands, gaveUp>>

\* smp_round(): SMP_GEN.fetch_add(1) opens the round.
RoundOpen ==
  /\ at[BootHart] = "open"
  /\ PromptCheckIn => \A h \in Secondary : at[h] # "checked_in"
  /\ gen' = gen + 1
  /\ Go(BootHart, "drain")
  /\ UNCHANGED <<vars, started, seen, rounds, counter, guarded, left, loaded,
                 runq, jobRuns, jobsDone, report, hand, batchVars, commands, gaveUp>>

\* Defect: a round that serves whatever the counter says, without waiting for
\* it to change.
JoinAgain(h) ==
  /\ at[h] = "idle" /\ gen > 0
  /\ seen' = [seen EXCEPT ![h] = gen]
  /\ Go(h, "drain")
  /\ UNCHANGED <<vars, started, gen, rounds, counter, guarded, left, loaded,
                 runq, jobRuns, jobsDone, report, hand, batchVars, commands, gaveUp>>

\* hart_main: the generation has changed; load it and serve one round.
Join(h) ==
  /\ at[h] = "idle" /\ gen # seen[h]
  /\ seen' = [seen EXCEPT ![h] = gen]
  /\ Go(h, "drain")
  /\ UNCHANGED <<vars, started, gen, rounds, counter, guarded, left, loaded,
                 runq, jobRuns, jobsDone, report, hand, batchVars, commands, gaveUp>>

\* drain_runq(): pop a job, or go on when there is none.  The boot hart has
\* no share in the atomic counter.
PopJob(h) ==
  /\ at[h] = "drain"
  /\ IF RingIsEmpty(runq)
       THEN /\ Go(h, IF h = BootHart THEN "lock" ELSE "work")
            /\ left' = [left EXCEPT ![h] = IF h = BootHart THEN SMP_LOCK_WORK ELSE SMP_WORK]
            /\ UNCHANGED <<runq, hand>>
       ELSE /\ Go(h, "job")
            /\ hand' = [hand EXCEPT ![h] = RingFront(runq)]
            /\ runq' = RingPop(runq)
            /\ UNCHANGED left
  /\ UNCHANGED <<vars, started, gen, seen, rounds, counter, guarded, loaded,
                 jobRuns, jobsDone, report, batchVars, commands, gaveUp>>

\* drain_runq(): run the job and count it.
RunJob(h) ==
  /\ at[h] = "job"
  /\ jobRuns' = [jobRuns EXCEPT ![hand[h]] = @ + 1]
  /\ jobsDone' = jobsDone + 1
  /\ hand' = [hand EXCEPT ![h] = None]
  /\ Go(h, "drain")
  /\ UNCHANGED <<vars, started, gen, seen, rounds, counter, guarded, left,
                 loaded, runq, report, batchVars, commands, gaveUp>>

\* hart_main: one SMP_COUNTER.fetch_add, or on to the locked work.
AtomicWork(h) ==
  /\ at[h] = "work"
  /\ IF left[h] = 0
       THEN Go(h, "lock") /\ left' = [left EXCEPT ![h] = SMP_LOCK_WORK] /\ UNCHANGED counter
       ELSE counter' = counter + 1 /\ left' = [left EXCEPT ![h] = @ - 1] /\ UNCHANGED at
  /\ UNCHANGED <<vars, started, gen, seen, rounds, guarded, loaded, runq, jobRuns,
                 jobsDone, report, hand, batchVars, commands, gaveUp>>

\* The steps of SMP_LOCK.lock() ...
Lock(h) ==
  /\ at[h] = "lock" /\ left[h] > 0
  /\ IrqOff(Thread(h)) \/ TakeTicket(Thread(h)) \/ Enter(Thread(h))
  /\ UNCHANGED smpVars

\* ... the volatile read ...
GuardRead(h) ==
  /\ at[h] = "lock" /\ pc[Thread(h)] = "critical"
  /\ loaded' = [loaded EXCEPT ![h] = guarded]
  /\ Go(h, "guarded")
  /\ UNCHANGED <<vars, started, gen, seen, rounds, counter, guarded, left, runq,
                 jobRuns, jobsDone, report, hand, batchVars, commands, gaveUp>>

\* ... the volatile write ...
GuardWrite(h) ==
  /\ at[h] = "guarded"
  /\ guarded' = loaded[h] + 1
  /\ loaded' = [loaded EXCEPT ![h] = 0]
  /\ left' = [left EXCEPT ![h] = @ - 1]
  /\ Go(h, "unlock")
  /\ UNCHANGED <<vars, started, gen, seen, rounds, counter, runq, jobRuns,
                 jobsDone, report, hand, batchVars, commands, gaveUp>>

\* ... and the drop of the guard.
Unlock(h) ==
  /\ at[h] = "unlock"
  /\ LoadServing(Thread(h)) \/ StoreServing(Thread(h))
  /\ UNCHANGED smpVars

Unmask(h) ==
  /\ at[h] = "unlock"
  /\ IrqRestore(Thread(h))
  /\ Go(h, "lock")
  /\ UNCHANGED <<started, roundVars, hand, batchVars, commands, gaveUp>>

\* hart_main: the release store that ends a secondary's round.
EndRound(h) ==
  /\ at[h] = "lock" /\ left[h] = 0
  /\ IF h = BootHart
       THEN Go(h, "wait") /\ UNCHANGED rounds
       ELSE Go(h, "idle") /\ rounds' = [rounds EXCEPT ![h] = @ + 1]
  /\ UNCHANGED <<vars, started, gen, seen, counter, guarded, left, loaded, runq,
                 jobRuns, jobsDone, report, hand, batchVars, commands, gaveUp>>

\* smp_round(): wait for the harts, then read the tallies.
RoundClose ==
  /\ at[BootHart] = "wait"
  /\ SpinUntil(Cardinality({h \in Secondary : rounds[h] >= gen}) >= Cardinality(started))
  /\ report' = [parts |-> {h \in Secondary : rounds[h] >= gen},
                counter |-> counter, guarded |-> guarded, jobs |-> jobsDone,
                once |-> \A j \in Job : jobRuns[j] = 1]
  /\ Go(BootHart, "console")
  /\ UNCHANGED <<vars, started, gen, seen, rounds, counter, guarded, left, loaded,
                 runq, jobRuns, jobsDone, hand, batchVars, commands>>

-----------------------------------------------------------------------------
\* A demo starts.  A process spawned before the first one may hold a frame.
StartDemo ==
  /\ at[BootHart] = "console"
  /\ started # {} /\ commands < MaxCommands
  /\ commands' = commands + 1
  /\ cmd' \in Demo
  /\ prepared' = 0
  /\ report' = NoReport
  /\ mem' = mem \/ (commands = 0 /\ mem' = AfterAlloc(mem))
  /\ Go(BootHart, "prepare")
  /\ UNCHANGED <<vars, started, gen, seen, rounds, counter, guarded, left, loaded,
                 runq, jobRuns, jobsDone, hand, slot, maps, apq, apOn, apDone,
                 ticks, gaveUp>>

\* build_ap_slot_space(): two frames, the root pointing at the L1, the L1
\* with the U bit on one stack.  When the second frame is missing the first
\* one is not given back.
Build(s) ==
  LET m1 == AfterAlloc(mem)
      r == FrameAlloc(mem)
      l == FrameAlloc(m1)
  IN  [root |-> r, l1 |-> l, mem |-> AfterAlloc(m1),
       maps |-> [f \in Frame |->
                   CASE f = r -> IF l = NoFrame THEN Zeroed ELSE <<"root", l>>
                     [] f = l -> <<"l1", s>>
                     [] OTHER -> maps[f]]]

\* ap_prepare_slot(): the space, then the slot's row.
Prepare ==
  LET b == Build(prepared)
      ok == b.root # NoFrame /\ b.l1 # NoFrame
  IN  /\ at[BootHart] = "prepare" /\ prepared < Len(cmd.entry)
      /\ mem' = b.mem /\ maps' = b.maps
      /\ IF ok
           THEN /\ slot' = [slot EXCEPT ![prepared] =
                      [entry |-> cmd.entry[prepared + 1], root |-> b.root, l1 |-> b.l1,
                       satp |-> b.root, runs |-> 0, hart |-> None, exit |-> None,
                       fault |-> FALSE]]
                /\ prepared' = prepared + 1
                /\ UNCHANGED <<at, cmd>>
           ELSE /\ UNCHANGED slot
                /\ IF cmd.partial /\ prepared > 0
                     THEN Go(BootHart, "post") /\ UNCHANGED <<cmd, prepared>>
                     ELSE Go(BootHart, "console") /\ cmd' = NoDemo /\ prepared' = 0
      /\ UNCHANGED <<vars, started, roundVars, hand, apq, apOn, apDone, ticks,
                     commands, gaveUp>>

Prepared ==
  /\ at[BootHart] = "prepare" /\ prepared = Len(cmd.entry)
  /\ Go(BootHart, "post")
  /\ UNCHANGED <<vars, started, roundVars, hand, batchVars, commands, gaveUp>>

\* ap_run_batch(): reset the count, push the slots one by one up to the first
\* refusal ...
PostReset ==
  /\ at[BootHart] = "post"
  /\ apDone' = 0
  /\ left' = [left EXCEPT ![BootHart] = prepared]
  /\ Go(BootHart, "push")
  /\ UNCHANGED <<vars, started, gen, seen, rounds, counter, guarded, loaded, runq,
                 jobRuns, jobsDone, report, hand, cmd, prepared, slot, mem, maps, apq,
                 apOn, ticks, commands, gaveUp>>

PushSlot ==
  /\ at[BootHart] = "push"
  /\ left[BootHart] > 0 /\ ~RingIsFull(apq)
  /\ apq' = RingPush(apq, prepared - left[BootHart])
  /\ left' = [left EXCEPT ![BootHart] = @ - 1]
  /\ UNCHANGED <<vars, at, started, gen, seen, rounds, counter, guarded, loaded, runq,
                 jobRuns, jobsDone, report, hand, cmd, prepared, slot, mem, maps, apOn,
                 apDone, ticks, commands, gaveUp>>

\* ... open the window ...
OpenWindow ==
  /\ at[BootHart] = "push"
  /\ left[BootHart] = 0 \/ RingIsFull(apq)
  /\ apOn' = TRUE
  /\ Go(BootHart, "batch")
  /\ UNCHANGED <<vars, started, roundVars, hand, cmd, prepared, slot, mem, maps, apq,
                 apDone, ticks, commands, gaveUp>>

\* Defect: the window closes with one task still out.
CloseWindowEarly ==
  /\ at[BootHart] = "batch"
  /\ SpinUntil(apDone + 1 >= prepared)
  /\ apOn' = FALSE
  /\ Go(BootHart, "collect")
  /\ UNCHANGED <<vars, started, roundVars, hand, cmd, prepared, slot, mem, maps, apq,
                 apDone, ticks, commands>>

\* ... and close it when every slot is done or the limit is reached.
CloseWindow ==
  /\ at[BootHart] = "batch"
  /\ SpinUntil(apDone >= prepared)
  /\ apOn' = FALSE
  /\ Go(BootHart, "collect")
  /\ UNCHANGED <<vars, started, roundVars, hand, cmd, prepared, slot, mem, maps, apq,
                 apDone, ticks, commands>>

\* The demo reads the slots' tallies and gives their frames back,
\* ap_free_slot(), whatever ap_run_batch() returned.
Collect ==
  LET mine == 0 .. prepared - 1
      give[n \in 0 .. AP_SLOTS] ==
        IF n = 0 THEN mem
        ELSE IF n - 1 \in mine
          THEN FrameFree(FrameFree(give[n - 1], slot[n - 1].root), slot[n - 1].l1)
          ELSE give[n - 1]
  IN  /\ at[BootHart] = "collect"
      /\ mem' = give[AP_SLOTS]
      /\ slot' = [s \in Slot |-> IF s \in mine
                    THEN [slot[s] EXCEPT !.root = NoFrame, !.l1 = NoFrame, !.satp = NoFrame]
                    ELSE slot[s]]
      /\ Go(BootHart, "console")
      /\ cmd' = NoDemo /\ prepared' = 0
      /\ UNCHANGED <<vars, started, roundVars, hand, maps, apq, apOn, apDone, ticks,
                     commands, gaveUp>>

\* hart_main: the window is open while the hart waits for a round.
ServeTasks(h) ==
  /\ at[h] = "idle" /\ gen = seen[h] /\ apOn
  /\ Go(h, "sched")
  /\ UNCHANGED <<vars, started, roundVars, hand, batchVars, commands, gaveUp>>

\* ap_schedule(): pop slots until there is none.
PopSlot(h) ==
  /\ at[h] = "sched"
  /\ IF RingIsEmpty(apq)
       THEN Go(h, "idle") /\ UNCHANGED <<apq, hand>>
       ELSE /\ Go(h, "enter")
            /\ hand' = [hand EXCEPT ![h] = RingFront(apq)]
            /\ apq' = RingPop(apq)
  /\ UNCHANGED <<vars, started, roundVars, cmd, prepared, slot, mem, maps, apOn,
                 apDone, ticks, commands, gaveUp>>


\* ap_execute() and ap_run: the context, the tallies, satp, the timer, sret.
Execute(h) ==
  /\ at[h] = "enter"
  /\ slot' = [slot EXCEPT ![hand[h]].runs = @ + 1, ![hand[h]].hart = h]
  /\ loaded' = [loaded EXCEPT ![h] = slot[hand[h]].satp]
  /\ Go(h, "task")
  /\ UNCHANGED <<vars, started, gen, seen, rounds, counter, guarded, left, runq,
                 jobRuns, jobsDone, report, hand, cmd, prepared, mem, maps, apq, apOn,
                 apDone, ticks, commands, gaveUp>>

\* The stacks a running task can reach: the one the L1 below its satp names,
\* and all of them with satp at zero, which is bare mode.
Reaches(h) ==
  IF loaded[h] = NoFrame THEN Slot
  ELSE {s \in Slot : \E l \in Frame :
          maps[loaded[h]] = <<"root", l>> /\ maps[l] = <<"l1", s>>}

\* utrap_ap and ap_trap_handler, a timer interrupt: counted on the hart the
\* slot names, and the task resumes.
Tick(h) ==
  LET on == slot[hand[h]].hart
  IN  /\ at[h] = "task"
      /\ on \in Secondary /\ ticks[on] < MaxTicks
      /\ ticks' = [ticks EXCEPT ![on] = @ + 1]
      /\ UNCHANGED <<vars, at, started, roundVars, hand, cmd, prepared, slot, mem, maps,
                     apq, apOn, apDone, commands, gaveUp>>

\* SYS_EXIT: a worker exits with its slot; the intruder gets here when its
\* write to the stack of slot 0 went through.
TaskExit(h) ==
  /\ at[h] = "task"
  /\ slot[hand[h]].entry = "rogue" => 0 \in Reaches(h)
  /\ slot' = [slot EXCEPT ![hand[h]].exit = IF slot[hand[h]].entry = "rogue" THEN 0 ELSE hand[h]]
  /\ Go(h, "leave")
  /\ UNCHANGED <<vars, started, roundVars, hand, cmd, prepared, mem, maps, apq, apOn,
                 apDone, ticks, commands, gaveUp>>

\* Any other trap ends the task: the intruder's store, or a worker whose own
\* stack is not reachable.
TaskFault(h) ==
  /\ at[h] = "task"
  /\ (IF slot[hand[h]].entry = "rogue" THEN 0 ELSE hand[h]) \notin Reaches(h)
  /\ slot' = [slot EXCEPT ![hand[h]].fault = TRUE]
  /\ Go(h, "leave")
  /\ UNCHANGED <<vars, started, roundVars, hand, cmd, prepared, mem, maps, apq, apOn,
                 apDone, ticks, commands, gaveUp>>

\* ap_return and the rest of ap_execute(): satp back to bare, one more done.
Leave(h) ==
  /\ at[h] = "leave"
  /\ loaded' = [loaded EXCEPT ![h] = 0]
  /\ apDone' = apDone + 1
  /\ hand' = [hand EXCEPT ![h] = None]
  /\ Go(h, "sched")
  /\ UNCHANGED <<vars, started, gen, seen, rounds, counter, guarded, left, runq,
                 jobRuns, jobsDone, report, cmd, prepared, slot, mem, maps, apq, apOn,
                 ticks, commands, gaveUp>>

-----------------------------------------------------------------------------
BootStep ==
  \/ Bringup \/ RoundReset \/ RoundFill \/ RoundOpen \/ RoundClose
  \/ StartDemo \/ Prepare \/ Prepared \/ PostReset \/ PushSlot \/ OpenWindow
  \/ CloseWindow \/ Collect

\* What any hart does in a round.
RoundStep(h) ==
  \/ PopJob(h) \/ RunJob(h) \/ AtomicWork(h) \/ Lock(h) \/ GuardRead(h)
  \/ GuardWrite(h) \/ Unlock(h) \/ Unmask(h) \/ EndRound(h)

HartStep(h) ==
  \/ CheckIn(h) \/ LoadGeneration(h) \/ Join(h) \/ ServeTasks(h) \/ PopSlot(h)
  \/ Execute(h) \/ TaskExit(h) \/ TaskFault(h) \/ Leave(h)

\* The console has run its last command and waits.
Quiet == at[BootHart] = "console" /\ UNCHANGED <<vars, smpVars>>

SmpNext ==
  \/ BootStep \/ Quiet
  \/ \E h \in Hart : RoundStep(h)
  \/ \E h \in Secondary : HartStep(h) \/ Tick(h)

SmpSpec == SmpInit /\ [][SmpNext]_<<vars, smpVars>>

-----------------------------------------------------------------------------
\* The verdicts smp_report_boot() and smp-demo print: COHERENT, MUTEX-OK and
\* QUEUE-OK.
Coherent(r) == r.counter = Cardinality(r.parts) * SMP_WORK
MutexOk(r) == r.guarded = (Cardinality(r.parts) + 1) * SMP_LOCK_WORK
QueueOk(r) == r.jobs = NJOBS /\ r.once

\* A round that every started hart finished in time reports each
\* participant's share of the atomic counter, each participant's and the boot
\* hart's share of the plain one, and every job exactly once: smp_round()
\* leaves nothing of one round for the next to count.
RoundExact ==
  ~gaveUp /\ report # NoReport => Coherent(report) /\ MutexOk(report) /\ QueueOk(report)

\* A batch that ended in time ran each of its slots once, and stopped the
\* intruder and nobody else: the verdicts of smp-sched and smp-isolate.
BatchExact ==
  ~gaveUp /\ at[BootHart] = "collect" =>
    \A s \in 0 .. prepared - 1 :
      /\ slot[s].runs = 1
      /\ slot[s].fault = (slot[s].entry = "rogue")


\* The allocator's count is the length of its list, and no frame is both
\* free and in a slot's tables, or in the tables of two slots: through
\* failed builds and also when a batch is given up.
FramesAccounted ==
  /\ Cardinality(FreeList(mem)) = mem.free
  /\ \A s \in Slot : {slot[s].root, slot[s].l1} \cap FreeList(mem) = {}
  /\ \A s, t \in Slot : s # t /\ slot[s].root # NoFrame =>
       {slot[s].root, slot[s].l1} \cap {slot[t].root, slot[t].l1} = {}

=============================================================================
