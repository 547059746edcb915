----------------------------- MODULE SchedProofs -----------------------------
(***************************************************************************)
(* Safety of Sched for any number of harts, slots, address spaces and      *)
(* messages, whatever the tasks, the devices and the console do.           *)
(***************************************************************************)
EXTENDS SchedTypeProofs

-----------------------------------------------------------------------------
(* ADDRESS SPACES.  A launch hands out an address space only to a slot that   *)
(* owns none: the table clear of run_processes() and the first section of     *)
(* spawn_process_at() have taken back what the slot had.                      *)

SpaceInv ==
  /\ SpacesConserved
  /\ pc[BootHart] = "load" => \A i \in Task : i >= job.slot => tres[i] = Bare
  /\ pc[BootHart] = "row" => tres[job.slot] = Bare

LEMMA ReclaimConserves ==
  ASSUME TypeOK, SpacesConserved, NEW S \in SUBSET Task,
         tres' = [i \in Task |-> IF i \in S THEN Bare ELSE tres[i]],
         free' = free \cup {tres[i] : i \in Owning(S)}
  PROVE  SpacesConserved'
<1>1. \A i, j \in Task : tres'[i] = tres'[j] /\ tres'[i] # Bare => i = j
  BY DEF SpacesConserved
<1>2. ASSUME NEW i \in Task
      PROVE  tres'[i] \notin free'
  <2>1. Bare \notin Space
    BY SchedAssumption
  <2>2. \A x \in free' : x \in Space /\ x # Bare
    BY <2>1 DEF TypeOK, Owning
  <2> QED
    BY <2>1, <2>2 DEF SpacesConserved, Owning
<1>3. Space = free' \cup {tres'[i] : i \in Owning(Task)'}
  <2>1. \A x \in Space : x \in free' \cup {tres'[i] : i \in Owning(Task)'}
    BY DEF SpacesConserved, Owning
  <2>2. /\ \A x \in free' : x \in Space
        /\ \A i \in Owning(Task)' : tres'[i] \in Space
    BY DEF TypeOK, Owning
  <2> QED
    BY <2>1, <2>2
<1> QED
  BY <1>1, <1>2, <1>3 DEF SpacesConserved

LEMMA LaunchConserves ==
  ASSUME TypeOK, SpacesConserved, NEW i \in Task, NEW s \in free, tres[i] = Bare,
         tres' = [tres EXCEPT ![i] = s], free' = free \ {s}
  PROVE  SpacesConserved'
<1>0. s \in Space /\ s # Bare
  BY SchedAssumption DEF TypeOK
<1>1. \A j \in Task : tres[j] # s
  BY DEF SpacesConserved
<1>2. \A j \in Task : tres'[j] = IF j = i THEN s ELSE tres[j]
  BY DEF TypeOK
<1>3. \A x \in Space : x \in free' \cup {tres'[j] : j \in Owning(Task)'}
  BY <1>0, <1>2 DEF SpacesConserved, Owning
<1>4. \A x \in free' \cup {tres'[j] : j \in Owning(Task)'} : x \in Space
  BY <1>0, <1>2 DEF SpacesConserved, Owning, TypeOK
<1> QED
  BY <1>0, <1>1, <1>2, <1>3, <1>4 DEF SpacesConserved

\* Steps that touch no address space and no launch in progress.
LEMMA SpaceKept ==
  ASSUME SpaceInv, UNCHANGED <<tres, free>>,
         pc'[BootHart] \in {"load", "row"} => pc'[BootHart] = pc[BootHart] /\ job' = job
  PROVE  SpaceInv'
BY DEF SpaceInv, SpacesConserved, Owning

LEMMA SpaceStep == TypeOK /\ Places /\ SpaceInv /\ [Next]_vars => SpaceInv'
<1> SUFFICES ASSUME TypeOK, Places, SpaceInv, [Next]_vars
             PROVE  SpaceInv'
  OBVIOUS
<1> USE BootIsHart
    DEF tableVars, capVars, spaceVars, waitVars, hartVars, bootVars, deviceVars
<1>0. pc \in [Hart -> ConsolePoints \cup
                      {"user", "sched", "idle", "wfi", "pick", "out", "serve", "undo"}]
  BY DEF TypeOK
<1>1. ASSUME NEW h \in Hart, UserStep(h)
      PROVE  SpaceInv'
  <2>1. Reschedule(h) \in {"sched", "pick"}
    BY DEF Reschedule
  <2>2. /\ UNCHANGED <<tres, free, job>>
        /\ pc' = pc \/ pc' = [pc EXCEPT ![h] = Reschedule(h)]
    BY <1>1 DEF UserStep, Preempt, Yield, Exit, Fault, Finish, Send, Receive, RecvPark,
                RecvTimeoutPark, IrqWaitPark, IrqWaitReturn, RecvDenied, Park, Goto
  <2> QED
    BY <1>0, <2>1, <2>2, SpaceKept
<1>2. ASSUME NEW h \in Hart, PickStep(h) \/ ServeStep(h)
      PROVE  SpaceInv'
  <2>1. AfterRun \in {"console", "tail", "swept"}
    BY DEF AfterRun
  <2>2. /\ UNCHANGED <<tres, free, job>>
        /\ \E p \in {"user", "undo", "serve", "out", AfterRun} : pc' = [pc EXCEPT ![h] = p]
    BY <1>2 DEF PickStep, ServeStep, Leave, Dispatch, ServeEnter, ServeClaim, ServeUndo,
                Claim, Goto
  <2> QED
    BY <1>0, <2>1, <2>2, SpaceKept
<1>3. CASE IdleTest \/ IdleRound \/ DeviceRaise \/ PlicCount \/ WakeIrqWaiters \/ ConsoleTick
  <2>1. /\ UNCHANGED <<tres, free, job>>
        /\ pc' = pc \/ \E p \in {"idle", "wfi", "pick"} : pc' = [pc EXCEPT ![BootHart] = p]
    <3>1. CASE IdleTest
      BY <3>1 DEF IdleTest, Goto
    <3>2. CASE IdleRound
      BY <3>2 DEF IdleRound, Goto
    <3>3. CASE DeviceRaise \/ PlicCount \/ ConsoleTick
      BY <3>3 DEF DeviceRaise, PlicCount, ConsoleTick
    <3>4. CASE WakeIrqWaiters
      BY <1>0, <3>4 DEF WakeIrqWaiters
    <3> QED
      BY <1>3, <3>1, <3>2, <3>3, <3>4
  <2> QED
    BY <1>0, <2>1, SpaceKept
<1>4. CASE EnterProcesses \/ NothingLaunched \/ CloseConsole \/ JoinReturns \/ RunSchedulerFrom
           \/ OpenConsole \/ StartService
  <2>1. /\ UNCHANGED <<tres, free>>
        /\ \/ pc' = pc /\ job' = job
           \/ \E p \in {"user", "tail", "join", "console", "opened", "spawn"} :
                pc' = [pc EXCEPT ![BootHart] = p]
    BY <1>4 DEF EnterProcesses, NothingLaunched, AfterProcesses, CloseConsole, JoinReturns,
                RunSchedulerFrom, OpenConsole, StartService, Claim, Goto
  <2> QED
    BY <1>0, <2>1, SpaceKept
<1>5. ASSUME RunTasks \/ RunProcesses
      PROVE  SpaceInv'
  <2>1. /\ tres' = [i \in Task |-> Bare]
        /\ free' = free \cup {tres[i] : i \in Owning(Task)}
        /\ pc'[BootHart] # "row"
    BY <1>0, <1>5 DEF RunTasks, RunProcesses, ReclaimSpaces, Goto
  <2>2. tres' = [i \in Task |-> IF i \in Task THEN Bare ELSE tres[i]]
    BY <2>1
  <2>3. SpacesConserved'
    BY <2>1, <2>2, ReclaimConserves DEF SpaceInv
  <2> QED
    BY <2>1, <2>3 DEF SpaceInv
<1>6. CASE ClearForeground
  <2> DEFINE S == FIRST_FOREGROUND_TASK .. MAX_TASKS - 1
  <2>1. S \in SUBSET Task
    BY Slots DEF FIRST_FOREGROUND_TASK
  <2>2. ReclaimSpaces(S) /\ pc'[BootHart] = "spawn"
    BY <1>0, <1>6 DEF ClearForeground, Goto
  <2> HIDE DEF S
  <2>3. SpacesConserved'
    BY <2>1, <2>2, ReclaimConserves DEF SpaceInv, ReclaimSpaces
  <2> QED
    BY <2>2, <2>3 DEF SpaceInv
<1>7. CASE ReclaimDone \/ ReclaimFinished
  <2>1. PICK S \in SUBSET Task : ReclaimSpaces(S)
    <3>1. {i \in Task : tstate[i] = "Done"} \in SUBSET Task
      OBVIOUS
    <3>2. {i \in Task : tstate[i] = "Done" /\ (job.kind = "service" <=> i = 0)} \in SUBSET Task
      OBVIOUS
    <3> QED
      BY <1>7, <3>1, <3>2 DEF ReclaimDone, ReclaimFinished, Reclaim
  <2>2. pc'[BootHart] \in {"join", "console"}
    BY <1>0, <1>7 DEF ReclaimDone, ReclaimFinished, AfterProcesses, Goto
  <2>3. SpacesConserved'
    BY <2>1, ReclaimConserves DEF SpaceInv, ReclaimSpaces
  <2> QED
    BY <2>2, <2>3 DEF SpaceInv
<1>8. CASE SpawnReclaim
  <2>1. job.slot \in Task
    BY <1>8, JobAdvance DEF SpawnReclaim
  <2>2. ReclaimSpaces({job.slot}) /\ job' = job /\ pc'[BootHart] = "row"
    BY <1>0, <1>8 DEF SpawnReclaim, Reclaim, Goto
  <2>3. SpacesConserved'
    BY <2>1, <2>2, ReclaimConserves DEF SpaceInv, ReclaimSpaces
  <2> QED
    BY <2>1, <2>2, <2>3 DEF SpaceInv, ReclaimSpaces
<1>9. CASE SpawnRow
  <2>1. /\ job.slot \in Task
        /\ tres[job.slot] = Bare
        /\ pc'[BootHart] = "spawn"
    BY <1>0, <1>9, JobAdvance DEF SpawnRow, At, Places, SpaceInv, Goto
  <2>2. ASSUME NEW s \in free, LaunchRow(job.slot, s)
        PROVE  SpaceInv'
    <3>1. SpacesConserved'
      BY <2>1, <2>2, LaunchConserves DEF LaunchRow, SpaceInv
    <3> QED
      BY <2>1, <3>1 DEF SpaceInv
  <2>3. CASE UNCHANGED spaceVars
    BY <2>1, <2>3, SpaceKept
  <2> QED
    BY <1>9, <2>2, <2>3 DEF SpawnRow
<1>10. CASE LoadRow
  <2>1. /\ job.slot \in Task
        /\ \A i \in Task : i >= job.slot => tres[i] = Bare
        /\ pc' = pc /\ pc[BootHart] = "load"
        /\ job'.slot = job.slot + 1
    BY <1>10, JobAdvance DEF LoadRow, At, SpaceInv, TypeOK, Job
  <2>2. tres[job.slot] = Bare
    BY <2>1, Slots
  <2>3. ASSUME NEW s \in free, LaunchRow(job.slot, s)
        PROVE  SpaceInv'
    <3>1. SpacesConserved'
      BY <2>1, <2>2, <2>3, LaunchConserves DEF LaunchRow, SpaceInv
    <3>2. \A i \in Task : i >= job'.slot => tres'[i] = Bare
      <4>1. tres' = [tres EXCEPT ![job.slot] = s]
        BY <2>3 DEF LaunchRow
      <4>2. tres \in [Task -> Space \cup {Bare}]
        BY DEF TypeOK
      <4>3. \A i \in Task : i >= job.slot + 1 => i >= job.slot /\ i # job.slot
        BY <2>1, Slots
      <4> QED
        BY <2>1, <4>1, <4>2, <4>3
    <3> QED
      BY <2>1, <3>1, <3>2 DEF SpaceInv
  <2>4. CASE UNCHANGED spaceVars
    <3>1. \A i \in Task : i >= job'.slot => tres'[i] = Bare
      BY <2>1, <2>4, Slots
    <3> QED
      BY <2>1, <2>4, <3>1 DEF SpaceInv, SpacesConserved, Owning
  <2> QED
    BY <1>10, <2>3, <2>4 DEF LoadRow
<1>11. CASE UNCHANGED vars
  BY <1>11, SpaceKept DEF vars
<1> QED
  BY <1>1, <1>2, <1>3, <1>4, <1>5, <1>6, <1>7, <1>8, <1>9, <1>10, <1>11
     DEF Next, EntryStep, Command

\* Whatever is launched, fails to launch, exits, is killed or cleared away, each
\* address space is free or owned by exactly one slot of the task table.
THEOREM SpacesAreConserved == Spec => []SpacesConserved
<1>1. Init => SpaceInv
  BY SchedAssumption, BootIsHart DEF Init, SpaceInv, SpacesConserved, Owning
<1>2. SpaceInv => SpacesConserved
  BY DEF SpaceInv
<1> QED
  BY <1>1, <1>2, SpaceStep, TypeCorrect, PTL DEF Spec

-----------------------------------------------------------------------------
(* CLAIMS.  Every claim made through pick_next() respects the other harts'.   *)
(* run_tasks() and run_scheduler_from() claim a slot by name and do not, so   *)
(* exclusion is proved for consoles that use run_processes() only.            *)

OnlyPicked == Commands \subseteq {"processes", "smp"}

ClaimInv ==
  /\ ClaimExclusive
  /\ pc[BootHart] \notin {"spawn", "row"}

LEMMA ClaimKept ==
  ASSUME ClaimInv, current' = current, pc'[BootHart] \notin {"spawn", "row"}
  PROVE  ClaimInv'
BY DEF ClaimInv, ClaimExclusive

LEMMA PickedClaim ==
  ASSUME TypeOK, ClaimInv, NEW h \in Hart, NEW i \in Task, IsNext(h, i), Claim(h, i)
  PROVE  ClaimInv'
<1>1. \A g \in Hart \ {h} : current[g] # i
  BY DEF IsNext, Eligible, ClaimedElsewhere
<1>2. /\ current' = [current EXCEPT ![h] = i]
      /\ pc' = [pc EXCEPT ![h] = "user"]
  BY DEF Claim, Goto
<1>3. ClaimExclusive'
  BY <1>1, <1>2 DEF ClaimInv, ClaimExclusive, TypeOK
<1> QED
  BY <1>2, <1>3, BootIsHart DEF ClaimInv, TypeOK

LEMMA ClaimStep ==
  ASSUME OnlyPicked
  PROVE  TypeOK /\ ClaimInv /\ [Next]_vars => ClaimInv'
<1> SUFFICES ASSUME TypeOK, ClaimInv, [Next]_vars
             PROVE  ClaimInv'
  OBVIOUS
<1> USE BootIsHart
    DEF tableVars, capVars, spaceVars, waitVars, hartVars, bootVars, deviceVars
<1>0. /\ pc \in [Hart -> ConsolePoints \cup
                         {"user", "sched", "idle", "wfi", "pick", "out", "serve", "undo"}]
      /\ pc[BootHart] \notin {"spawn", "row"}
  BY DEF TypeOK, ClaimInv
<1>1. ASSUME NEW h \in Hart, UserStep(h)
      PROVE  ClaimInv'
  <2>1. Reschedule(h) \in {"sched", "pick"}
    BY DEF Reschedule
  <2>2. /\ current' = current
        /\ pc' = pc \/ pc' = [pc EXCEPT ![h] = Reschedule(h)]
    BY <1>1 DEF UserStep, Preempt, Yield, Exit, Fault, Finish, Send, Receive, RecvPark,
                RecvTimeoutPark, IrqWaitPark, IrqWaitReturn, RecvDenied, Park, Goto
  <2> QED
    BY <1>0, <2>1, <2>2, ClaimKept
<1>2. ASSUME NEW h \in Hart, Leave(h)
      PROVE  ClaimInv'
  <2>1. AfterRun \in {"console", "tail", "swept"}
    BY DEF AfterRun
  <2>2. /\ current' = [current EXCEPT ![h] = NoTask]
        /\ pc' = [pc EXCEPT ![h] = IF h = BootHart THEN AfterRun ELSE "undo"]
    BY <1>2 DEF Leave, Goto
  <2>3. ClaimExclusive'
    BY <2>2 DEF ClaimInv, ClaimExclusive, TypeOK
  <2> QED
    BY <1>0, <2>1, <2>2, <2>3 DEF ClaimInv
<1>3. ASSUME NEW h \in Hart, NEW i \in Task, Dispatch(h, i)
      PROVE  ClaimInv'
  BY <1>3, PickedClaim DEF Dispatch
<1>4. ASSUME NEW h \in Hart, ServeStep(h)
      PROVE  ClaimInv'
  <2>1. ASSUME NEW i \in Task, IsNext(h, i), Claim(h, i)
        PROVE  ClaimInv'
    BY <2>1, PickedClaim
  <2>2. CASE current' = current /\ \E p \in {"serve", "out"} : pc' = [pc EXCEPT ![h] = p]
    BY <1>0, <2>2, ClaimKept
  <2> QED
    BY <1>4, <2>1, <2>2 DEF ServeStep, ServeEnter, ServeClaim, ServeUndo, Goto
<1>5. CASE IdleTest \/ IdleRound \/ DeviceRaise \/ PlicCount \/ WakeIrqWaiters \/ ConsoleTick
  <2>1. /\ current' = current
        /\ pc' = pc \/ \E p \in {"idle", "wfi", "pick"} : pc' = [pc EXCEPT ![BootHart] = p]
    <3>1. CASE IdleTest
      BY <3>1 DEF IdleTest, Goto
    <3>2. CASE IdleRound
      BY <3>2 DEF IdleRound, Goto
    <3>3. CASE DeviceRaise \/ PlicCount \/ ConsoleTick
      BY <3>3 DEF DeviceRaise, PlicCount, ConsoleTick
    <3>4. CASE WakeIrqWaiters
      BY <1>0, <3>4 DEF WakeIrqWaiters
    <3> QED
      BY <1>5, <3>1, <3>2, <3>3, <3>4
  <2> QED
    BY <1>0, <2>1, ClaimKept
<1>6. CASE EnterProcesses
  <2>1. ASSUME NEW i \in Task, IsNext(BootHart, i), Claim(BootHart, i)
        PROVE  ClaimInv'
    BY <2>1, PickedClaim
  <2>2. CASE Goto(BootHart, "tail") /\ UNCHANGED <<current, satp, fhart>>
    BY <1>0, <2>2, ClaimKept DEF Goto
  <2> QED
    BY <1>6, <2>1, <2>2 DEF EnterProcesses
<1>7. CASE LoadRow \/ NothingLaunched \/ ReclaimDone \/ CloseConsole \/ JoinReturns
           \/ ReclaimFinished \/ RunProcesses \/ OpenConsole
  <2>1. /\ current' = current
        /\ pc' = pc \/ \E p \in {"join", "console", "load", "opened"} :
                          pc' = [pc EXCEPT ![BootHart] = p]
    BY <1>7 DEF LoadRow, NothingLaunched, ReclaimDone, CloseConsole, JoinReturns,
                ReclaimFinished, RunProcesses, OpenConsole, AfterProcesses, Goto
  <2> QED
    BY <1>0, <2>1, ClaimKept
<1>8. ~(RunTasks \/ ClearForeground \/ StartService)
  BY OnlyPicked DEF OnlyPicked, RunTasks, ClearForeground, StartService
<1>9. ~(SpawnReclaim \/ SpawnRow \/ RunSchedulerFrom)
  BY <1>0 DEF SpawnReclaim, SpawnRow, RunSchedulerFrom, At
<1>10. CASE UNCHANGED vars
  BY <1>0, <1>10, ClaimKept DEF vars
<1> QED
  BY <1>1, <1>2, <1>3, <1>4, <1>5, <1>6, <1>7, <1>8, <1>9, <1>10
     DEF Next, PickStep, EntryStep, Command

\* No two harts ever run one task, however many secondaries join and leave, when
\* all runs start with run_processes(), the SMP console run included.
THEOREM ClaimsExclude ==
  ASSUME OnlyPicked
  PROVE  Spec => []ClaimExclusive
<1>1. Init => ClaimInv
  BY BootIsHart DEF Init, ClaimInv, ClaimExclusive
<1>2. ClaimInv => ClaimExclusive
  BY DEF ClaimInv
<1>3. TypeOK /\ ClaimInv /\ [Next]_vars => ClaimInv'
  BY ClaimStep
<1> QED
  BY <1>1, <1>2, <1>3, TypeCorrect, PTL DEF Spec

-----------------------------------------------------------------------------
(* WAITS.  A task that sleeps has something to wait for.                      *)

WaitInv == NoStrandedMessage /\ NoLostInterrupt

\* Steps after which every sleeper was asleep before, in the same call, with the
\* same mailbox or an emptied one, and with its device flag.
LEMMA WaitKept ==
  ASSUME WaitInv,
         \A i \in Task : tstate'[i] = "Blocked" =>
           \/ pend'[i] = NoCall
           \/ /\ tstate[i] = "Blocked" /\ pend'[i] = pend[i]
              /\ mbox'[i] \in {mbox[i], <<>>},
         irqWaiting' = irqWaiting,
         waking' \/ (extIrqs' = extIrqs /\ (waking => waking'))
  PROVE  WaitInv'
<1>1. NoCall.call = "none"
  BY DEF NoCall
<1>2. NoStrandedMessage'
  BY <1>1 DEF WaitInv, NoStrandedMessage
<1>3. NoLostInterrupt'
  BY <1>1 DEF WaitInv, NoLostInterrupt
<1> QED
  BY <1>2, <1>3 DEF WaitInv

LEMMA WaitUserStep ==
  ASSUME TypeOK, Places, WaitInv, NEW h \in Hart, UserStep(h)
  PROVE  WaitInv'
<1> DEFINE me == current[h]
<1> USE DEF tableVars, capVars, spaceVars, waitVars, hartVars, bootVars, deviceVars
<1>0. me \in Task
  BY DEF Places, UserStep, Preempt, Yield, Exit, Fault, Send, Receive, RecvPark,
         RecvTimeoutPark, IrqWaitPark, IrqWaitReturn, RecvDenied, Calls, At
<1>1. /\ tstate \in [Task -> {"Unused", "Ready", "Blocked", "Done"}]
      /\ pend \in [Task -> Call]
      /\ mbox \in [Task -> Seq(Message)]
  BY DEF TypeOK
<1>2. CASE Preempt(h)
  BY <1>2, WaitKept DEF Preempt
<1>3. CASE Yield(h)
  BY <1>0, <1>1, <1>3, WaitKept DEF Yield
<1>4. ASSUME NEW code, Finish(h, code)
      PROVE  WaitInv'
  BY <1>0, <1>1, <1>4, WaitKept DEF Finish
<1>5. ASSUME NEW to \in Task, NEW requested \in SUBSET Cap, Send(h, to, requested)
      PROVE  WaitInv'
  <2>1. /\ tstate' = [tstate EXCEPT ![to] = "Ready"]
        /\ \A i \in Task \ {to} : mbox'[i] = mbox[i]
        /\ UNCHANGED <<pend, irqWaiting, extIrqs, waking>>
    BY <1>1, <1>5 DEF Send, WakeReceiver
  <2> QED
    BY <1>1, <2>1, WaitKept
<1>6. CASE Receive(h)
  <2>1. /\ \A i \in Task \ {me} : mbox'[i] = mbox[i] /\ pend'[i] = pend[i]
        /\ pend'[me] = NoCall
        /\ UNCHANGED <<tstate, irqWaiting, extIrqs, waking>>
    BY <1>0, <1>1, <1>6 DEF Receive
  <2> QED
    BY <1>1, <2>1, WaitKept
<1>7. CASE RecvPark(h) \/ RecvTimeoutPark(h)
  <2>1. PICK name \in {"recv", "recv_timeout"}, arg \in Timeouts \cup {0} :
          /\ mbox[me] = <<>>
          /\ Park(h, name, arg)
          /\ irqWaiting' = irqWaiting
    BY <1>7 DEF RecvPark, RecvTimeoutPark
  <2>2. /\ pend'[me].call \in {"recv", "recv_timeout"} /\ mbox'[me] = <<>>
        /\ \A i \in Task \ {me} : tstate'[i] = tstate[i] /\ pend'[i] = pend[i]
        /\ UNCHANGED <<mbox, irqWaiting, extIrqs, waking>>
    BY <1>0, <1>1, <2>1 DEF Park
  <2>3. NoStrandedMessage'
    BY <2>2 DEF WaitInv, NoStrandedMessage
  <2>4. NoLostInterrupt'
    BY <2>2 DEF WaitInv, NoLostInterrupt
  <2> QED
    BY <2>3, <2>4 DEF WaitInv
<1>8. CASE IrqWaitPark(h)
  <2>1. /\ pend'[me] = [call |-> "irq_wait", arg |-> extIrqs]
        /\ \A i \in Task \ {me} : tstate'[i] = tstate[i] /\ pend'[i] = pend[i]
        /\ UNCHANGED <<mbox, extIrqs, waking>>
        /\ irqWaiting' = irqWaiting \cup {me}
    BY <1>0, <1>1, <1>8 DEF IrqWaitPark, Park
  <2>2. NoStrandedMessage'
    <3>1. pend'[me].call = "irq_wait"
      BY <2>1
    <3>2. \A i \in Task : pend'[i].call \in {"recv", "recv_timeout"} => i # me
      BY <3>1
    <3> QED
      BY <2>1, <3>2 DEF WaitInv, NoStrandedMessage
  <2>3. NoLostInterrupt'
    BY <2>1 DEF WaitInv, NoLostInterrupt
  <2> QED
    BY <2>2, <2>3 DEF WaitInv
<1>9. CASE IrqWaitReturn(h) \/ RecvDenied(h)
  <2>1. /\ pend' = [pend EXCEPT ![me] = NoCall]
        /\ UNCHANGED <<tstate, mbox, irqWaiting, extIrqs, waking>>
    BY <1>9 DEF IrqWaitReturn, RecvDenied
  <2> QED
    BY <1>0, <1>1, <2>1, WaitKept
<1> QED
  BY <1>2, <1>3, <1>4, <1>5, <1>6, <1>7, <1>8, <1>9 DEF UserStep, Exit, Fault

LEMMA WaitStep == TypeOK /\ Places /\ WaitInv /\ [Next]_vars => WaitInv'
<1> SUFFICES ASSUME TypeOK, Places, WaitInv, [Next]_vars
             PROVE  WaitInv'
  OBVIOUS
<1> USE DEF tableVars, capVars, spaceVars, waitVars, hartVars, bootVars, deviceVars
<1>0. /\ tstate \in [Task -> {"Unused", "Ready", "Blocked", "Done"}]
      /\ pend \in [Task -> Call]
      /\ mbox \in [Task -> Seq(Message)]
  BY DEF TypeOK
<1>1. ASSUME ExpireTimeouts, UNCHANGED deviceVars
      PROVE  WaitInv'
  <2>1. \A i \in Task : tstate'[i] = "Blocked" =>
          tstate[i] = "Blocked" /\ pend'[i] = pend[i] /\ mbox'[i] = mbox[i]
    BY <1>0, <1>1 DEF ExpireTimeouts, StateNow, TimedOut
  <2> QED
    BY <1>1, <2>1, WaitKept DEF ExpireTimeouts
<1>2. ASSUME NEW h \in Hart, PickStep(h) \/ ServeStep(h)
      PROVE  WaitInv'
  <2>1. CASE ServeEnter(h) \/ ServeUndo(h)
    <3>1. UNCHANGED <<tableVars, mbox, irqWaiting, extIrqs, waking>>
      BY <2>1 DEF ServeEnter, ServeUndo
    <3> QED
      BY <3>1, WaitKept
  <2>2. CASE PickStep(h) \/ ServeClaim(h)
    BY <1>1, <2>2 DEF PickStep, Leave, Dispatch, ServeClaim
  <2> QED
    BY <1>2, <2>1, <2>2 DEF ServeStep
<1>3. CASE IdleTest \/ EnterProcesses
  BY <1>1, <1>3 DEF IdleTest, EnterProcesses
<1>4. CASE IdleRound \/ DeviceRaise \/ ConsoleTick
  <2>1. UNCHANGED <<tableVars, mbox, irqWaiting, extIrqs, waking>>
    BY <1>4 DEF IdleRound, DeviceRaise, ConsoleTick
  <2> QED
    BY <2>1, WaitKept
<1>5. CASE PlicCount
  <2>1. waking' /\ UNCHANGED <<tableVars, mbox, irqWaiting>>
    BY <1>5 DEF PlicCount
  <2> QED
    BY <2>1, WaitKept
<1>6. CASE WakeIrqWaiters
  <2>1. /\ tstate' = Woken
        /\ UNCHANGED <<pend, mbox>>
    BY <1>6 DEF WakeIrqWaiters
  <2>2. \A i \in Task : tstate'[i] = "Blocked" => tstate[i] = "Blocked" /\ i \notin irqWaiting
    BY <1>0, <2>1 DEF Woken
  <2>3. NoStrandedMessage'
    BY <2>1, <2>2 DEF WaitInv, NoStrandedMessage
  <2>4. NoLostInterrupt'
    BY <2>1, <2>2 DEF WaitInv, NoLostInterrupt
  <2> QED
    BY <2>3, <2>4 DEF WaitInv
<1>7. CASE NothingLaunched \/ CloseConsole \/ JoinReturns \/ RunSchedulerFrom \/ OpenConsole
           \/ StartService
  <2>1. UNCHANGED <<tableVars, mbox, irqWaiting, extIrqs, waking>>
    BY <1>7 DEF NothingLaunched, CloseConsole, JoinReturns, RunSchedulerFrom, OpenConsole,
                StartService
  <2> QED
    BY <2>1, WaitKept
<1>8. CASE ReclaimDone \/ ReclaimFinished \/ SpawnReclaim
  <2>1. /\ UNCHANGED <<tableVars, irqWaiting, extIrqs, waking>>
        /\ \A i \in Task : mbox'[i] \in {mbox[i], <<>>}
    BY <1>0, <1>8 DEF ReclaimDone, ReclaimFinished, SpawnReclaim, Reclaim, ClearMailboxes
  <2> QED
    BY <2>1, WaitKept
<1>9. CASE LoadRow
  <2>1. job.slot \in Task
    BY <1>9, JobAdvance DEF LoadRow
  <2>2. /\ UNCHANGED <<mbox, irqWaiting, extIrqs, waking>>
        /\ \A i \in Task : tstate'[i] = "Blocked" => tstate[i] = "Blocked" /\ pend'[i] = pend[i]
    BY <1>0, <1>9, <2>1 DEF LoadRow, LaunchRow
  <2> QED
    BY <2>2, WaitKept
<1>10. CASE SpawnRow
  <2>1. job.slot \in Task
    BY <1>10, JobAdvance DEF SpawnRow, At, Places
  <2>2. /\ UNCHANGED <<irqWaiting, extIrqs, waking>>
        /\ \A i \in Task : mbox'[i] \in {mbox[i], <<>>}
        /\ \A i \in Task : tstate'[i] = "Blocked" => tstate[i] = "Blocked" /\ pend'[i] = pend[i]
    BY <1>0, <1>10, <2>1 DEF SpawnRow, LaunchRow, ClearMailboxes
  <2> QED
    BY <2>2, WaitKept
<1>11. CASE RunTasks \/ RunProcesses
  <2>1. /\ \A i \in Task : tstate'[i] # "Blocked"
        /\ UNCHANGED <<irqWaiting, extIrqs, waking>>
    BY <1>11 DEF RunTasks, RunProcesses, ClearMailboxes
  <2> QED
    BY <2>1, WaitKept
<1>12. CASE ClearForeground
  <2>1. /\ \A i \in Task : tstate'[i] = "Blocked" => tstate[i] = "Blocked"
        /\ \A i \in Task : mbox'[i] \in {mbox[i], <<>>}
        /\ UNCHANGED <<pend, irqWaiting, extIrqs, waking>>
    BY <1>0, <1>12 DEF ClearForeground, ClearMailboxes
  <2> QED
    BY <2>1, WaitKept
<1>13. CASE UNCHANGED vars
  BY <1>13, WaitKept DEF vars
<1> QED
  BY <1>2, <1>3, <1>4, <1>5, <1>6, <1>7, <1>8, <1>9, <1>10, <1>11, <1>12, <1>13,
     WaitUserStep DEF Next, EntryStep, Command

LEMMA WaitInvariant == Spec => []WaitInv
<1>1. Init => WaitInv
  BY DEF Init, WaitInv, NoStrandedMessage, NoLostInterrupt
<1> QED
  BY <1>1, WaitStep, TypeCorrect, PTL DEF Spec

\* No task ever sleeps in a receive with a message in its mailbox: SYS_SEND
\* enqueues and wakes, and SYS_RECV looks and parks, in one section each.
THEOREM NoMessageIsStranded == Spec => []NoStrandedMessage
<1>1. WaitInv => NoStrandedMessage
  BY DEF WaitInv
<1> QED
  BY <1>1, WaitInvariant, PTL

\* No task ever sleeps on a device interrupt that has been counted and whose wake
\* has been done: SYS_IRQ_WAIT compares and parks in one section.
THEOREM NoInterruptIsLost == Spec => []NoLostInterrupt
<1>1. WaitInv => NoLostInterrupt
  BY DEF WaitInv
<1> QED
  BY <1>1, WaitInvariant, PTL

-----------------------------------------------------------------------------
(* THE KERNEL'S ADDRESS SPACE stays with the boot hart.                       *)

\* No secondary ever has the kernel's address space loaded, so none can run a
\* baked task: runnable_here() filters every claim a secondary makes.
THEOREM SecondariesRunProcesses == Spec => []BakedTasksOnBootHart
<1>1. Init => BakedTasksOnBootHart
  BY SchedAssumption DEF Init, BakedTasksOnBootHart
<1>2. TypeOK /\ BakedTasksOnBootHart /\ [Next]_vars => BakedTasksOnBootHart'
  <2> SUFFICES ASSUME TypeOK, BakedTasksOnBootHart, [Next]_vars, NEW g \in Hart \ {BootHart}
               PROVE  satp'[g] # KernelSpace
    BY DEF BakedTasksOnBootHart
  <2> USE DEF tableVars, capVars, spaceVars, waitVars, hartVars, bootVars, deviceVars
  <2>0. satp \in [Hart -> Space \cup {KernelSpace, Bare}] /\ satp[g] # KernelSpace
    BY DEF TypeOK, BakedTasksOnBootHart
  <2>1. ASSUME NEW h \in Hart, NEW i \in Task, IsNext(h, i), Claim(h, i)
        PROVE  satp'[g] # KernelSpace
    BY <2>0, <2>1 DEF IsNext, Eligible, RunnableHere, Claim
  <2>2. ASSUME NEW i, Claim(BootHart, i)
        PROVE  satp'[g] # KernelSpace
    BY <2>0, <2>2 DEF Claim
  <2>3. CASE BackToKernel \/ satp' = satp
    BY <2>0, <2>3 DEF BackToKernel
  <2>4. ASSUME NEW h \in Hart, UserStep(h)
        PROVE  satp' = satp
    BY <2>4 DEF UserStep, Preempt, Yield, Exit, Fault, Finish, Send, Receive, RecvPark,
                RecvTimeoutPark, IrqWaitPark, IrqWaitReturn, RecvDenied, Park
  <2>5. ASSUME NEW h \in Hart, PickStep(h)
        PROVE  satp'[g] # KernelSpace
    BY <2>1, <2>3, <2>5 DEF PickStep, Leave, Dispatch
  <2>6. ASSUME NEW h \in Hart, ServeStep(h)
        PROVE  satp'[g] # KernelSpace
    <3>1. CASE ServeUndo(h)
      BY <2>0, <3>1, SchedAssumption DEF ServeUndo
    <3> QED
      BY <2>1, <2>3, <2>6, <3>1 DEF ServeStep, ServeEnter, ServeClaim
  <2>7. CASE IdleTest \/ IdleRound \/ DeviceRaise \/ PlicCount \/ WakeIrqWaiters \/ ConsoleTick
    BY <2>3, <2>7 DEF IdleTest, IdleRound, DeviceRaise, PlicCount, WakeIrqWaiters, ConsoleTick
  <2>8. CASE EnterProcesses \/ RunSchedulerFrom
    BY <2>2, <2>3, <2>8 DEF EnterProcesses, RunSchedulerFrom
  <2>9. CASE LoadRow \/ NothingLaunched \/ ReclaimDone \/ CloseConsole \/ JoinReturns
             \/ SpawnReclaim \/ SpawnRow \/ ReclaimFinished
    BY <2>3, <2>9 DEF LoadRow, NothingLaunched, ReclaimDone, CloseConsole, JoinReturns,
                      SpawnReclaim, SpawnRow, ReclaimFinished
  <2>10. CASE Command \/ RunProcesses
    BY <2>3, <2>10 DEF Command, RunTasks, OpenConsole, RunProcesses, ClearForeground,
                       StartService
  <2>11. CASE UNCHANGED vars
    BY <2>3, <2>11 DEF vars
  <2> QED
    BY <2>3, <2>4, <2>5, <2>6, <2>7, <2>8, <2>9, <2>10, <2>11 DEF Next, EntryStep
<1> QED
  BY <1>1, <1>2, TypeCorrect, PTL DEF Spec

-----------------------------------------------------------------------------
(* AUTHORITY.  System calls move capabilities between tasks and messages.     *)

\* Steps that empty mailboxes and take capabilities away.
LEMMA AuthorityKept ==
  ASSUME \A i \in Task : tcaps'[i] \subseteq tcaps[i] /\ mbox'[i] \in {mbox[i], <<>>}
  PROVE  Authority' \subseteq Authority
BY DEF Authority

LEMMA Appended ==
  ASSUME NEW S, NEW q \in Seq(S), NEW e
  PROVE  /\ Len(q) \in Nat
         /\ Len(Append(q, e)) = Len(q) + 1
         /\ \A k \in 1 .. Len(q) + 1 : Append(q, e)[k] = IF k <= Len(q) THEN q[k] ELSE e
OBVIOUS

LEMMA SendKeepsAuthority ==
  ASSUME TypeOK, Places, NEW h \in Hart, NEW to \in Task, NEW requested \in SUBSET Cap,
         Send(h, to, requested)
  PROVE  Authority' \subseteq Authority
<1> DEFINE me == current[h]
           g == Granted(requested, tcaps[me])
           m == [from |-> me, grant |-> g, sender_caps |-> tcaps[me]]
<1>1. me \in Task
  BY DEF Places, Send, Calls, At
<1>2. g \subseteq tcaps[me]
  BY DEF Granted
<1>3. m.grant = g
  OBVIOUS
<1>4. mbox' = [mbox EXCEPT ![to] = Append(mbox[to], m)] /\ tcaps' = tcaps
  BY DEF Send, capVars
<1> HIDE DEF g, m
<1>5. mbox \in [Task -> Seq(Message)]
  BY DEF TypeOK
<1>6. ASSUME NEW i \in Task, NEW n \in 1 .. Len(mbox'[i])
      PROVE  (n \in 1 .. Len(mbox[i]) /\ mbox'[i][n] = mbox[i][n]) \/ mbox'[i][n] = m
  <2>1. CASE i # to
    BY <1>4, <1>5, <2>1
  <2>2. CASE i = to
    <3>1. mbox[to] \in Seq(Message) /\ mbox'[to] = Append(mbox[to], m)
      BY <1>4, <1>5
    <3>2. Len(mbox'[to]) = Len(mbox[to]) + 1 /\ Len(mbox[to]) \in Nat
      BY <3>1, Appended, Zenon
    <3>3. \A k \in 1 .. Len(mbox[to]) + 1 :
            Append(mbox[to], m)[k] = IF k <= Len(mbox[to]) THEN mbox[to][k] ELSE m
      BY <3>1, Appended, Zenon
    <3>4. n \in 1 .. Len(mbox[to]) + 1
      BY <2>2, <3>2
    <3>5. mbox'[i][n] = IF n <= Len(mbox[to]) THEN mbox[to][n] ELSE m
      BY <2>2, <3>1, <3>3, <3>4
    <3>6. n <= Len(mbox[to]) => n \in 1 .. Len(mbox[to])
      BY <3>2, <3>4
    <3> QED
      BY <2>2, <3>5, <3>6
  <2> QED
    BY <2>1, <2>2
<1> QED
  BY ZenonT(60), <1>1, <1>2, <1>3, <1>4, <1>6 DEF Authority

LEMMA ReceiveKeepsAuthority ==
  ASSUME TypeOK, Places, NEW h \in Hart, Receive(h)
  PROVE  Authority' \subseteq Authority
<1> DEFINE me == current[h]
<1>1. me \in Task /\ mbox[me] # <<>>
  BY DEF Places, Receive, Calls, At
<1>2. mbox[me] \in Seq(Message) /\ mbox \in [Task -> Seq(Message)]
      /\ tcaps \in [Task -> SUBSET Cap]
  BY <1>1 DEF TypeOK
<1>3. /\ tcaps' = [tcaps EXCEPT ![me] = @ \cup Head(mbox[me]).grant]
      /\ mbox' = [mbox EXCEPT ![me] = Tail(@)]
  BY DEF Receive
<1>4. /\ Len(mbox[me]) \in Nat /\ 1 \in 1 .. Len(mbox[me])
      /\ Head(mbox[me]) = mbox[me][1]
      /\ Len(Tail(mbox[me])) = Len(mbox[me]) - 1
      /\ \A n \in 1 .. Len(Tail(mbox[me])) : Tail(mbox[me])[n] = mbox[me][n + 1]
  BY <1>1, <1>2
<1>5. \A i \in Task : tcaps'[i] \subseteq tcaps[i] \/ (i = me /\ tcaps'[i] = tcaps[i] \cup mbox[me][1].grant)
  BY <1>1, <1>2, <1>3, <1>4
<1>6. ASSUME NEW i \in Task, NEW n \in 1 .. Len(mbox'[i])
      PROVE  \E k \in 1 .. Len(mbox[i]) : mbox'[i][n] = mbox[i][k]
  <2>1. CASE i # me
    BY <1>2, <1>3, <2>1
  <2>2. CASE i = me
    <3>1. mbox'[me] = Tail(mbox[me])
      BY <1>1, <1>2, <1>3
    <3>2. n \in 1 .. Len(Tail(mbox[me])) /\ n + 1 \in 1 .. Len(mbox[me])
      BY <1>4, <2>2, <3>1
    <3> QED
      BY <1>4, <2>2, <3>1, <3>2
  <2> QED
    BY <2>1, <2>2
<1> SUFFICES ASSUME NEW k \in Cap, k \in Authority'
             PROVE  k \in Authority
  BY DEF Authority
<1>7. PICK i \in Task :
        k \in tcaps'[i] \/ \E n \in 1 .. Len(mbox'[i]) : k \in mbox'[i][n].grant
  BY Zenon DEF Authority
<1>8. CASE k \in tcaps'[i]
  <2>1. k \in tcaps[i] \/ k \in mbox[me][1].grant
    BY <1>5, <1>8
  <2> QED
    BY <1>1, <1>4, <2>1 DEF Authority
<1>9. ASSUME NEW n \in 1 .. Len(mbox'[i]), k \in mbox'[i][n].grant
      PROVE  k \in Authority
  <2>1. PICK j \in 1 .. Len(mbox[i]) : mbox'[i][n] = mbox[i][j]
    BY <1>6
  <2> QED
    BY <1>9, <2>1 DEF Authority
<1> QED
  BY <1>7, <1>8, <1>9

\* Reclaiming only takes authority away.
LEMMA ReclaimKeepsAuthority ==
  ASSUME TypeOK, NEW S \in SUBSET Task, Reclaim(S)
  PROVE  Authority' \subseteq Authority
<1>1. \A i \in Task : tcaps'[i] \subseteq tcaps[i] /\ mbox'[i] \in {mbox[i], <<>>}
  BY DEF Reclaim, ReclaimRights, ClearMailboxes
<1> QED
  BY <1>1, AuthorityKept

LEMMA AuthorityUnchanged ==
  ASSUME UNCHANGED <<capVars, mbox>>
  PROVE  Authority' \subseteq Authority
<1>1. tcaps' = tcaps /\ mbox' = mbox
  BY DEF capVars
<1> QED
  BY <1>1 DEF Authority

\* The disjunction inside NoAmplification.
NoGain ==
  \/ job' # job
  \/ pc[BootHart] = "console" /\ pc'[BootHart] # "console"
  \/ Authority' \subseteq Authority

LEMMA AuthorityStep == TypeOK /\ Places /\ Next => NoGain
<1> SUFFICES ASSUME TypeOK, Places, Next
             PROVE  NoGain
  OBVIOUS
<1> USE DEF tableVars, spaceVars, waitVars, hartVars, bootVars, deviceVars
<1>0. pc \in [Hart -> ConsolePoints \cup
                     {"user", "sched", "idle", "wfi", "pick", "out", "serve", "undo"}]
      /\ job \in Job /\ BootHart \in Hart
  BY BootIsHart DEF TypeOK
<1>1. ASSUME NEW h \in Hart, UserStep(h)
      PROVE  NoGain
  <2>1. CASE Receive(h)
    BY <2>1, ReceiveKeepsAuthority DEF NoGain
  <2>2. CASE \E to \in Task, requested \in SUBSET Cap : Send(h, to, requested)
    BY <2>2, SendKeepsAuthority DEF NoGain
  <2>3. CASE Preempt(h) \/ Yield(h) \/ Exit(h) \/ Fault(h) \/ RecvPark(h) \/ RecvTimeoutPark(h)
             \/ IrqWaitPark(h) \/ IrqWaitReturn(h) \/ RecvDenied(h)
    <3>1. UNCHANGED <<capVars, mbox>>
      BY <2>3 DEF Preempt, Yield, Exit, Fault, Finish, RecvPark, RecvTimeoutPark, IrqWaitPark,
                  IrqWaitReturn, RecvDenied, Park
    <3> QED
      BY <3>1, AuthorityUnchanged DEF NoGain
  <2> QED
    BY <1>1, <2>1, <2>2, <2>3 DEF UserStep
<1>2. ASSUME NEW h \in Hart, PickStep(h) \/ ServeStep(h)
      PROVE  NoGain
  <2>1. UNCHANGED <<capVars, mbox>>
    BY <1>2 DEF PickStep, Leave, Dispatch, ServeStep, ServeEnter, ServeClaim, ServeUndo,
                ExpireTimeouts
  <2> QED
    BY <2>1, AuthorityUnchanged DEF NoGain
<1>3. CASE IdleTest \/ IdleRound \/ DeviceRaise \/ PlicCount \/ WakeIrqWaiters \/ ConsoleTick
  <2>1. UNCHANGED <<capVars, mbox>>
    BY <1>3 DEF IdleTest, IdleRound, DeviceRaise, PlicCount, WakeIrqWaiters, ConsoleTick,
                ExpireTimeouts
  <2> QED
    BY <2>1, AuthorityUnchanged DEF NoGain
<1>4. CASE EnterProcesses \/ NothingLaunched \/ CloseConsole \/ JoinReturns \/ RunSchedulerFrom
           \/ OpenConsole \/ StartService
  <2>1. UNCHANGED <<capVars, mbox>>
    BY <1>4 DEF EnterProcesses, NothingLaunched, CloseConsole, JoinReturns, RunSchedulerFrom,
                OpenConsole, StartService, ExpireTimeouts
  <2> QED
    BY <2>1, AuthorityUnchanged DEF NoGain
<1>5. CASE ReclaimDone \/ SpawnReclaim \/ ReclaimFinished
  <2>1. \E S \in SUBSET Task : Reclaim(S)
    <3>1. CASE SpawnReclaim
      <4>1. {job.slot} \in SUBSET Task
        BY <1>0, <3>1, SchedAssumption DEF SpawnReclaim, Job, Task
      <4> QED
        BY <3>1, <4>1 DEF SpawnReclaim
    <3>2. CASE ReclaimDone
      BY <3>2 DEF ReclaimDone
    <3>3. CASE ReclaimFinished
      BY <3>3 DEF ReclaimFinished
    <3> QED
      BY <1>5, <3>1, <3>2, <3>3
  <2> QED
    BY <2>1, ReclaimKeepsAuthority DEF NoGain
<1>6. CASE LoadRow \/ SpawnRow
  <2>1. \/ job' = [job EXCEPT !.slot = @ + 1]
        \/ job' = [job EXCEPT !.slot = @ + 1, !.first = IF @ = NoTask THEN job.slot ELSE @]
    BY <1>6 DEF LoadRow, SpawnRow
  <2>2. job.slot \in Int /\ job'.slot = job.slot + 1
    <3>1. job \in [kind : {"none", "tasks", "processes", "smp", "foreground", "service"},
                   slot : 0 .. MAX_TASKS, last : 0 .. MAX_TASKS, first : Task \cup {NoTask}]
      BY <1>0 DEF Job
    <3>2. job.slot \in Int
      BY <3>1, SchedAssumption
    <3>3. job'.slot = job.slot + 1
      BY <2>1, <3>1
    <3> QED
      BY <3>2, <3>3
  <2> QED
    BY <2>2 DEF NoGain
<1>7. CASE RunProcesses
  <2>1. CASE pc[BootHart] = "console"
    BY <1>0, <1>7, <2>1 DEF RunProcesses, Goto, NoGain
  <2>2. ReclaimRights(Task) /\ ClearMailboxes(Task)
    BY <1>7 DEF RunProcesses
  <2>3. \A i \in Task : tcaps'[i] \subseteq tcaps[i] /\ mbox'[i] \in {mbox[i], <<>>}
    BY <2>2 DEF ReclaimRights, ClearMailboxes
  <2> QED
    BY <2>3, AuthorityKept DEF NoGain
<1>8. CASE RunTasks \/ ClearForeground
  BY <1>0, <1>8 DEF RunTasks, ClearForeground, Goto, At, NoGain
<1> QED
  BY <1>1, <1>2, <1>3, <1>4, <1>5, <1>6, <1>7, <1>8 DEF Next, EntryStep, Command

\* System calls move authority between tasks and messages and never create it:
\* SYS_SEND grants at most what its sender holds.
THEOREM SyscallsCreateNoAuthority == Spec => NoAmplification
<1>1. TypeOK /\ Places /\ [Next]_vars => [NoGain]_vars
  BY AuthorityStep
<1> QED
  BY <1>1, TypeCorrect, PTL DEF Spec, NoAmplification, NoGain
==============================================================================
