--------------------------- MODULE SchedTypeProofs ---------------------------
(***************************************************************************)
(* Type correctness of Sched for any number of harts, slots, address       *)
(* spaces and messages, whatever the tasks and the console do.             *)
(***************************************************************************)
EXTENDS Sched, TLAPS

\* WHERE THE HARTS ARE.  A hart in user mode has a task, and the slot a launch
\* is about to write is a slot of the table.
Places ==
  /\ \A h \in Hart : pc[h] = "user" => current[h] \in Task
  /\ pc[BootHart] = "row" => job.slot < job.last

LEMMA BootIsHart == BootHart \in Hart
BY SchedAssumption

LEMMA NoCallType == NoCall \in Call
BY DEF NoCall, Call

LEMMA Slots ==
  /\ MAX_TASKS \in Nat /\ MAX_TASKS > 1
  /\ Task = 0 .. MAX_TASKS - 1
  /\ NoTask = MAX_TASKS
  /\ NoTask \notin Task
BY SchedAssumption DEF Task, NoTask, FIRST_FOREGROUND_TASK

\* The pieces several handlers share keep the type of what they assign.
LEMMA ExpireType ==
  ASSUME TypeOK, ExpireTimeouts
  PROVE  /\ tstate' \in [Task -> {"Unused", "Ready", "Blocked", "Done"}]
         /\ deadline' \in [Task -> Nat \cup {NoDeadline}]
         /\ pend' \in [Task -> Call]
BY NoCallType DEF TypeOK, ExpireTimeouts, StateNow, NoDeadline

LEMMA TickType ==
  ASSUME TypeOK, Tick
  PROVE  deadline' \in [Task -> Nat \cup {NoDeadline}]
<1>1. \A i \in Task : deadline[i] \in Nat \cup {NoDeadline}
  BY DEF TypeOK
<1>2. \A i \in Task : deadline[i] > 0 => deadline[i] - 1 \in Nat
  BY <1>1 DEF NoDeadline
<1> QED
  BY <1>1, <1>2 DEF Tick

LEMMA ReclaimSpacesType ==
  ASSUME TypeOK, NEW S \in SUBSET Task, ReclaimSpaces(S)
  PROVE  /\ tsatp' \in [Task -> Space \cup {KernelSpace, Bare}]
         /\ tres' \in [Task -> Space \cup {Bare}]
         /\ free' \in SUBSET Space
BY DEF TypeOK, ReclaimSpaces, Owning

LEMMA ReclaimRightsType ==
  ASSUME TypeOK, NEW S \in SUBSET Task, ReclaimRights(S)
  PROVE  /\ tcaps' \in [Task -> SUBSET Cap]
         /\ tpers' \in [Task -> {"native", "linux"}]
BY DEF TypeOK, ReclaimRights

LEMMA ClearMailboxesType ==
  ASSUME TypeOK, NEW S \in SUBSET Task, ClearMailboxes(S)
  PROVE  /\ mbox' \in [Task -> Seq(Message)]
         /\ deadline' \in [Task -> Nat \cup {NoDeadline}]
         /\ irqWaiting' \in SUBSET Task
BY DEF TypeOK, ClearMailboxes

LEMMA ReclaimType ==
  ASSUME TypeOK, NEW S \in SUBSET Task, Reclaim(S)
  PROVE  /\ tsatp' \in [Task -> Space \cup {KernelSpace, Bare}]
         /\ tres' \in [Task -> Space \cup {Bare}]
         /\ free' \in SUBSET Space
         /\ tcaps' \in [Task -> SUBSET Cap]
         /\ tpers' \in [Task -> {"native", "linux"}]
         /\ mbox' \in [Task -> Seq(Message)]
         /\ deadline' \in [Task -> Nat \cup {NoDeadline}]
         /\ irqWaiting' \in SUBSET Task
<1>1. Owning(S) \in SUBSET Task
  BY DEF Owning
<1> QED
  BY <1>1, ReclaimSpacesType, ReclaimRightsType, ClearMailboxesType DEF Reclaim

LEMMA ClaimType ==
  ASSUME TypeOK, NEW h \in Hart, NEW i \in Task, Claim(h, i)
  PROVE  /\ current' \in [Hart -> Task \cup {NoTask}]
         /\ fhart' \in [Task -> Hart]
         /\ satp' \in [Hart -> Space \cup {KernelSpace, Bare}]
         /\ pc' = [pc EXCEPT ![h] = "user"]
         /\ current'[h] \in Task
         /\ \A g \in Hart \ {h} : current'[g] = current[g]
BY DEF TypeOK, Claim, Goto

LEMMA LaunchRowType ==
  ASSUME TypeOK, NEW i \in Task, NEW s \in Space, LaunchRow(i, s)
  PROVE  /\ tcaps' \in [Task -> SUBSET Cap]
         /\ tpers' \in [Task -> {"native", "linux"}]
         /\ tsatp' \in [Task -> Space \cup {KernelSpace, Bare}]
         /\ tres' \in [Task -> Space \cup {Bare}]
         /\ free' \in SUBSET Space
         /\ tstate' \in [Task -> {"Unused", "Ready", "Blocked", "Done"}]
         /\ pend' \in [Task -> Call]
         /\ fhart' \in [Task -> Hart]
<1>1. PICK caps \in LaunchCaps, pers \in Personality :
        tcaps' = [tcaps EXCEPT ![i] = caps] /\ tpers' = [tpers EXCEPT ![i] = pers]
  BY DEF LaunchRow
<1>2. caps \in SUBSET Cap /\ pers \in {"native", "linux"}
  BY SchedAssumption
<1> QED
  BY <1>1, <1>2, BootIsHart, NoCallType DEF LaunchRow, TypeOK

\* Each step keeps the type and the places, action by action.
LEMMA UserStepType ==
  ASSUME TypeOK, Places, NEW h \in Hart, UserStep(h)
  PROVE  TypeOK' /\ Places'
<1> DEFINE me == current[h]
<1>0. me \in Task /\ pc[h] = "user"
  BY DEF Places, UserStep, Preempt, Yield, Exit, Fault, Send, Receive, RecvPark,
         RecvTimeoutPark, IrqWaitPark, IrqWaitReturn, RecvDenied, Calls, At
<1>1. /\ Reschedule(h) \in {"sched", "pick"}
      /\ mbox[me] \in Seq(Message)
  BY <1>0 DEF Reschedule, TypeOK
<1> USE DEF tableVars, capVars, spaceVars, waitVars, hartVars, bootVars, deviceVars
<1>2. CASE Preempt(h)
  BY <1>1, <1>2, TickType DEF Preempt, Goto, TypeOK, Places
<1>3. CASE Yield(h)
  BY <1>0, <1>1, <1>3 DEF Yield, Goto, TypeOK, Places
<1>4. ASSUME NEW code \in ExitCode \cup {SYS_DENIED}, Finish(h, code)
      PROVE  TypeOK' /\ Places'
  BY <1>0, <1>1, <1>4 DEF Finish, Goto, TypeOK, Places
<1>5. CASE Exit(h) \/ Fault(h)
  BY <1>4, <1>5 DEF Exit, Fault
<1>6. ASSUME NEW to \in Task, NEW requested \in SUBSET Cap, Send(h, to, requested)
      PROVE  TypeOK' /\ Places'
  <2> DEFINE m == [from |-> me, grant |-> Granted(requested, tcaps[me]),
                   sender_caps |-> tcaps[me]]
  <2>1. m \in Message
    BY <1>0 DEF Message, Granted, TypeOK
  <2>2. Append(mbox[to], m) \in Seq(Message)
    BY <2>1 DEF TypeOK
  <2>3. mbox' = [mbox EXCEPT ![to] = Append(mbox[to], m)]
    BY <1>6 DEF Send
  <2> HIDE DEF m
  <2>4. mbox' \in [Task -> Seq(Message)]
    BY <2>2, <2>3 DEF TypeOK
  <2>5. WakeReceiver(to) /\ UNCHANGED <<texit, pend, capVars, spaceVars, irqWaiting,
                                       hartVars, bootVars, deviceVars>>
    BY <1>6 DEF Send
  <2> QED
    BY <2>4, <2>5 DEF WakeReceiver, TypeOK, Places
<1>7. CASE Receive(h)
  <2>1. mbox[me] # <<>>
    BY <1>7 DEF Receive
  <2>2. Head(mbox[me]) \in Message /\ Tail(mbox[me]) \in Seq(Message)
    BY <1>1, <2>1
  <2>3. Head(mbox[me]).grant \in SUBSET Cap
    BY <2>2 DEF Message
  <2> QED
    BY <1>0, <1>7, <2>2, <2>3, NoCallType DEF Receive, TypeOK, Places
<1>8. ASSUME NEW name \in {"recv", "recv_timeout", "irq_wait"}, NEW arg \in Nat,
             Park(h, name, arg),
             deadline' \in [Task -> Nat \cup {NoDeadline}], irqWaiting' \in SUBSET Task
      PROVE  TypeOK' /\ Places'
  <2>1. [call |-> name, arg |-> arg] \in Call
    BY DEF Call
  <2> QED
    BY <1>0, <1>1, <1>8, <2>1 DEF Park, Goto, TypeOK, Places
<1>9. CASE RecvPark(h)
  BY <1>8, <1>9 DEF RecvPark, TypeOK
<1>10. CASE RecvTimeoutPark(h)
  <2>1. PICK n \in Timeouts : /\ Park(h, "recv_timeout", n)
                              /\ deadline' = [deadline EXCEPT ![me] = n]
                              /\ irqWaiting' = irqWaiting
    BY <1>10 DEF RecvTimeoutPark
  <2>2. n \in Nat
    BY SchedAssumption
  <2> QED
    BY <1>0, <1>8, <2>1, <2>2 DEF TypeOK
<1>11. CASE IrqWaitPark(h)
  <2>1. extIrqs \in Nat
    BY DEF TypeOK
  <2> QED
    BY <1>0, <1>8, <1>11, <2>1 DEF IrqWaitPark, TypeOK
<1>12. CASE IrqWaitReturn(h) \/ RecvDenied(h)
  <2>1. /\ pend' = [pend EXCEPT ![current[h]] = NoCall]
        /\ UNCHANGED <<tstate, texit, capVars, spaceVars, waitVars, hartVars, bootVars,
                       deviceVars>>
    BY <1>12 DEF IrqWaitReturn, RecvDenied
  <2> QED
    BY <1>0, <2>1, NoCallType DEF TypeOK, Places
<1> QED
  BY <1>2, <1>3, <1>5, <1>6, <1>7, <1>9, <1>10, <1>11, <1>12 DEF UserStep

LEMMA PickStepType ==
  ASSUME TypeOK, Places, NEW h \in Hart, PickStep(h)
  PROVE  TypeOK' /\ Places'
<1> USE DEF tableVars, capVars, spaceVars, waitVars, hartVars, bootVars, deviceVars
<1>1. CASE Leave(h)
  <2>1. AfterRun \in {"console", "tail", "swept"}
    BY DEF AfterRun
  <2>2. /\ tstate' \in [Task -> {"Unused", "Ready", "Blocked", "Done"}]
        /\ deadline' \in [Task -> Nat \cup {NoDeadline}]
        /\ pend' \in [Task -> Call]
        /\ UNCHANGED <<texit, mbox, irqWaiting>>
    BY <1>1, ExpireType DEF Leave, ExpireTimeouts
  <2>3. /\ current' = [current EXCEPT ![h] = NoTask]
        /\ pc' = [pc EXCEPT ![h] = IF h = BootHart THEN AfterRun ELSE "undo"]
        /\ UNCHANGED <<capVars, spaceVars, satp, fhart, activeMem, smpOn, job,
                       deviceVars>>
    BY <1>1 DEF Leave, Goto
  <2>4. sie' \in BOOLEAN
    BY <1>1 DEF Leave, TypeOK
  <2> QED
    BY <2>1, <2>2, <2>3, <2>4, BootIsHart DEF TypeOK, Places, ConsolePoints
<1>2. ASSUME NEW i \in Task, Dispatch(h, i)
      PROVE  TypeOK' /\ Places'
  <2>1. /\ tstate' \in [Task -> {"Unused", "Ready", "Blocked", "Done"}]
        /\ deadline' \in [Task -> Nat \cup {NoDeadline}]
        /\ pend' \in [Task -> Call]
        /\ UNCHANGED <<texit, mbox, irqWaiting>>
    BY <1>2, ExpireType DEF Dispatch, ExpireTimeouts
  <2>2. Claim(h, i) /\ ExposeStack(i)
        /\ UNCHANGED <<capVars, spaceVars, sie, smpOn, job, deviceVars>>
    BY <1>2 DEF Dispatch
  <2>3. /\ current' \in [Hart -> Task \cup {NoTask}]
        /\ fhart' \in [Task -> Hart]
        /\ satp' \in [Hart -> Space \cup {KernelSpace, Bare}]
        /\ pc' = [pc EXCEPT ![h] = "user"]
        /\ current'[h] \in Task
        /\ \A g \in Hart \ {h} : current'[g] = current[g]
    BY <2>2, ClaimType
  <2> QED
    BY <2>1, <2>2, <2>3, BootIsHart DEF ExposeStack, TypeOK, Places
<1> QED
  BY <1>1, <1>2 DEF PickStep

LEMMA ServeStepType ==
  ASSUME TypeOK, Places, NEW h \in Hart, ServeStep(h)
  PROVE  TypeOK' /\ Places'
<1> USE DEF tableVars, capVars, spaceVars, waitVars, hartVars, bootVars, deviceVars
<1>1. CASE ServeEnter(h)
  BY <1>1 DEF ServeEnter, Goto, TypeOK, Places
<1>2. CASE ServeClaim(h)
  <2>0. /\ tstate' \in [Task -> {"Unused", "Ready", "Blocked", "Done"}]
        /\ deadline' \in [Task -> Nat \cup {NoDeadline}]
        /\ pend' \in [Task -> Call]
        /\ UNCHANGED <<texit, mbox, irqWaiting>>
        /\ UNCHANGED <<capVars, spaceVars, bootVars, deviceVars>>
    BY <1>2, ExpireType DEF ServeClaim, ExpireTimeouts
  <2>1. ASSUME NEW i \in Task, Claim(h, i)
        PROVE  TypeOK' /\ Places'
    <3>1. /\ current' \in [Hart -> Task \cup {NoTask}]
          /\ fhart' \in [Task -> Hart]
          /\ satp' \in [Hart -> Space \cup {KernelSpace, Bare}]
          /\ pc' = [pc EXCEPT ![h] = "user"]
          /\ current'[h] \in Task
          /\ \A g \in Hart \ {h} : current'[g] = current[g]
      BY <2>1, ClaimType
    <3> QED
      BY <2>0, <3>1, BootIsHart DEF TypeOK, Places
  <2>2. CASE Goto(h, "out") /\ UNCHANGED <<current, satp, fhart>>
    BY <2>0, <2>2, BootIsHart DEF Goto, TypeOK, Places
  <2> QED
    BY <1>2, <2>1, <2>2 DEF ServeClaim
<1>3. CASE ServeUndo(h)
  BY <1>3 DEF ServeUndo, Goto, TypeOK, Places
<1> QED
  BY <1>1, <1>2, <1>3 DEF ServeStep

LEMMA DeviceStepType ==
  ASSUME TypeOK, Places,
         IdleTest \/ IdleRound \/ DeviceRaise \/ PlicCount \/ WakeIrqWaiters \/ ConsoleTick
  PROVE  TypeOK' /\ Places'
<1> USE BootIsHart
    DEF tableVars, capVars, spaceVars, waitVars, hartVars, bootVars, deviceVars
<1>1. CASE IdleTest
  BY <1>1, ExpireType DEF IdleTest, ExpireTimeouts, Goto, TypeOK, Places
<1>2. CASE IdleRound
  <2>1. PICK p \in {"idle", "pick"} : Goto(BootHart, p)
    BY <1>2 DEF IdleRound
  <2>2. UNCHANGED <<tableVars, capVars, spaceVars, waitVars, current, satp, fhart,
                    bootVars, deviceVars>>
    BY <1>2 DEF IdleRound
  <2> QED
    BY <2>1, <2>2 DEF Goto, TypeOK, Places
<1>3. CASE DeviceRaise \/ PlicCount
  <2>1. irqLine' \in BOOLEAN /\ waking' \in BOOLEAN
    BY <1>3 DEF DeviceRaise, PlicCount, TypeOK
  <2>2. extIrqs' \in Nat
    BY SMTT(30), <1>3 DEF DeviceRaise, PlicCount, TypeOK
  <2>3. UNCHANGED <<tableVars, capVars, spaceVars, waitVars, hartVars, bootVars>>
    BY <1>3 DEF DeviceRaise, PlicCount
  <2> QED
    BY <2>1, <2>2, <2>3 DEF TypeOK, Places
<1>4. CASE WakeIrqWaiters
  <2>1. waking' \in BOOLEAN
    BY <1>4 DEF WakeIrqWaiters
  <2>2. /\ tstate' = Woken
        /\ irqWaiting' = {}
        /\ pc' = [pc EXCEPT ![BootHart] = IF @ = "wfi" THEN "idle" ELSE @]
        /\ UNCHANGED <<texit, pend, capVars, spaceVars, mbox, deadline, current, satp, fhart,
                       bootVars, extIrqs, irqLine>>
    BY <1>4 DEF WakeIrqWaiters
  <2> QED
    BY <2>1, <2>2 DEF Woken, TypeOK, Places
<1>5. CASE ConsoleTick
  <2>1. deadline' \in [Task -> Nat \cup {NoDeadline}]
    BY <1>5, TickType DEF ConsoleTick
  <2>2. UNCHANGED <<tableVars, capVars, spaceVars, mbox, irqWaiting, hartVars, bootVars,
                    deviceVars>>
    BY <1>5 DEF ConsoleTick
  <2> QED
    BY <2>1, <2>2 DEF TypeOK, Places
<1> QED
  BY <1>1, <1>2, <1>3, <1>4, <1>5

LEMMA JobType ==
  ASSUME TypeOK
  PROVE  /\ job.slot \in 0 .. MAX_TASKS
         /\ job.last \in 0 .. MAX_TASKS
         /\ job.first \in Task \cup {NoTask}
BY DEF TypeOK, Job

LEMMA JobAdvance ==
  ASSUME TypeOK, job.slot < job.last
  PROVE  /\ job.slot \in Task
         /\ [job EXCEPT !.slot = @ + 1] \in Job
         /\ [job EXCEPT !.slot = @ + 1,
                        !.first = IF @ = NoTask THEN job.slot ELSE @] \in Job
<1>1. job.slot \in Task /\ job.slot + 1 \in 0 .. MAX_TASKS
  BY JobType, Slots
<1>2. job \in Job
  BY DEF TypeOK
<1> QED
  BY <1>1, <1>2 DEF Job

LEMMA EntryStepType ==
  ASSUME TypeOK, Places, EntryStep, ~RunProcesses
  PROVE  TypeOK' /\ Places'
<1> USE BootIsHart
    DEF tableVars, capVars, spaceVars, waitVars, hartVars, bootVars, deviceVars
<1>1. CASE LoadRow
  <2>1. /\ job.slot < job.last
        /\ pc[BootHart] = "load"
        /\ UNCHANGED <<texit, waitVars, current, pc, satp, sie, activeMem, smpOn,
                       deviceVars>>
    BY <1>1 DEF LoadRow, At
  <2>2. ASSUME NEW s \in free, LaunchRow(job.slot, s),
               job' = [job EXCEPT !.slot = @ + 1,
                                  !.first = IF @ = NoTask THEN job.slot ELSE @]
        PROVE  TypeOK' /\ Places'
    <3>1. s \in Space
      BY DEF TypeOK
    <3>2. /\ tcaps' \in [Task -> SUBSET Cap]
          /\ tpers' \in [Task -> {"native", "linux"}]
          /\ tsatp' \in [Task -> Space \cup {KernelSpace, Bare}]
          /\ tres' \in [Task -> Space \cup {Bare}]
          /\ free' \in SUBSET Space
          /\ tstate' \in [Task -> {"Unused", "Ready", "Blocked", "Done"}]
          /\ pend' \in [Task -> Call]
          /\ fhart' \in [Task -> Hart]
      BY <2>1, <2>2, <3>1, JobAdvance, LaunchRowType
    <3>3. job' \in Job
      BY <2>1, <2>2, JobAdvance
    <3> QED
      BY <2>1, <3>2, <3>3 DEF TypeOK, Places
  <2>3. CASE job' = [job EXCEPT !.slot = @ + 1] /\ UNCHANGED <<tcaps, tpers, spaceVars,
                                                               tstate, pend, fhart>>
    <3>1. job' \in Job
      BY <2>1, <2>3, JobAdvance
    <3> QED
      BY <2>1, <2>3, <3>1 DEF TypeOK, Places
  <2> QED
    BY <1>1, <2>2, <2>3 DEF LoadRow
<1>2. CASE EnterProcesses
  <2>1. /\ tstate' \in [Task -> {"Unused", "Ready", "Blocked", "Done"}]
        /\ deadline' \in [Task -> Nat \cup {NoDeadline}]
        /\ pend' \in [Task -> Call]
        /\ UNCHANGED <<texit, mbox, irqWaiting>>
        /\ UNCHANGED <<capVars, spaceVars, bootVars, deviceVars>>
    BY <1>2, ExpireType DEF EnterProcesses, ExpireTimeouts
  <2>2. ASSUME NEW i \in Task, Claim(BootHart, i)
        PROVE  TypeOK' /\ Places'
    <3>1. /\ current' \in [Hart -> Task \cup {NoTask}]
          /\ fhart' \in [Task -> Hart]
          /\ satp' \in [Hart -> Space \cup {KernelSpace, Bare}]
          /\ pc' = [pc EXCEPT ![BootHart] = "user"]
          /\ current'[BootHart] \in Task
          /\ \A g \in Hart \ {BootHart} : current'[g] = current[g]
      BY <2>2, ClaimType
    <3> QED
      BY <2>1, <3>1 DEF TypeOK, Places
  <2>3. CASE Goto(BootHart, "tail") /\ UNCHANGED <<current, satp, fhart>>
    BY <2>1, <2>3 DEF Goto, TypeOK, Places, ConsolePoints
  <2> QED
    BY <1>2, <2>2, <2>3 DEF EnterProcesses
<1>3. CASE NothingLaunched
  <2>1. PICK p \in {"join", "console"} : Goto(BootHart, p)
    BY <1>3 DEF NothingLaunched, AfterProcesses
  <2>2. UNCHANGED <<tableVars, capVars, spaceVars, waitVars, current, satp, fhart,
                    bootVars, deviceVars>>
    BY <1>3 DEF NothingLaunched
  <2> QED
    BY <2>1, <2>2 DEF Goto, TypeOK, Places, ConsolePoints
<1>4. ASSUME NEW S \in SUBSET Task, Reclaim(S), NEW p \in {"join", "console", "row"},
             Goto(BootHart, p), p = "row" => job.slot < job.last,
             satp' \in [Hart -> Space \cup {KernelSpace, Bare}],
             UNCHANGED <<tableVars, current, fhart, bootVars, deviceVars>>
      PROVE  TypeOK' /\ Places'
  <2>1. /\ tsatp' \in [Task -> Space \cup {KernelSpace, Bare}]
        /\ tres' \in [Task -> Space \cup {Bare}]
        /\ free' \in SUBSET Space
        /\ tcaps' \in [Task -> SUBSET Cap]
        /\ tpers' \in [Task -> {"native", "linux"}]
        /\ mbox' \in [Task -> Seq(Message)]
        /\ deadline' \in [Task -> Nat \cup {NoDeadline}]
        /\ irqWaiting' \in SUBSET Task
    BY <1>4, ReclaimType
  <2> QED
    BY <1>4, <2>1 DEF Goto, TypeOK, Places, ConsolePoints
<1>5. CASE ReclaimDone
  <2>1. satp' \in [Hart -> Space \cup {KernelSpace, Bare}]
    BY <1>5 DEF ReclaimDone, BackToKernel, TypeOK
  <2>2. AfterProcesses \in {"join", "console"}
    BY DEF AfterProcesses
  <2> QED
    BY <1>4, <1>5, <2>1, <2>2 DEF ReclaimDone
<1>6. CASE ReclaimFinished
  <2>1. satp' \in [Hart -> Space \cup {KernelSpace, Bare}]
    BY <1>6 DEF ReclaimFinished, BackToKernel, TypeOK
  <2> QED
    BY <1>4, <1>6, <2>1 DEF ReclaimFinished
<1>7. CASE SpawnReclaim
  <2>1. {job.slot} \in SUBSET Task /\ job.slot < job.last
    BY <1>7, JobAdvance DEF SpawnReclaim
  <2>2. satp' \in [Hart -> Space \cup {KernelSpace, Bare}]
    BY <1>7 DEF SpawnReclaim, TypeOK
  <2> QED
    BY <1>4, <1>7, <2>1, <2>2 DEF SpawnReclaim
<1>8. CASE CloseConsole
  <2>1. smpOn' \in BOOLEAN
    BY <1>8 DEF CloseConsole
  <2>2. UNCHANGED <<tableVars, capVars, spaceVars, waitVars, hartVars, sie, activeMem,
                    job, deviceVars>>
    BY <1>8 DEF CloseConsole
  <2> QED
    BY <2>1, <2>2 DEF TypeOK, Places
<1>9. CASE JoinReturns
  <2>1. Goto(BootHart, "console")
        /\ UNCHANGED <<tableVars, capVars, spaceVars, waitVars, current, satp, fhart,
                       bootVars, deviceVars>>
    BY <1>9 DEF JoinReturns
  <2> QED
    BY <2>1 DEF bootVars, Goto, TypeOK, Places, ConsolePoints
<1>10. CASE SpawnRow
  <2>1. /\ job.slot < job.last
        /\ ClearMailboxes({job.slot})
        /\ pc' = [pc EXCEPT ![BootHart] = "spawn"]
        /\ UNCHANGED <<current, satp, sie, activeMem, smpOn, deviceVars>>
    BY <1>10 DEF SpawnRow, At, Places, Goto
  <2>2. job.slot \in Task
    BY <2>1, JobAdvance
  <2>3. /\ mbox' \in [Task -> Seq(Message)]
        /\ deadline' \in [Task -> Nat \cup {NoDeadline}]
        /\ irqWaiting' \in SUBSET Task
    BY <2>1, <2>2, ClearMailboxesType
  <2>4. ASSUME NEW s \in free, LaunchRow(job.slot, s),
               texit' = [texit EXCEPT ![job.slot] = 0],
               job' = [job EXCEPT !.slot = @ + 1,
                                  !.first = IF @ = NoTask THEN job.slot ELSE @]
        PROVE  TypeOK' /\ Places'
    <3>1. s \in Space
      BY DEF TypeOK
    <3>2. /\ tcaps' \in [Task -> SUBSET Cap]
          /\ tpers' \in [Task -> {"native", "linux"}]
          /\ tsatp' \in [Task -> Space \cup {KernelSpace, Bare}]
          /\ tres' \in [Task -> Space \cup {Bare}]
          /\ free' \in SUBSET Space
          /\ tstate' \in [Task -> {"Unused", "Ready", "Blocked", "Done"}]
          /\ pend' \in [Task -> Call]
          /\ fhart' \in [Task -> Hart]
      BY <2>2, <2>4, <3>1, LaunchRowType
    <3>3. job' \in Job
      BY <2>1, <2>4, JobAdvance
    <3> QED
      BY <2>1, <2>3, <2>4, <3>2, <3>3 DEF TypeOK, Places, ConsolePoints
  <2>5. CASE /\ tstate' = [tstate EXCEPT ![job.slot] = "Unused"]
             /\ job' = [job EXCEPT !.slot = @ + 1]
             /\ UNCHANGED <<texit, pend, tcaps, tpers, spaceVars, fhart>>
    <3>1. job' \in Job
      BY <2>1, <2>5, JobAdvance
    <3> QED
      BY <2>1, <2>3, <2>5, <3>1 DEF TypeOK, Places, ConsolePoints
  <2> QED
    BY <1>10, <2>4, <2>5 DEF SpawnRow
<1>11. CASE RunSchedulerFrom
  <2>1. /\ Claim(BootHart, job.first)
        /\ UNCHANGED <<tableVars, capVars, spaceVars, waitVars, bootVars, deviceVars>>
        /\ job.first \in Task
    BY <1>11, JobType DEF RunSchedulerFrom
  <2>2. /\ current' \in [Hart -> Task \cup {NoTask}]
        /\ fhart' \in [Task -> Hart]
        /\ satp' \in [Hart -> Space \cup {KernelSpace, Bare}]
        /\ pc' = [pc EXCEPT ![BootHart] = "user"]
        /\ current'[BootHart] \in Task
        /\ \A g \in Hart \ {BootHart} : current'[g] = current[g]
    BY <2>1, ClaimType
  <2> QED
    BY <2>1, <2>2 DEF TypeOK, Places
<1> QED
  BY <1>1, <1>2, <1>3, <1>5, <1>6, <1>7, <1>8, <1>9, <1>10, <1>11 DEF EntryStep

LEMMA RunProcessesType ==
  ASSUME TypeOK, Places, RunProcesses
  PROVE  TypeOK' /\ Places'
<1> USE BootIsHart
    DEF tableVars, capVars, spaceVars, waitVars, hartVars, bootVars, deviceVars
<1>1. job' \in Job
  <2>1. PICK n \in Counts, k \in {"smp", "processes"} : Begin(k, 0, n)
    BY DEF RunProcesses
  <2>2. n \in 0 .. MAX_TASKS /\ 0 + n = n
    BY SchedAssumption
  <2>3. job' = [kind |-> k, slot |-> 0, last |-> n, first |-> NoTask]
    BY <2>1, <2>2 DEF Begin
  <2> QED
    BY <2>2, <2>3, Slots DEF Job
<1>2. ReclaimSpaces(Task) /\ ReclaimRights(Task) /\ ClearMailboxes(Task)
  BY DEF RunProcesses
<1>3. /\ tsatp' \in [Task -> Space \cup {KernelSpace, Bare}]
      /\ tres' \in [Task -> Space \cup {Bare}]
      /\ free' \in SUBSET Space
  BY <1>2, ReclaimSpacesType
<1>4. /\ tcaps' \in [Task -> SUBSET Cap]
      /\ tpers' \in [Task -> {"native", "linux"}]
  BY <1>2, ReclaimRightsType
<1>5. /\ mbox' \in [Task -> Seq(Message)]
      /\ deadline' \in [Task -> Nat \cup {NoDeadline}]
      /\ irqWaiting' \in SUBSET Task
  BY <1>2, ClearMailboxesType
<1>6. /\ tstate' = [i \in Task |-> "Unused"]
      /\ activeMem' = NoTask
      /\ pc' = [pc EXCEPT ![BootHart] = "load"]
      /\ UNCHANGED <<texit, pend, current, satp, fhart, sie, smpOn, deviceVars>>
  BY DEF RunProcesses, Goto
<1> QED
  BY <1>1, <1>3, <1>4, <1>5, <1>6 DEF TypeOK, Places, ConsolePoints

LEMMA CommandType ==
  ASSUME TypeOK, Places, Command
  PROVE  TypeOK' /\ Places'
<1> USE BootIsHart
    DEF tableVars, capVars, spaceVars, waitVars, hartVars, bootVars, deviceVars
<1>1. CASE RunTasks
  <2>1. PICK n \in Counts, caps \in [Task -> LaunchCaps], pers \in [Task -> Personality] :
          /\ Begin("tasks", 0, n)
          /\ tstate' = [i \in Task |-> IF i < n THEN "Ready" ELSE "Unused"]
          /\ tcaps' = [i \in Task |-> IF i < n THEN caps[i]
                                       ELSE IF i \in Owning(Task) THEN {} ELSE tcaps[i]]
          /\ tpers' = [i \in Task |-> IF i < n THEN pers[i]
                                       ELSE IF i \in Owning(Task) THEN "native" ELSE tpers[i]]
          /\ tsatp' = [i \in Task |-> IF i < n THEN KernelSpace ELSE Bare]
          /\ pend' = [i \in Task |-> IF i < n THEN NoCall ELSE pend[i]]
          /\ fhart' = [i \in Task |-> IF i < n THEN BootHart ELSE fhart[i]]
    BY <1>1 DEF RunTasks
  <2>2. n \in 0 .. MAX_TASKS /\ 0 + n = n
    BY SchedAssumption
  <2>3. job' \in Job
    <3>1. job' = [kind |-> "tasks", slot |-> 0, last |-> n, first |-> NoTask]
      BY <2>1, <2>2 DEF Begin
    <3> QED
      BY <2>2, <3>1, Slots DEF Job
  <2>4. \A i \in Task : caps[i] \in SUBSET Cap /\ pers[i] \in {"native", "linux"}
    BY SchedAssumption
  <2>5. /\ tcaps' \in [Task -> SUBSET Cap]
        /\ tpers' \in [Task -> {"native", "linux"}]
    BY <2>1, <2>4 DEF TypeOK
  <2>6. /\ tstate' \in [Task -> {"Unused", "Ready", "Blocked", "Done"}]
        /\ tsatp' \in [Task -> Space \cup {KernelSpace, Bare}]
        /\ pend' \in [Task -> Call]
        /\ fhart' \in [Task -> Hart]
    BY <2>1, NoCallType DEF TypeOK
  <2>7. /\ mbox' \in [Task -> Seq(Message)]
        /\ deadline' \in [Task -> Nat \cup {NoDeadline}]
        /\ irqWaiting' \in SUBSET Task
    BY <1>1, ClearMailboxesType DEF RunTasks
  <2>8. 0 \in Task
    BY Slots
  <2>9. /\ tres' = [i \in Task |-> Bare]
        /\ free' = free \cup {tres[i] : i \in Owning(Task)}
        /\ current' = [current EXCEPT ![BootHart] = 0]
        /\ activeMem' = 0
        /\ pc' = [pc EXCEPT ![BootHart] = "user"]
        /\ UNCHANGED <<texit, satp, sie, smpOn, deviceVars>>
    BY <1>1 DEF RunTasks, Goto
  <2>10. free' \in SUBSET Space
    BY <2>9 DEF Owning, TypeOK
  <2> QED
    BY <2>3, <2>5, <2>6, <2>7, <2>8, <2>9, <2>10 DEF TypeOK, Places
<1>2. CASE OpenConsole
  <2>1. smpOn' \in BOOLEAN
    BY <1>2 DEF OpenConsole
  <2>2. /\ pc' = [pc EXCEPT ![BootHart] = "opened"]
        /\ UNCHANGED <<tableVars, capVars, spaceVars, waitVars, current, satp, fhart, sie,
                       activeMem, job, deviceVars>>
    BY <1>2 DEF OpenConsole, Goto
  <2> QED
    BY <2>1, <2>2 DEF TypeOK, Places, ConsolePoints
<1>3. CASE ClearForeground
  <2> DEFINE S == FIRST_FOREGROUND_TASK .. MAX_TASKS - 1
  <2>1. S \in SUBSET Task
    BY Slots DEF FIRST_FOREGROUND_TASK
  <2>2. job' \in Job
    <3>1. PICK n \in Counts \cap 1 .. MAX_TASKS - FIRST_FOREGROUND_TASK :
            Begin("foreground", FIRST_FOREGROUND_TASK, n)
      BY <1>3 DEF ClearForeground
    <3>2. 1 \in 0 .. MAX_TASKS /\ 1 + n \in 0 .. MAX_TASKS
      BY Slots DEF FIRST_FOREGROUND_TASK
    <3>3. job' = [kind |-> "foreground", slot |-> 1, last |-> 1 + n, first |-> NoTask]
      BY <3>1 DEF Begin, FIRST_FOREGROUND_TASK
    <3> QED
      BY <3>2, <3>3, Slots DEF Job
  <2>3. /\ ReclaimSpaces(S) /\ ClearMailboxes(S)
        /\ tcaps' = [i \in Task |-> IF i \in S THEN {} ELSE tcaps[i]]
        /\ tpers' = [i \in Task |-> IF i \in Owning(S) THEN "native" ELSE tpers[i]]
        /\ tstate' = [i \in Task |-> IF i \in S THEN "Unused" ELSE tstate[i]]
        /\ texit' = [i \in Task |-> IF i \in S THEN 0 ELSE texit[i]]
        /\ activeMem' = NoTask
        /\ pc' = [pc EXCEPT ![BootHart] = "spawn"]
        /\ UNCHANGED <<pend, current, satp, fhart, sie, smpOn, deviceVars>>
    BY <1>3 DEF ClearForeground, Goto
  <2> HIDE DEF S
  <2>4. /\ tsatp' \in [Task -> Space \cup {KernelSpace, Bare}]
        /\ tres' \in [Task -> Space \cup {Bare}]
        /\ free' \in SUBSET Space
    BY <2>1, <2>3, ReclaimSpacesType
  <2>5. /\ mbox' \in [Task -> Seq(Message)]
        /\ deadline' \in [Task -> Nat \cup {NoDeadline}]
        /\ irqWaiting' \in SUBSET Task
    BY <2>1, <2>3, ClearMailboxesType
  <2> QED
    BY <2>2, <2>3, <2>4, <2>5 DEF TypeOK, Places, ConsolePoints
<1>4. CASE StartService
  <2>1. job' \in Job
    BY <1>4, Slots DEF StartService, Begin, Job
  <2>2. /\ pc' = [pc EXCEPT ![BootHart] = "spawn"]
        /\ UNCHANGED <<tableVars, capVars, spaceVars, waitVars, current, satp, fhart, sie,
                       activeMem, smpOn, deviceVars>>
    BY <1>4 DEF StartService, Goto
  <2> QED
    BY <2>1, <2>2 DEF TypeOK, Places, ConsolePoints
<1> QED
  BY <1>1, <1>2, <1>3, <1>4, RunProcessesType DEF Command

LEMMA TypeStep == TypeOK /\ Places /\ [Next]_vars => TypeOK' /\ Places'
<1> SUFFICES ASSUME TypeOK, Places, [Next]_vars
             PROVE  TypeOK' /\ Places'
  OBVIOUS
<1>1. CASE UNCHANGED vars
  BY <1>1 DEF vars, tableVars, capVars, spaceVars, waitVars, hartVars, bootVars,
              deviceVars, TypeOK, Places
<1> QED
  BY <1>1, UserStepType, PickStepType, ServeStepType, DeviceStepType, EntryStepType,
     RunProcessesType, CommandType DEF Next

LEMMA TypeInit == Init => TypeOK /\ Places
<1> SUFFICES ASSUME Init
             PROVE  TypeOK /\ Places
  OBVIOUS
<1>1. job \in Job
  BY Slots DEF Init, IdleJob, Job
<1>2. mbox \in [Task -> Seq(Message)]
  BY DEF Init
<1> QED
  BY <1>1, <1>2, BootIsHart, NoCallType, Slots DEF Init, TypeOK, Places, ConsolePoints

\* Every column of the task table, every claim and every saved call keeps its
\* type, and a hart in user mode has a task: utrap_handler() never indexes the
\* table with NO_TASK.
THEOREM TypeCorrect == Spec => [](TypeOK /\ Places)
BY TypeInit, TypeStep, PTL DEF Spec
==============================================================================
