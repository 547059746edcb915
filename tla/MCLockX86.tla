------------------------------ MODULE MCLockX86 ------------------------------
(***************************************************************************)
(* The ticket lock and the x86_64 kernel in one instance, with fairness:   *)
(* the initial state chooses one of them, and only that one takes steps.   *)
(***************************************************************************)
EXTENDS TicketLock, X86

VARIABLE part

PartInit == part \in {"lock", "x86"} /\ Init /\ X86Init
PartNext ==
  \/ part = "lock" /\ Next /\ UNCHANGED <<x86Vars, part>>
  \/ part = "x86" /\ X86Next /\ UNCHANGED <<vars, part>>

\* The fairness of each part: Fairness and X86Fairness, for the steps of the part
\* that was chosen.
allVars == <<vars, x86Vars, part>>
LockSteps(A) == part = "lock" /\ A /\ UNCHANGED <<x86Vars, part>>
X86Steps(A) == part = "x86" /\ A /\ UNCHANGED <<vars, part>>

PartSpec ==
  /\ PartInit /\ [][PartNext]_allVars
  /\ \A c \in Context : WF_allVars(LockSteps(Progress(c)))
  /\ \A h \in Hart : WF_allVars(LockSteps(TrapReturn(h)))
  /\ WF_allVars(X86Steps(TimerFires)) /\ WF_allVars(X86Steps(Tick))
  /\ SF_allVars(X86Steps(BootStep)) /\ SF_allVars(X86Steps(GoodStep))
  /\ SF_allVars(X86Steps(BadStep))
  /\ \A w \in Workers : SF_allVars(X86Steps(WorkerStep(w)))
  /\ \A t \in {WIDE_TASK, NARROW_TASK} : SF_allVars(X86Steps(CapStep(t)))
==============================================================================
