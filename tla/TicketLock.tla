----------------------------- MODULE TicketLock -----------------------------
(***************************************************************************)
(* The kernel's lock: the ticket queue of dezh-core/src/sync.rs wrapped by *)
(* the interrupt masking of dezh-boot/src/sync.rs.                         *)
(*                                                                         *)
(* A hart has two contexts that both take the lock: the thread it runs,    *)
(* and the trap handler that may suspend it (wake_irq_waiters is called    *)
(* from one).  While the handler runs its thread stands still, so a        *)
(* handler that waits for its own thread waits for ever.                   *)
(***************************************************************************)
EXTENDS Naturals, FiniteSets

CONSTANTS
  Hart,       \* the harts that contend for one lock
  MaxTicket   \* the largest value of the counters, u32::MAX in the code

\* Fewer harts than ticket values; with u32 counters and 8 harts there are.
ASSUME TicketAssumption ==
  /\ IsFiniteSet(Hart)
  /\ MaxTicket \in Nat
  /\ Cardinality(Hart) <= MaxTicket

Context == Hart \X {"thread", "trap"}
HartOf(c) == c[1]
Ticket == 0 .. MaxTicket

VARIABLES
  next,       \* the next ticket to hand out
  serving,    \* the ticket that owns the lock
  pc,         \* where each context is in lock() or in the guard's drop()
  ticket,     \* the ticket a context took
  served,     \* what release() loaded from `serving`
  irqWasOn,   \* the guard's saved interrupt state
  sie,        \* sstatus.SIE of each hart
  inTrap      \* the harts that run their trap handler

vars == <<next, serving, pc, ticket, served, irqWasOn, sie, inTrap>>

Init ==
  /\ next = 0
  /\ serving = 0
  /\ pc = [c \in Context |-> "outside"]
  /\ ticket = [c \in Context |-> 0]
  /\ served = [c \in Context |-> 0]
  /\ irqWasOn = [c \in Context |-> FALSE]
  /\ sie = [h \in Hart |-> TRUE]
  /\ inTrap = {}

\* fetch_add(1) and wrapping_add(1).
WrappingInc(x) == IF x = MaxTicket THEN 0 ELSE x + 1

\* The context a hart executes: its handler while it is in a trap.
Runs(c) == IF HartOf(c) \in inTrap THEN c[2] = "trap" ELSE c[2] = "thread"

-----------------------------------------------------------------------------
\* Defect: lock() without the masking.
IrqOffUnmasked(c) ==
  /\ Runs(c)
  /\ pc[c] = "outside"
  /\ pc' = [pc EXCEPT ![c] = "masked"]
  /\ UNCHANGED <<next, serving, ticket, served, irqWasOn, sie, inTrap>>

\* irq_off(): clear SIE and report whether it had been set.
IrqOff(c) ==
  /\ Runs(c)
  /\ pc[c] = "outside"
  /\ irqWasOn' = [irqWasOn EXCEPT ![c] = sie[HartOf(c)]]
  /\ sie' = [sie EXCEPT ![HartOf(c)] = FALSE]
  /\ pc' = [pc EXCEPT ![c] = "masked"]
  /\ UNCHANGED <<next, serving, ticket, served, inTrap>>

\* acquire(): next.fetch_add(1).
TakeTicket(c) ==
  /\ Runs(c)
  /\ pc[c] = "masked"
  /\ ticket' = [ticket EXCEPT ![c] = next]
  /\ next' = WrappingInc(next)
  /\ pc' = [pc EXCEPT ![c] = "waiting"]
  /\ UNCHANGED <<serving, served, irqWasOn, sie, inTrap>>

\* Defect: the spin loop compares with an order that does not survive the wrap.
EnterOrdered(c) ==
  /\ Runs(c)
  /\ pc[c] = "waiting"
  /\ serving >= ticket[c]
  /\ pc' = [pc EXCEPT ![c] = "critical"]
  /\ UNCHANGED <<next, serving, ticket, served, irqWasOn, sie, inTrap>>

\* Defect: test-and-set, whoever comes first when the lock is free.
EnterUnordered(c) ==
  /\ Runs(c)
  /\ pc[c] = "waiting"
  /\ \A d \in Context : pc[d] \notin {"critical", "releasing"}
  /\ pc' = [pc EXCEPT ![c] = "critical"]
  /\ UNCHANGED <<next, serving, ticket, served, irqWasOn, sie, inTrap>>

\* acquire(): the spin loop ends when the ticket is the one being served.
Enter(c) ==
  /\ Runs(c)
  /\ pc[c] = "waiting"
  /\ serving = ticket[c]
  /\ pc' = [pc EXCEPT ![c] = "critical"]
  /\ UNCHANGED <<next, serving, ticket, served, irqWasOn, sie, inTrap>>

\* release(): the load ...
LoadServing(c) ==
  /\ Runs(c)
  /\ pc[c] = "critical"
  /\ served' = [served EXCEPT ![c] = serving]
  /\ pc' = [pc EXCEPT ![c] = "releasing"]
  /\ UNCHANGED <<next, serving, ticket, irqWasOn, sie, inTrap>>

\* ... and the store, which is not one read-modify-write with it.  The locals
\* of acquire() and release() die here.
StoreServing(c) ==
  /\ Runs(c)
  /\ pc[c] = "releasing"
  /\ serving' = WrappingInc(served[c])
  /\ pc' = [pc EXCEPT ![c] = "released"]
  /\ ticket' = [ticket EXCEPT ![c] = 0]
  /\ served' = [served EXCEPT ![c] = 0]
  /\ UNCHANGED <<next, irqWasOn, sie, inTrap>>

\* irq_restore(irq_was_on).
IrqRestore(c) ==
  /\ Runs(c)
  /\ pc[c] = "released"
  /\ sie' = [sie EXCEPT ![HartOf(c)] = @ \/ irqWasOn[c]]
  /\ irqWasOn' = [irqWasOn EXCEPT ![c] = FALSE]
  /\ pc' = [pc EXCEPT ![c] = "outside"]
  /\ UNCHANGED <<next, serving, ticket, served, inTrap>>

\* The hart takes an interrupt; the hardware clears SIE for the handler.
TrapEnter(h) ==
  /\ sie[h]
  /\ h \notin inTrap
  /\ inTrap' = inTrap \cup {h}
  /\ sie' = [sie EXCEPT ![h] = FALSE]
  /\ UNCHANGED <<next, serving, pc, ticket, served, irqWasOn>>

\* sret: SIE comes back as it was when the trap was taken.
TrapReturn(h) ==
  /\ h \in inTrap
  /\ pc[<<h, "trap">>] = "outside"
  /\ inTrap' = inTrap \ {h}
  /\ sie' = [sie EXCEPT ![h] = TRUE]
  /\ UNCHANGED <<next, serving, pc, ticket, served, irqWasOn>>

\* What a context does once it has called lock(); it may never call it.
Progress(c) ==
  \/ TakeTicket(c)
  \/ Enter(c)
  \/ LoadServing(c)
  \/ StoreServing(c)
  \/ IrqRestore(c)

Next ==
  \/ \E c \in Context : IrqOff(c) \/ Progress(c)
  \/ \E h \in Hart : TrapEnter(h) \/ TrapReturn(h)

Spec == Init /\ [][Next]_vars

\* A hart that has started a lock() or a handler keeps executing it.
Fairness ==
  /\ \A c \in Context : WF_vars(Progress(c))
  /\ \A h \in Hart : WF_vars(TrapReturn(h))

FairSpec == Spec /\ Fairness

-----------------------------------------------------------------------------
TypeOK ==
  /\ next \in Ticket
  /\ serving \in Ticket
  /\ pc \in [Context -> {"outside", "masked", "waiting", "critical",
                         "releasing", "released"}]
  /\ ticket \in [Context -> Ticket]
  /\ served \in [Context -> Ticket]
  /\ irqWasOn \in [Context -> BOOLEAN]
  /\ sie \in [Hart -> BOOLEAN]
  /\ inTrap \in SUBSET Hart

\* A context holds the lock from the end of acquire() to the store of release().
Holds(c) == pc[c] \in {"critical", "releasing"}

\* Two contexts never hold the lock together, also across the wrap of the u32
\* counters: the claim of Ticket::acquire and Ticket::release.
MutualExclusion ==
  \A c, d \in Context : Holds(c) /\ Holds(d) => c = d

\* No hart is interrupted between taking a ticket and releasing it, so its
\* handler never spins on a lock its own suspended thread owns: the order
\* "mask, then acquire" of lock() and "release, then restore" of drop().
NeverWaitsForItself ==
  \A h \in Hart :
    ~ /\ pc[<<h, "trap">>] = "waiting"
      /\ pc[<<h, "thread">>] \in {"waiting", "critical", "releasing"}

\* No hart starves: the queue is first come, first served, and every lock()
\* that took a ticket gets the lock, whoever else keeps asking for it.
EveryWaiterServed ==
  \A c \in Context : pc[c] = "waiting" ~> pc[c] = "critical"
=============================================================================
