-------------------------- MODULE TicketLockProofs --------------------------
(***************************************************************************)
(* TicketLock keeps its type, masks its own hart and excludes all others,  *)
(* for any finite set of harts and any width of the counters that leaves   *)
(* more ticket values than harts.                                          *)
(***************************************************************************)
EXTENDS TicketLock, FiniteSetTheorems, TLAPS

\* THE TYPE.  Wrapping keeps both counters inside their width.
LEMMA TypeStep == TypeOK /\ [Next]_vars => TypeOK'
<1> SUFFICES ASSUME TypeOK, [Next]_vars
             PROVE  TypeOK'
  OBVIOUS
<1> USE TicketAssumption DEF TypeOK, Ticket
<1>0. \A x \in 0 .. MaxTicket : WrappingInc(x) \in 0 .. MaxTicket
  BY DEF WrappingInc
<1>1. ASSUME NEW c \in Context, IrqOff(c)
      PROVE  TypeOK'
  <2>1. HartOf(c) \in Hart
    BY DEF Context, HartOf
  <2> QED
    BY <1>1, <2>1 DEF IrqOff
<1>2. ASSUME NEW c \in Context, Progress(c)
      PROVE  TypeOK'
  <2>1. CASE TakeTicket(c)
    BY <2>1, <1>0 DEF TakeTicket
  <2>2. CASE Enter(c)
    BY <2>2 DEF Enter
  <2>3. CASE LoadServing(c)
    BY <2>3 DEF LoadServing
  <2>4. CASE StoreServing(c)
    <3>1. served[c] \in 0 .. MaxTicket
      OBVIOUS
    <3> QED
      BY <2>4, <3>1, <1>0 DEF StoreServing
  <2>5. CASE IrqRestore(c)
    <3>1. HartOf(c) \in Hart
      BY DEF Context, HartOf
    <3>2. (sie[HartOf(c)] \/ irqWasOn[c]) \in BOOLEAN
      OBVIOUS
    <3> QED
      BY <2>5, <3>1, <3>2 DEF IrqRestore
  <2> QED
    BY <1>2, <2>1, <2>2, <2>3, <2>4, <2>5 DEF Progress
<1>3. ASSUME NEW h \in Hart, TrapEnter(h) \/ TrapReturn(h)
      PROVE  TypeOK'
  BY <1>3 DEF TrapEnter, TrapReturn
<1>4. CASE UNCHANGED vars
  BY <1>4 DEF vars
<1> QED
  BY <1>1, <1>2, <1>3, <1>4 DEF Next

\* The counters, tickets and interrupt states of lock() and drop() keep their
\* types for ever; in particular no counter leaves its width.
THEOREM TypeCorrect == Spec => []TypeOK
<1>1. Init => TypeOK
  BY TicketAssumption DEF Init, TypeOK, Ticket
<1> QED
  BY <1>1, TypeStep, PTL DEF Spec

-----------------------------------------------------------------------------
(* MASKING.  A context inside lock() .. drop() runs with interrupts off, so  *)
(* the other context of its hart is outside.                                 *)

Thread(h) == <<h, "thread">>
Trap(h) == <<h, "trap">>

Masked ==
  \A h \in Hart :
    /\ pc[Thread(h)] # "outside" => ~sie[h] /\ h \notin inTrap
    /\ pc[Trap(h)] # "outside" => ~sie[h] /\ h \in inTrap
    /\ h \in inTrap => ~sie[h]
    /\ ~irqWasOn[Trap(h)]

LEMMA ContextForms ==
  ASSUME NEW c \in Context
  PROVE  /\ HartOf(c) \in Hart
         /\ c = Thread(HartOf(c)) \/ c = Trap(HartOf(c))
BY DEF Context, HartOf, Thread, Trap

LEMMA FormsDiffer ==
  ASSUME NEW g \in Hart, NEW h \in Hart
  PROVE  /\ Thread(g) \in Context
         /\ Trap(g) \in Context
         /\ Thread(g) # Trap(h)
         /\ Thread(g) = Thread(h) => g = h
         /\ Trap(g) = Trap(h) => g = h
         /\ HartOf(Thread(g)) = g
         /\ HartOf(Trap(g)) = g
BY DEF Context, Thread, Trap, HartOf

LEMMA MaskedStep == TypeOK /\ Masked /\ [Next]_vars => Masked'
<1> SUFFICES ASSUME TypeOK, Masked, [Next]_vars, NEW h \in Hart
             PROVE  /\ pc'[Thread(h)] # "outside" => ~sie'[h] /\ h \notin inTrap'
                    /\ pc'[Trap(h)] # "outside" => ~sie'[h] /\ h \in inTrap'
                    /\ h \in inTrap' => ~sie'[h]
                    /\ ~irqWasOn'[Trap(h)]
  BY DEF Masked
<1>0. /\ pc[Thread(h)] # "outside" => ~sie[h] /\ h \notin inTrap
      /\ pc[Trap(h)] # "outside" => ~sie[h] /\ h \in inTrap
      /\ h \in inTrap => ~sie[h]
      /\ ~irqWasOn[Trap(h)]
  BY DEF Masked
<1>1. ASSUME NEW c \in Context, IrqOff(c) \/ Progress(c)
      PROVE  /\ pc'[Thread(h)] # "outside" => ~sie'[h] /\ h \notin inTrap'
             /\ pc'[Trap(h)] # "outside" => ~sie'[h] /\ h \in inTrap'
             /\ h \in inTrap' => ~sie'[h]
             /\ ~irqWasOn'[Trap(h)]
  <2> DEFINE g == HartOf(c)
  <2>1. g \in Hart /\ (c = Thread(g) \/ c = Trap(g))
    BY ContextForms
  <2>2. /\ c = Thread(g) => g \notin inTrap
        /\ c = Trap(g) => g \in inTrap
    BY <1>1, <2>1, FormsDiffer
       DEF Runs, Thread, Trap, IrqOff, Progress, TakeTicket, Enter, LoadServing,
           StoreServing, IrqRestore
  <2>3. CASE IrqOff(c)
    BY <1>0, <2>1, <2>2, <2>3, FormsDiffer DEF IrqOff, TypeOK, Masked
  <2>4. CASE TakeTicket(c) \/ Enter(c) \/ LoadServing(c) \/ StoreServing(c)
    BY <1>0, <2>1, <2>2, <2>4, FormsDiffer
       DEF TakeTicket, Enter, LoadServing, StoreServing, TypeOK
  <2>5. CASE IrqRestore(c)
    BY <1>0, <2>1, <2>2, <2>5, FormsDiffer DEF IrqRestore, TypeOK, Masked
  <2> QED
    BY <1>1, <2>3, <2>4, <2>5 DEF Progress
<1>2. ASSUME NEW g \in Hart, TrapEnter(g) \/ TrapReturn(g)
      PROVE  /\ pc'[Thread(h)] # "outside" => ~sie'[h] /\ h \notin inTrap'
             /\ pc'[Trap(h)] # "outside" => ~sie'[h] /\ h \in inTrap'
             /\ h \in inTrap' => ~sie'[h]
             /\ ~irqWasOn'[Trap(h)]
  BY <1>0, <1>2 DEF TrapEnter, TrapReturn, TypeOK, Masked, Trap
<1>3. CASE UNCHANGED vars
  BY <1>0, <1>3 DEF vars
<1> QED
  BY <1>1, <1>2, <1>3 DEF Next

\* In the masked states a hart's handler and its thread are not both inside.
LEMMA OneContextPerHart ==
  ASSUME Masked, NEW c \in Context, NEW d \in Context,
         pc[c] # "outside", pc[d] # "outside", HartOf(c) = HartOf(d)
  PROVE  c = d
BY ContextForms DEF Masked

\* No handler waits for the lock while its own suspended thread has a ticket:
\* lock() masks before it takes one and drop() restores after the release.
THEOREM HandlerNeverWaitsForItself == Spec => []NeverWaitsForItself
<1>1. Init => Masked
  BY FormsDiffer DEF Init, Masked
<1>2. Masked => NeverWaitsForItself
  BY DEF Masked, NeverWaitsForItself, Thread, Trap
<1> QED
  BY <1>1, <1>2, MaskedStep, TypeCorrect, PTL DEF Spec

-----------------------------------------------------------------------------
(* THE QUEUE.  Seen from `serving`, the outstanding tickets are the numbers  *)
(* 0, 1, ..., n - 1 without gap or repetition, and `next` is n.              *)

Queued == {c \in Context : pc[c] \in {"waiting", "critical", "releasing"}}

\* Releases that take `serving` from s to t.
Dist(s, t) == IF t >= s THEN t - s ELSE t + MaxTicket + 1 - s

Queue ==
  /\ \A c \in Queued : Dist(serving, ticket[c]) < Dist(serving, next)
  /\ \A c, d \in Queued : ticket[c] = ticket[d] => c = d
  /\ \A k \in 0 .. Dist(serving, next) - 1 : \E c \in Queued : Dist(serving, ticket[c]) = k
  /\ \A c \in Queued : Holds(c) => ticket[c] = serving
  /\ \A c \in Queued : pc[c] = "releasing" => served[c] = serving

LEMMA DistProps ==
  ASSUME NEW s \in Ticket, NEW t \in Ticket
  PROVE  /\ Dist(s, t) \in 0 .. MaxTicket
         /\ \A u \in Ticket : Dist(s, t) = Dist(s, u) => t = u
         /\ Dist(s, s) = 0
         /\ Dist(s, t) < MaxTicket => Dist(s, WrappingInc(t)) = Dist(s, t) + 1
         /\ s # t => Dist(WrappingInc(s), t) = Dist(s, t) - 1
         /\ WrappingInc(t) \in Ticket
BY TicketAssumption DEF Ticket, Dist, WrappingInc

\* A hart that is about to take a ticket finds one that nobody holds: the other
\* harts have one each at most, and there are more tickets than harts.
LEMMA RoomForOneMore ==
  ASSUME TypeOK, Masked, Queue, NEW c \in Context, pc[c] = "masked"
  PROVE  Dist(serving, next) < MaxTicket
<1> DEFINE n == Dist(serving, next)
           S == 0 .. n - 1
           Others == Hart \ {HartOf(c)}
           f == [k \in S |-> HartOf(CHOOSE d \in Queued : Dist(serving, ticket[d]) = k)]
<1>1. n \in Nat
  BY DistProps DEF TypeOK, Ticket
<1>2. IsFiniteSet(S) /\ Cardinality(S) = n
  BY SMTT(30), <1>1, FS_Interval
<1>3. HartOf(c) \in Hart
  BY ContextForms
<1>4. IsFiniteSet(Others) /\ Cardinality(Others) = Cardinality(Hart) - 1
  BY <1>3, FS_RemoveElement, TicketAssumption
<1>5. ASSUME NEW k \in S
      PROVE  \E d \in Queued : Dist(serving, ticket[d]) = k /\ f[k] = HartOf(d)
  <2>1. \E d \in Queued : Dist(serving, ticket[d]) = k
    BY DEF Queue
  <2> QED
    BY <2>1
<1>6. ASSUME NEW k \in S
      PROVE  f[k] \in Others
  <2>1. PICK d \in Queued : f[k] = HartOf(d)
    BY <1>5
  <2>2. d \in Context /\ pc[d] # "outside" /\ pc[d] # "masked"
    BY DEF Queued
  <2>3. HartOf(d) # HartOf(c)
    BY <2>2, OneContextPerHart
  <2> QED
    BY <2>1, <2>2, <2>3, ContextForms
<1>7. f \in [S -> Others]
  BY <1>6
<1>8. ASSUME NEW x \in S, NEW y \in S, f[x] = f[y]
      PROVE  x = y
  <2>1. PICK d \in Queued : Dist(serving, ticket[d]) = x /\ f[x] = HartOf(d)
    BY <1>5
  <2>2. PICK e \in Queued : Dist(serving, ticket[e]) = y /\ f[y] = HartOf(e)
    BY <1>5
  <2>3. d = e
    BY <1>8, <2>1, <2>2, OneContextPerHart DEF Queued
  <2> QED
    BY <2>1, <2>2, <2>3
<1> HIDE DEF f, S, Others
<1>9. ~(Cardinality(Others) < Cardinality(S))
  BY <1>2, <1>4, <1>7, <1>8, FS_PigeonHole
<1> QED
  BY <1>1, <1>2, <1>4, <1>9, TicketAssumption, FS_CardinalityType

LEMMA QueueStep == TypeOK /\ Masked /\ Queue /\ [Next]_vars => Queue'
<1> SUFFICES ASSUME TypeOK, Masked, Queue, [Next]_vars
             PROVE  Queue'
  OBVIOUS
<1>0. /\ next \in Ticket /\ serving \in Ticket
      /\ \A c \in Context : ticket[c] \in Ticket /\ served[c] \in Ticket
  BY DEF TypeOK
<1> DEFINE n == Dist(serving, next)
<1>n. n \in 0 .. MaxTicket
  BY <1>0, DistProps
\* The new ticket joins the queue at its end.
<1>1. ASSUME NEW c \in Context, TakeTicket(c)
      PROVE  Queue'
  <2>1. /\ n < MaxTicket
        /\ Dist(serving', next') = n + 1
    BY <1>0, <1>1, RoomForOneMore, DistProps DEF TakeTicket
  <2>2. Queued' = Queued \cup {c} /\ c \notin Queued
    BY <1>1 DEF Queued, TakeTicket, TypeOK
  <2>3. /\ ticket'[c] = next
        /\ \A d \in Queued : ticket'[d] = ticket[d] /\ pc'[d] = pc[d]
    BY <1>1, <2>2 DEF TakeTicket, TypeOK, Queued
  <2>4. \A d \in Queued : Dist(serving, ticket[d]) < n /\ ticket[d] # next
    BY <1>0, <1>n DEF Queue
  <2>5. \A d \in Queued' : Dist(serving', ticket'[d]) < Dist(serving', next')
    BY <1>0, <1>1, <1>n, <2>1, <2>2, <2>3, <2>4, DistProps DEF TakeTicket, Queued
  <2>6. \A d, e \in Queued' : ticket'[d] = ticket'[e] => d = e
    BY <2>2, <2>3, <2>4 DEF Queue
  <2>7. ASSUME NEW k \in 0 .. Dist(serving', next') - 1
        PROVE  \E d \in Queued' : Dist(serving', ticket'[d]) = k
    <3>1. CASE k = n
      BY <1>1, <2>2, <2>3, <3>1 DEF TakeTicket
    <3>2. CASE k # n
      <4>1. k \in 0 .. n - 1
        BY <1>n, <2>1, <3>2
      <4> QED
        BY <1>1, <2>2, <2>3, <4>1 DEF TakeTicket, Queue
    <3> QED
      BY <3>1, <3>2
  <2>8. \A d \in Queued' : /\ Holds(d)' => ticket'[d] = serving'
                           /\ pc'[d] = "releasing" => served'[d] = serving'
    BY <1>1, <2>2, <2>3 DEF TakeTicket, Queue, Holds, Queued, TypeOK
  <2> QED
    BY <2>5, <2>6, <2>7, <2>8 DEF Queue
\* The release removes the head, and everyone else moves up by one.
<1>2. ASSUME NEW c \in Context, StoreServing(c)
      PROVE  Queue'
  <2>1. /\ c \in Queued /\ ticket[c] = serving /\ served[c] = serving
        /\ Queued' = Queued \ {c}
        /\ serving' = WrappingInc(serving) /\ next' = next
    BY <1>2 DEF StoreServing, Queue, Queued, Holds, TypeOK
  <2>2. \A d \in Queued \ {c} :
          ticket'[d] = ticket[d] /\ served'[d] = served[d] /\ pc'[d] = pc[d]
    BY <1>2 DEF StoreServing, TypeOK, Queued
  <2>3. next # serving
    BY <1>0, <2>1, DistProps DEF Queue
  <2>4. Dist(serving', next') = n - 1
    BY <1>0, <2>1, <2>3, DistProps
  <2>5. \A d \in Queued \ {c} : /\ ticket[d] # serving
                                /\ Dist(serving', ticket[d]) = Dist(serving, ticket[d]) - 1
    <3>1. \A d \in Queued \ {c} : ticket[d] # serving /\ ticket[d] \in Ticket
      BY <1>0, <2>1 DEF Queue, Queued
    <3> QED
      BY <1>0, <2>1, <3>1, DistProps
  <2>6. \A d \in Queued' : Dist(serving', ticket'[d]) < Dist(serving', next')
    <3>1. \A d \in Queued : Dist(serving, ticket[d]) \in 0 .. MaxTicket
      BY <1>0, DistProps DEF Queued
    <3> QED
      BY <1>n, <2>1, <2>2, <2>4, <2>5, <3>1 DEF Queue
  <2>7. \A d, e \in Queued' : ticket'[d] = ticket'[e] => d = e
    BY <2>1, <2>2 DEF Queue
  <2>8. ASSUME NEW k \in 0 .. Dist(serving', next') - 1
        PROVE  \E d \in Queued' : Dist(serving', ticket'[d]) = k
    <3>1. k + 1 \in 0 .. n - 1 /\ k + 1 # 0 /\ k \in Nat
      BY <1>n, <2>4
    <3>2. PICK d \in Queued : Dist(serving, ticket[d]) = k + 1
      BY <3>1 DEF Queue
    <3>3. d # c
      BY <1>0, <2>1, <3>1, <3>2, DistProps
    <3> QED
      BY <2>1, <2>2, <2>5, <3>1, <3>2, <3>3
  <2>9. \A d \in Queued' : ~Holds(d)'
    BY <2>1, <2>2, <2>5 DEF Queue, Holds
  <2> QED
    BY <2>6, <2>7, <2>8, <2>9 DEF Queue, Holds
\* Entering and loading change neither counter, ticket nor queue.
<1>3. ASSUME NEW c \in Context, Enter(c) \/ LoadServing(c)
      PROVE  Queue'
  <2>1. Queued' = Queued /\ UNCHANGED <<next, serving, ticket>>
    BY <1>3 DEF Enter, LoadServing, Queued, TypeOK
  <2>2. \A d \in Queued : /\ Holds(d)' => ticket[d] = serving
                          /\ pc'[d] = "releasing" => served'[d] = serving
    BY <1>3 DEF Enter, LoadServing, Queued, TypeOK, Queue, Holds
  <2> QED
    BY <2>1, <2>2 DEF Queue
\* All other steps are outside the queue.
<1>4. ASSUME Queued' = Queued, UNCHANGED <<next, serving, ticket, served>>,
             \A c \in Queued : pc'[c] = pc[c]
      PROVE  Queue'
  BY <1>4 DEF Queue, Holds
<1>5. ASSUME NEW c \in Context, IrqOff(c) \/ IrqRestore(c)
      PROVE  Queue'
  BY <1>4, <1>5 DEF IrqOff, IrqRestore, Queued, TypeOK
<1>6. ASSUME NEW h \in Hart, TrapEnter(h) \/ TrapReturn(h)
      PROVE  Queue'
  BY <1>4, <1>6 DEF TrapEnter, TrapReturn, Queued
<1>7. CASE UNCHANGED vars
  BY <1>4, <1>7 DEF vars, Queued
<1> QED
  BY <1>1, <1>2, <1>3, <1>5, <1>6, <1>7 DEF Next, Progress

\* At most one context holds the lock, whatever the number of harts and however
\* often the counters have wrapped.
THEOREM LockExcludes == Spec => []MutualExclusion
<1>1. Init => Queue /\ Masked
  <2> SUFFICES ASSUME Init
               PROVE  Queue /\ Masked
    OBVIOUS
  <2>1. Queued = {} /\ Dist(serving, next) = 0
    BY DEF Init, Queued, Dist
  <2> QED
    BY <2>1, FormsDiffer DEF Init, Queue, Masked
<1>2. Queue => MutualExclusion
  BY DEF Queue, MutualExclusion, Holds, Queued
<1> QED
  BY <1>1, <1>2, QueueStep, MaskedStep, TypeCorrect, PTL DEF Spec
=============================================================================
