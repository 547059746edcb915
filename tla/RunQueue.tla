------------------------------ MODULE RunQueue ------------------------------
(***************************************************************************)
(* The ring of dezh-core/src/runq.rs: a buffer of RUNQ_CAP handles, and    *)
(* two counters that only grow and are reduced modulo the capacity when a  *)
(* cell is touched.  Every operation is one section under its caller's     *)
(* ticket lock, so it is an operator on the ring as a value.               *)
(***************************************************************************)
EXTENDS Integers, Sequences

CONSTANT RUNQ_CAP   \* the capacity N of the ring

ASSUME CapAssumption == RUNQ_CAP \in Nat \ {0}

Ring(Item) == [buf : [0 .. RUNQ_CAP - 1 -> Item], head : Nat, tail : Nat]

EmptyRing(blank) ==
  [buf |-> [i \in 0 .. RUNQ_CAP - 1 |-> blank], head |-> 0, tail |-> 0]

RingLen(q) == q.tail - q.head
RingIsEmpty(q) == q.head = q.tail

RingIsFull(q) == RingLen(q) >= RUNQ_CAP

\* push(): a full ring is left alone, and the caller is told.
RingPush(q, v) ==
  IF RingIsFull(q) THEN q
  ELSE [buf |-> [q.buf EXCEPT ![q.tail % RUNQ_CAP] = v], head |-> q.head, tail |-> q.tail + 1]

\* pop(): the oldest item, and the ring without it.
RingFront(q) == q.buf[q.head % RUNQ_CAP]
RingPop(q) == [q EXCEPT !.head = @ + 1]

\* What the ring holds, oldest first.
RingItems(q) == [i \in 1 .. RingLen(q) |-> q.buf[(q.head + i - 1) % RUNQ_CAP]]

RingSound(q, Item) ==
  /\ q \in Ring(Item)
  /\ q.head <= q.tail
  /\ RingLen(q) <= RUNQ_CAP
=============================================================================
