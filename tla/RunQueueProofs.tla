--------------------------- MODULE RunQueueProofs ---------------------------
(***************************************************************************)
(* The ring of dezh-core/src/runq.rs is a first-in first-out queue of any   *)
(* capacity, wherever its two counters have got to.                         *)
(***************************************************************************)
EXTENDS RunQueue, SequenceTheorems, TLAPS

\* A counter names a cell of the buffer.
LEMMA CellOf ==
  ASSUME NEW a \in Nat
  PROVE  a % RUNQ_CAP \in 0 .. RUNQ_CAP - 1
  BY CapAssumption

\* Two numbers with the same remainder are not less than the divisor apart.
LEMMA SameRemainder ==
  ASSUME NEW n \in Nat, n > 0, NEW q \in Int, NEW r \in Int, NEW c \in Int,
         n * q + c < n * r + c, n * r + c < n * q + c + n
  PROVE  FALSE
<1>1. n * q \in Int /\ n * r \in Int
  OBVIOUS
<1>2. n * q < n * r /\ n * r < n * q + n
  BY <1>1
<1>3. CASE r <= q
  <2>1. n * r <= n * q
    BY <1>3
  <2> QED
    BY <1>1, <1>2, <2>1
<1>4. CASE r >= q + 1
  <2>1. n * r >= n * (q + 1)
    BY <1>4
  <2>2. n * (q + 1) = n * q + n
    OBVIOUS
  <2> QED
    BY <1>1, <1>2, <2>1, <2>2
<1> QED
  BY <1>3, <1>4

\* Two counters less than the capacity apart name two cells.
LEMMA CellsDiffer ==
  ASSUME NEW a \in Nat, NEW b \in Nat, a < b, b < a + RUNQ_CAP
  PROVE  a % RUNQ_CAP # b % RUNQ_CAP
<1> SUFFICES ASSUME a % RUNQ_CAP = b % RUNQ_CAP PROVE FALSE
  OBVIOUS
<1>1. RUNQ_CAP \in Nat /\ RUNQ_CAP > 0
  BY CapAssumption
<1>2. a \div RUNQ_CAP \in Int /\ a = RUNQ_CAP * (a \div RUNQ_CAP) + (a % RUNQ_CAP)
  BY <1>1
<1>3. b \div RUNQ_CAP \in Int /\ b = RUNQ_CAP * (b \div RUNQ_CAP) + (b % RUNQ_CAP)
  BY <1>1
<1>4. a % RUNQ_CAP \in Int
  BY <1>1
<1> QED
  BY <1>1, <1>2, <1>3, <1>4, SameRemainder

\* What a sound ring holds is a sequence of items.
LEMMA ItemsAreASequence ==
  ASSUME NEW Item, NEW q, RingSound(q, Item)
  PROVE  /\ RingItems(q) \in Seq(Item) /\ Len(RingItems(q)) = RingLen(q)
         /\ \A i \in 1 .. RingLen(q) : RingItems(q)[i] = q.buf[(q.head + i - 1) % RUNQ_CAP]
<1>1. /\ q.head \in Nat /\ RingLen(q) \in Nat /\ q.buf \in [0 .. RUNQ_CAP - 1 -> Item]
  BY DEF RingSound, Ring, RingLen
<1>2. ASSUME NEW i \in 1 .. RingLen(q)
      PROVE  q.buf[(q.head + i - 1) % RUNQ_CAP] \in Item
  <2>1. q.head + i - 1 \in Nat
    BY <1>1
  <2> QED
    BY <1>1, <2>1, CellOf
<1> QED
  BY <1>1, <1>2 DEF RingItems

\* push() on a ring with room appends the item and keeps the ring sound: the
\* cell it writes holds no item that is still queued.
THEOREM PushAppends ==
  ASSUME NEW Item, NEW q, NEW v \in Item, RingSound(q, Item), ~RingIsFull(q)
  PROVE  /\ RingSound(RingPush(q, v), Item)
         /\ RingItems(RingPush(q, v)) = Append(RingItems(q), v)
<1> DEFINE p == [buf |-> [q.buf EXCEPT ![q.tail % RUNQ_CAP] = v], head |-> q.head,
                 tail |-> q.tail + 1]
<1>1. /\ q \in Ring(Item) /\ q.head \in Nat /\ q.tail \in Nat /\ q.head <= q.tail
      /\ q.tail - q.head < RUNQ_CAP /\ RUNQ_CAP \in Nat /\ RUNQ_CAP > 0
      /\ q.buf \in [0 .. RUNQ_CAP - 1 -> Item]
  BY CapAssumption DEF RingSound, Ring, RingIsFull, RingLen
<1>2. RingPush(q, v) = p
  BY DEF RingPush
<1>3. q.tail % RUNQ_CAP \in 0 .. RUNQ_CAP - 1
  BY <1>1, CellOf
<1>4. /\ p.head = q.head /\ p.tail = q.tail + 1
      /\ p.buf = [q.buf EXCEPT ![q.tail % RUNQ_CAP] = v]
      /\ p \in Ring(Item)
  BY <1>1, <1>3 DEF Ring
<1> HIDE DEF p
<1>5. RingSound(p, Item)
  BY <1>1, <1>4 DEF RingSound, RingLen
<1>6. RingLen(p) = RingLen(q) + 1 /\ RingLen(q) \in Nat
  BY <1>1, <1>4 DEF RingLen
<1>7. p.buf[(p.head + (RingLen(q) + 1) - 1) % RUNQ_CAP] = v
  <2>1. p.head + (RingLen(q) + 1) - 1 = q.tail
    BY <1>1, <1>4 DEF RingLen
  <2> QED
    BY <1>1, <1>3, <1>4, <2>1
<1>8. ASSUME NEW i \in 1 .. RingLen(q)
      PROVE  p.buf[(p.head + i - 1) % RUNQ_CAP] = q.buf[(q.head + i - 1) % RUNQ_CAP]
  <2>1. /\ q.head + i - 1 \in Nat /\ q.head + i - 1 < q.tail
        /\ q.tail < (q.head + i - 1) + RUNQ_CAP
    BY <1>1, <1>6 DEF RingLen
  <2>2. (q.head + i - 1) % RUNQ_CAP # q.tail % RUNQ_CAP
    BY <1>1, <2>1, CellsDiffer
  <2>3. (q.head + i - 1) % RUNQ_CAP \in 0 .. RUNQ_CAP - 1
    BY <2>1, CellOf
  <2> QED
    BY <1>1, <1>4, <2>2, <2>3
<1>9. RingItems(p) = Append(RingItems(q), v)
  <2>1. /\ RingItems(p) \in Seq(Item) /\ Len(RingItems(p)) = RingLen(q) + 1
        /\ \A i \in 1 .. RingLen(q) + 1 :
             RingItems(p)[i] = p.buf[(p.head + i - 1) % RUNQ_CAP]
    BY <1>5, <1>6, ItemsAreASequence
  <2>2. /\ RingItems(q) \in Seq(Item) /\ Len(RingItems(q)) = RingLen(q)
        /\ \A i \in 1 .. RingLen(q) :
             RingItems(q)[i] = q.buf[(q.head + i - 1) % RUNQ_CAP]
    BY ItemsAreASequence
  <2>3. /\ Append(RingItems(q), v) \in Seq(Item)
        /\ Len(Append(RingItems(q), v)) = RingLen(q) + 1
        /\ \A i \in 1 .. RingLen(q) : Append(RingItems(q), v)[i] = RingItems(q)[i]
        /\ Append(RingItems(q), v)[RingLen(q) + 1] = v
    BY <2>2, AppendProperties
  <2>4. ASSUME NEW i \in 1 .. RingLen(q) + 1
        PROVE  RingItems(p)[i] = Append(RingItems(q), v)[i]
    <3>1. CASE i = RingLen(q) + 1
      BY <1>7, <2>1, <2>3, <3>1
    <3>2. CASE i # RingLen(q) + 1
      <4>1. i \in 1 .. RingLen(q)
        BY <1>6, <3>2
      <4> QED
        BY <1>8, <2>1, <2>2, <2>3, <4>1
    <3> QED
      BY <3>1, <3>2
  <2> QED
    BY <2>1, <2>3, <2>4, SeqEqual
<1> QED
  BY <1>2, <1>5, <1>9

\* pop() on a ring that is not empty takes the oldest item and leaves the
\* others in their order.
THEOREM PopTakesTheOldest ==
  ASSUME NEW Item, NEW q, RingSound(q, Item), ~RingIsEmpty(q)
  PROVE  /\ RingSound(RingPop(q), Item)
         /\ RingItems(q) # <<>>
         /\ RingFront(q) = Head(RingItems(q))
         /\ RingItems(RingPop(q)) = Tail(RingItems(q))
<1> DEFINE p == RingPop(q)
<1>1. /\ q \in Ring(Item) /\ q.head \in Nat /\ q.tail \in Nat /\ q.head < q.tail
      /\ q.tail - q.head <= RUNQ_CAP /\ RUNQ_CAP \in Nat /\ RUNQ_CAP > 0
      /\ q.buf \in [0 .. RUNQ_CAP - 1 -> Item]
  BY CapAssumption DEF RingSound, Ring, RingIsEmpty, RingLen
<1>2. p \in Ring(Item) /\ p.head = q.head + 1 /\ p.tail = q.tail /\ p.buf = q.buf
  BY <1>1 DEF RingPop, Ring
<1> HIDE DEF p
<1>3. RingSound(p, Item)
  BY <1>1, <1>2 DEF RingSound, RingLen
<1>4. RingLen(q) \in Nat /\ RingLen(q) >= 1 /\ RingLen(p) = RingLen(q) - 1
  BY <1>1, <1>2 DEF RingLen
<1>5. /\ RingItems(q) \in Seq(Item) /\ Len(RingItems(q)) = RingLen(q)
      /\ \A i \in 1 .. RingLen(q) : RingItems(q)[i] = q.buf[(q.head + i - 1) % RUNQ_CAP]
  BY ItemsAreASequence
<1>6. RingItems(q) # <<>>
  BY <1>4, <1>5
<1>7. RingFront(q) = Head(RingItems(q))
  <2>1. Head(RingItems(q)) = RingItems(q)[1]
    BY <1>5, <1>6
  <2>2. q.head + 1 - 1 = q.head
    BY <1>1
  <2> QED
    BY <1>4, <1>5, <2>1, <2>2 DEF RingFront
<1>8. RingItems(p) = Tail(RingItems(q))
  <2>1. /\ RingItems(p) \in Seq(Item) /\ Len(RingItems(p)) = RingLen(q) - 1
        /\ \A i \in 1 .. RingLen(q) - 1 :
             RingItems(p)[i] = q.buf[(p.head + i - 1) % RUNQ_CAP]
    BY <1>2, <1>3, <1>4, ItemsAreASequence
  <2>2. /\ Tail(RingItems(q)) \in Seq(Item) /\ Len(Tail(RingItems(q))) = RingLen(q) - 1
        /\ \A i \in 1 .. RingLen(q) - 1 : Tail(RingItems(q))[i] = RingItems(q)[i + 1]
    BY <1>4, <1>5, <1>6, HeadTailProperties
  <2>3. ASSUME NEW i \in 1 .. RingLen(q) - 1
        PROVE  RingItems(p)[i] = Tail(RingItems(q))[i]
    <3>1. i + 1 \in 1 .. RingLen(q) /\ p.head + i - 1 = q.head + (i + 1) - 1
      BY <1>1, <1>2, <1>4
    <3> QED
      BY <1>5, <2>1, <2>2, <3>1
  <2> QED
    BY <2>1, <2>2, <2>3, SeqEqual
<1> QED
  BY <1>3, <1>6, <1>7, <1>8 DEF p
=============================================================================
