-------------------------- MODULE StructuresProofs --------------------------
(***************************************************************************)
(* What TLAPS proves of the data structures the threads are built on: the  *)
(* ring buffer (module RingQueue), for every number of producers, items    *)
(* and slots, the object pool (module ObjectPool), for any size of the     *)
(* chunks and any number of them, and the blocks of the access log (module *)
(* AccessLog), for any threads, records, rotations and failures.           *)
(***************************************************************************)
EXTENDS RingQueue, ObjectPool, AccessLog, FiniteSetTheorems, FunctionTheorems,
        SequenceTheorems, WellFoundedInduction, TLAPS

-----------------------------------------------------------------------------
(* The ring buffer.                                                        *)

(* The types of the variables the consumer and the producers share.        *)
Cells == Items \cup {NoItem}

(* Advancing an index wraps it at the end of the ring.                     *)
LEMMA Wrap ==
  ASSUME NEW i \in 0 .. 2 * max_items - 1
  PROVE  i % max_items = IF i < max_items THEN i ELSE i - max_items
<1>1. max_items \in Nat /\ max_items > 0 BY RingAssumption
<1>2. CASE i < max_items BY <1>1, <1>2
<1>3. CASE i >= max_items BY <1>1, <1>3
<1> QED BY <1>1, <1>2, <1>3

(* The slot behind a slot.                                                 *)
LEMMA Successor ==
  ASSUME NEW s \in Slots
  PROVE  /\ (s + 1) % max_items \in Slots
         /\ (s + 1) % max_items = IF s + 1 = max_items THEN 0 ELSE s + 1
<1>1. max_items \in Nat /\ max_items > 0 BY RingAssumption
<1>2. s + 1 \in 0 .. 2 * max_items - 1 BY <1>1 DEF Slots
<1> QED BY <1>1, <1>2, Wrap DEF Slots

(* The k-th slot from the next slot is the one behind the k-th from here.  *)
LEMMA SlotBehind ==
  ASSUME NEW h \in Slots, NEW n \in Slots, n = IF h + 1 = max_items THEN 0 ELSE h + 1,
         NEW k \in 1 .. max_items - 1
  PROVE  (n + k - 1) % max_items = (h + (k + 1) - 1) % max_items
<1>1. max_items \in Nat /\ max_items > 0 BY RingAssumption
<1> DEFINE a == n + k - 1
           b == h + (k + 1) - 1
<1>2. /\ a \in 0 .. 2 * max_items - 1 /\ b \in 0 .. 2 * max_items - 1
      /\ a = b \/ a = b - max_items
      /\ a = b - max_items => b >= max_items
  BY <1>1 DEF Slots
<1> HIDE DEF a, b
<1>3. a % max_items = b % max_items BY <1>1, <1>2, Wrap
<1> QED BY <1>3 DEF a, b

-----------------------------------------------------------------------------
(* The invariant.                                                          *)

LEMMA RingInvInit == nx_queue_init => RingInv
<1> SUFFICES ASSUME nx_queue_init PROVE RingInv OBVIOUS
<1>1. 0 \in Slots BY RingAssumption DEF Slots
<1>2. RingTypeOK BY <1>1 DEF nx_queue_init, RingTypeOK
<1> QED BY <1>2, RingAssumption DEF nx_queue_init, RingInv

(* Steps of a producer inside nx_queue_push.                               *)
LEMMA RingInvProducer ==
  ASSUME RingInv, NEW p \in Producers,
         \/ \E i \in Items : Lock(p, i)
         \/ PushTest(p) \/ PushWrite(p) \/ PushAdvance(p) \/ Unlock(p)
  PROVE  RingInv'
<1> USE RingAssumption DEF RingInv, RingTypeOK, consumerVars
<1>1. ASSUME NEW i \in Items, Lock(p, i) PROVE RingInv'
  BY <1>1 DEF Lock, nx_queue_is_full, nx_queue_is_empty
<1>2. CASE PushTest(p)
  BY <1>2 DEF PushTest, nx_queue_is_full, nx_queue_is_empty
<1>3. CASE PushWrite(p)
  BY <1>3 DEF PushWrite, nx_queue_is_full, nx_queue_is_empty
<1>4. CASE PushAdvance(p)
  <2>1. tail' \in Slots /\ tail' # head BY <1>4, Successor DEF PushAdvance, nx_queue_is_full
  <2> QED BY <1>4, <2>1 DEF PushAdvance, nx_queue_is_full, nx_queue_is_empty
<1>5. CASE Unlock(p)
  BY <1>5 DEF Unlock, nx_queue_is_full, nx_queue_is_empty
<1> QED BY <1>1, <1>2, <1>3, <1>4, <1>5

(* Steps of the consumer, in nx_queue_pop and nx_queue_length.             *)
LEMMA RingInvConsumer ==
  ASSUME RingInv, PopTest \/ PopRead \/ PopAdvance \/ TakeLength
  PROVE  RingInv'
<1> USE RingAssumption DEF RingInv, RingTypeOK, producerVars
<1>1. CASE PopTest
  BY <1>1 DEF PopTest, nx_queue_is_full, nx_queue_is_empty
<1>2. CASE PopRead
  BY <1>2 DEF PopRead, nx_queue_is_full, nx_queue_is_empty
<1>3. CASE PopAdvance
  <2>1. head' \in Slots BY <1>3, Successor DEF PopAdvance
  <2>2. head # tail BY <1>3 DEF PopAdvance, nx_queue_is_empty
  <2>3. head' # (tail + 1) % max_items BY <1>3, <2>2, Successor DEF PopAdvance, Slots
  <2> QED BY <1>3, <2>1, <2>3 DEF PopAdvance, nx_queue_is_full, nx_queue_is_empty
<1>4. CASE TakeLength
  <2>1. length' \in Int BY <1>4 DEF TakeLength, nx_queue_length, Slots
  <2> QED BY <1>4, <2>1 DEF TakeLength, nx_queue_is_full, nx_queue_is_empty
<1> QED BY <1>1, <1>2, <1>3, <1>4

(* nx_queue_push and nx_queue_pop keep the invariant between all of their  *)
(* steps.                                                                  *)
THEOREM RingInvariant == RingSpec => []RingInv
<1>1. RingInv /\ [RingNext]_ringVars => RingInv'
  <2> SUFFICES ASSUME RingInv, [RingNext]_ringVars PROVE RingInv' OBVIOUS
  <2>1. CASE RingNext BY <2>1, RingInvProducer, RingInvConsumer DEF RingNext
  <2>2. CASE UNCHANGED ringVars
    BY <2>2 DEF ringVars, RingInv, RingTypeOK, nx_queue_is_full, nx_queue_is_empty
  <2> QED BY <2>1, <2>2
<1> QED BY <1>1, RingInvInit, PTL DEF RingSpec

(* The indices of the ring stay inside it, and every field has its type,   *)
(* whatever producers and consumer do between each other's steps.          *)
THEOREM RingTypeCorrect == RingSpec => []RingTypeOK
<1>1. RingInv => RingTypeOK BY DEF RingInv
<1> QED BY <1>1, RingInvariant, PTL

(* The slots are plain memory: nx_queue_push and nx_queue_pop, which takes *)
(* no lock, are never at the same slot, and no two pushes overlap.         *)
THEOREM SlotsNotShared == RingSpec => []NoSlotRace
<1>1. RingInv => NoSlotRace
  BY RingAssumption DEF RingInv, NoSlotRace, nx_queue_is_empty
<1> QED BY <1>1, RingInvariant, PTL

-----------------------------------------------------------------------------
(* The queue the occupied slots form.                                      *)

(* How many slots are occupied.                                            *)
LEMMA OccupiedSlots ==
  ASSUME head \in Slots, tail \in Slots
  PROVE  /\ Occupied = IF head <= tail THEN tail - head ELSE tail - head + max_items
         /\ Occupied \in 0 .. max_items - 1
<1>1. max_items \in Nat /\ max_items > 0 BY RingAssumption
<1>2. tail - head + max_items \in 0 .. 2 * max_items - 1 BY <1>1 DEF Slots
<1> QED BY <1>1, <1>2, Wrap DEF Occupied, Slots

(* Which slot the k-th item of the queue is in.                            *)
LEMMA OccupiedSlot ==
  ASSUME head \in Slots, tail \in Slots, NEW k \in 1 .. max_items
  PROVE  /\ (head + k - 1) % max_items \in Slots
         /\ (head + k - 1) % max_items =
              IF head + k - 1 < max_items THEN head + k - 1 ELSE head + k - 1 - max_items
<1>1. max_items \in Nat /\ max_items > 0 BY RingAssumption
<1>2. head + k - 1 \in 0 .. 2 * max_items - 1 BY <1>1 DEF Slots
<1> QED BY <1>1, <1>2, Wrap DEF Slots

(* The queue is a sequence as long as there are occupied slots.            *)
LEMMA ContentsSeq ==
  ASSUME RingTypeOK
  PROVE  /\ RingContents \in Seq(Cells)
         /\ Len(RingContents) = Occupied
         /\ \A k \in 1 .. Occupied : RingContents[k] = items[(head + k - 1) % max_items]
<1>1. Occupied \in Nat /\ Occupied <= max_items BY OccupiedSlots, RingAssumption DEF RingTypeOK
<1>2. \A k \in 1 .. Occupied : items[(head + k - 1) % max_items] \in Cells
  BY <1>1, OccupiedSlot, RingAssumption DEF RingTypeOK, Cells
<1>3. RingContents \in [1 .. Occupied -> Cells] BY <1>2 DEF RingContents
<1>4. RingContents \in Seq(Cells) BY <1>1, <1>3
<1> QED BY <1>1, <1>3, <1>4 DEF RingContents

(* nx_queue_length, taken by nxw_gc_factory while producers move the tail, *)
(* is the number of items in the queue at that moment.                     *)
THEOREM LengthIsExact == RingSpec => LengthExact
<1>1. RingInv /\ TakeLength => length' = Len(RingContents)
  <2> SUFFICES ASSUME RingInv, TakeLength PROVE length' = Len(RingContents) OBVIOUS
  <2>1. length' = Occupied
    BY OccupiedSlots, RingAssumption DEF RingInv, RingTypeOK, TakeLength, nx_queue_length, Slots
  <2> QED BY <2>1, ContentsSeq DEF RingInv
<1>2. RingInv /\ [RingNext]_ringVars => [TakeLength => length' = Len(RingContents)]_ringVars
  BY <1>1
<1> QED BY <1>2, RingInvariant, PTL DEF RingSpec, LengthExact

-----------------------------------------------------------------------------
(* The refinement: every step of the ring is a step of BoundedFifo, or     *)
(* leaves its state alone.                                                 *)

(* The queue only depends on the occupied slots and the indices.           *)
LEMMA ContentsKept ==
  ASSUME RingTypeOK, RingTypeOK', head' = head, tail' = tail,
         \A s \in Slots : s # tail => items'[s] = items[s]
  PROVE  RingContents' = RingContents
<1>1. /\ Occupied' = Occupied /\ Occupied \in 0 .. max_items - 1
      /\ Occupied = IF head <= tail THEN tail - head ELSE tail - head + max_items
  BY OccupiedSlots DEF RingTypeOK, Occupied
<1>2. ASSUME NEW k \in 1 .. Occupied
      PROVE  items'[(head + k - 1) % max_items] = items[(head + k - 1) % max_items]
  <2>1. max_items \in Nat /\ k \in 1 .. max_items BY <1>1, RingAssumption
  <2>2. head \in Slots /\ tail \in Slots BY DEF RingTypeOK
  <2>3. /\ (head + k - 1) % max_items \in Slots
        /\ (head + k - 1) % max_items =
             IF head + k - 1 < max_items THEN head + k - 1 ELSE head + k - 1 - max_items
    BY <2>1, <2>2, OccupiedSlot
  <2>4. (head + k - 1) % max_items # tail BY <1>1, <2>1, <2>2, <2>3 DEF Slots
  <2> QED BY <2>3, <2>4
<1> QED BY <1>1, <1>2 DEF RingContents

(* nx_queue_push moves the tail: the item is appended.                     *)
LEMMA ContentsPushed ==
  ASSUME RingTypeOK, RingTypeOK', ~ nx_queue_is_full,
         head' = head, items' = items, tail' = (tail + 1) % max_items
  PROVE  /\ Len(RingContents) < max_items - 1
         /\ RingContents' = Append(RingContents, items[tail])
<1> USE DEF RingTypeOK
<1>1. max_items \in Nat /\ max_items > 0 BY RingAssumption
<1>2. /\ Occupied \in 0 .. max_items - 1
      /\ Occupied = IF head <= tail THEN tail - head ELSE tail - head + max_items
  BY OccupiedSlots
<1>3. tail' = IF tail + 1 = max_items THEN 0 ELSE tail + 1 BY Successor
<1>4. Occupied' = IF head' <= tail' THEN tail' - head' ELSE tail' - head' + max_items
  <2>1. tail' - head' + max_items \in 0 .. 2 * max_items - 1 BY <1>1 DEF Slots
  <2> QED BY <1>1, <2>1, Wrap DEF Occupied, Slots
<1>5. Occupied + 1 <= max_items - 1 /\ Occupied' = Occupied + 1
  BY <1>1, <1>2, <1>3, <1>4 DEF nx_queue_is_full, Slots
<1>6. (head + (Occupied + 1) - 1) % max_items = tail
  <2> DEFINE k == Occupied + 1
  <2>1. k \in 1 .. max_items BY <1>1, <1>2, <1>5
  <2>2. k = IF head <= tail THEN tail - head + 1 ELSE tail - head + max_items + 1
    BY <1>2
  <2> HIDE DEF k
  <2>3. (head + k - 1) % max_items =
          IF head + k - 1 < max_items THEN head + k - 1 ELSE head + k - 1 - max_items
    BY <2>1, OccupiedSlot
  <2>4. (IF head + k - 1 < max_items THEN head + k - 1 ELSE head + k - 1 - max_items) = tail
    BY <1>1, <2>1, <2>2 DEF Slots
  <2>5. (head + k - 1) % max_items = tail BY <2>3, <2>4
  <2> QED BY <2>5 DEF k
<1>7. items[tail] \in Cells BY DEF Cells
<1>8. /\ RingContents' \in [1 .. Occupied + 1 -> Cells]
      /\ \A k \in 1 .. Occupied + 1 : RingContents'[k] = items[(head + k - 1) % max_items]
  <2>1. \A k \in 1 .. Occupied + 1 : k \in 1 .. max_items BY <1>1, <1>2, <1>5
  <2>2. \A k \in 1 .. Occupied + 1 : items[(head + k - 1) % max_items] \in Cells
    BY <2>1, OccupiedSlot DEF Cells
  <2> QED BY <1>5, <2>2 DEF RingContents
<1>9. RingContents' \in Seq(Cells) /\ Len(RingContents') = Occupied + 1
  <2>1. Occupied + 1 \in Nat BY <1>2
  <2> QED BY <2>1, <1>8
<1>10. /\ Append(RingContents, items[tail]) \in Seq(Cells)
       /\ Len(Append(RingContents, items[tail])) = Occupied + 1
       /\ \A k \in 1 .. Occupied : Append(RingContents, items[tail])[k] = RingContents[k]
       /\ Append(RingContents, items[tail])[Occupied + 1] = items[tail]
  BY <1>7, ContentsSeq, AppendProperties
<1>11. \A k \in 1 .. Occupied + 1 : RingContents'[k] = Append(RingContents, items[tail])[k]
  <2> SUFFICES ASSUME NEW k \in 1 .. Occupied + 1
               PROVE  RingContents'[k] = Append(RingContents, items[tail])[k]
    OBVIOUS
  <2>1. CASE k = Occupied + 1 BY <2>1, <1>6, <1>8, <1>10
  <2>2. CASE k \in 1 .. Occupied BY <2>2, <1>8, <1>10, ContentsSeq
  <2>3. k = Occupied + 1 \/ k \in 1 .. Occupied BY <1>2
  <2> QED BY <2>1, <2>2, <2>3
<1>12. RingContents' = Append(RingContents, items[tail])
  BY <1>9, <1>10, <1>11, SeqEqual
<1>13. Len(RingContents) = Occupied BY ContentsSeq
<1>14. Len(RingContents) < max_items - 1 BY <1>1, <1>2, <1>5, <1>13
<1> QED BY <1>12, <1>14

(* nx_queue_pop moves the head: the first item is gone.                    *)
LEMMA ContentsPopped ==
  ASSUME RingTypeOK, RingTypeOK', ~ nx_queue_is_empty,
         tail' = tail, items' = items, head' = (head + 1) % max_items
  PROVE  /\ RingContents # <<>>
         /\ Head(RingContents) = items[head]
         /\ RingContents' = Tail(RingContents)
<1> USE DEF RingTypeOK
<1>1. max_items \in Nat /\ max_items > 0 BY RingAssumption
<1>2. /\ Occupied \in 0 .. max_items - 1
      /\ Occupied = IF head <= tail THEN tail - head ELSE tail - head + max_items
  BY OccupiedSlots
<1>3. head' = IF head + 1 = max_items THEN 0 ELSE head + 1 BY Successor
<1>4. Occupied' = IF head' <= tail' THEN tail' - head' ELSE tail' - head' + max_items
  <2>1. tail' - head' + max_items \in 0 .. 2 * max_items - 1 BY <1>1 DEF Slots
  <2> QED BY <1>1, <2>1, Wrap DEF Occupied, Slots
<1>5. Occupied > 0 /\ Occupied' = Occupied - 1
  BY <1>1, <1>2, <1>3, <1>4 DEF nx_queue_is_empty, Slots
<1>6. RingContents # <<>> BY <1>5, ContentsSeq
<1>7. (head + 1 - 1) % max_items = head BY <1>1, OccupiedSlot DEF Slots
<1>8. Head(RingContents) = items[head]
  <2>1. 1 \in 1 .. Occupied BY <1>2, <1>5
  <2>2. RingContents[1] = items[(head + 1 - 1) % max_items] BY <2>1, ContentsSeq, Zenon
  <2>3. Head(RingContents) = RingContents[1] BY <1>6, ContentsSeq, HeadTailProperties
  <2> QED BY <2>2, <2>3, <1>7
<1>9. \A k \in 1 .. Occupied - 1 : (head' + k - 1) % max_items = (head + (k + 1) - 1) % max_items
  <2>1. head \in Slots /\ head' \in Slots OBVIOUS
  <2>2. \A k \in 1 .. Occupied - 1 : k \in 1 .. max_items - 1 BY <1>1, <1>2
  <2> QED BY <2>1, <2>2, <1>3, SlotBehind
<1>10. /\ RingContents' \in [1 .. Occupied - 1 -> Cells]
       /\ \A k \in 1 .. Occupied - 1 : RingContents'[k] = items[(head + (k + 1) - 1) % max_items]
  <2>1. \A k \in 1 .. Occupied - 1 : k + 1 \in 1 .. max_items BY <1>1, <1>2
  <2>2. \A k \in 1 .. Occupied - 1 : items[(head + (k + 1) - 1) % max_items] \in Cells
    BY <2>1, OccupiedSlot DEF Cells
  <2> QED BY <1>5, <1>9, <2>2 DEF RingContents
<1>11. RingContents' \in Seq(Cells) /\ Len(RingContents') = Occupied - 1
  <2> DEFINE n == Occupied - 1
  <2>1. n \in Nat BY <1>2, <1>5
  <2>2. RingContents' \in [1 .. n -> Cells] BY <1>10
  <2> HIDE DEF n
  <2>3. RingContents' \in Seq(Cells) /\ Len(RingContents') = n BY <2>1, <2>2
  <2> QED BY <2>3 DEF n
<1>12. /\ Tail(RingContents) \in Seq(Cells)
       /\ Len(Tail(RingContents)) = Occupied - 1
       /\ \A k \in 1 .. Occupied - 1 : Tail(RingContents)[k] = RingContents[k + 1]
  BY <1>6, ContentsSeq, HeadTailProperties
<1>13. \A k \in 1 .. Occupied - 1 : RingContents'[k] = Tail(RingContents)[k]
  <2> SUFFICES ASSUME NEW k \in 1 .. Occupied - 1
               PROVE  RingContents'[k] = Tail(RingContents)[k]
    OBVIOUS
  <2>1. k + 1 \in 1 .. Occupied BY <1>2
  <2>2. RingContents[k + 1] = items[(head + (k + 1) - 1) % max_items] BY <2>1, ContentsSeq, Zenon
  <2>3. Tail(RingContents)[k] = RingContents[k + 1] BY <1>12
  <2>4. RingContents'[k] = items[(head + (k + 1) - 1) % max_items] BY <1>10
  <2> QED BY <2>2, <2>3, <2>4
<1>14. RingContents' = Tail(RingContents) BY <1>11, <1>12, <1>13, SeqEqual
<1> QED BY <1>6, <1>8, <1>14

-----------------------------------------------------------------------------
(* Every step, mapped.                                                     *)

LEMMA FifoStarts == nx_queue_init => Fifo!FifoInit
<1> SUFFICES ASSUME nx_queue_init PROVE Fifo!FifoInit OBVIOUS
<1>1. RingTypeOK BY RingInvInit DEF RingInv
<1>2. Occupied = 0 BY <1>1, OccupiedSlots DEF nx_queue_init, RingTypeOK
<1>3. RingContents = <<>> BY <1>1, <1>2, ContentsSeq, EmptySeq
<1> QED BY <1>3 DEF nx_queue_init, Fifo!FifoInit

(* A producer asks with Lock, is refused by PushTest or served by          *)
(* PushAdvance.                                                            *)
LEMMA ProducerImplements ==
  ASSUME RingInv, RingInv', NEW p \in Producers,
         \/ \E i \in Items : Lock(p, i)
         \/ PushTest(p) \/ PushWrite(p) \/ PushAdvance(p) \/ Unlock(p)
  PROVE  Fifo!FifoNext \/ UNCHANGED Fifo!fifoVars
<1> USE DEF consumerVars, Fifo!fifoVars
<1>0. /\ RingTypeOK /\ RingTypeOK' /\ head \in Slots /\ tail \in Slots
      /\ arg \in [Producers -> Items \cup {NoItem}]
  BY DEF RingInv, RingTypeOK
<1>1. ASSUME NEW i \in Items, Lock(p, i) PROVE Fifo!FifoNext
  <2>1. RingContents' = RingContents BY <1>0, <1>1, ContentsKept DEF Lock
  <2>2. arg[p] = NoItem BY <1>1 DEF Lock, RingInv
  <2>3. Fifo!Request(p, i) BY <1>1, <2>1, <2>2 DEF Lock, Fifo!Request
  <2> QED BY <2>3 DEF Fifo!FifoNext
<1>2. CASE PushTest(p)
  <2>1. RingContents' = RingContents BY <1>0, <1>2, ContentsKept DEF PushTest
  <2>2. CASE nx_queue_is_full
    <3>0. head = IF tail + 1 = max_items THEN 0 ELSE tail + 1
      BY <1>0, <2>2, Successor DEF nx_queue_is_full
    <3>1. Len(RingContents) = max_items - 1
      <4>1. /\ Occupied = IF head <= tail THEN tail - head ELSE tail - head + max_items
            /\ Len(RingContents) = Occupied
        BY <1>0, OccupiedSlots, ContentsSeq
      <4> QED BY <1>0, <3>0, <4>1, RingAssumption DEF Slots
    <3>2. arg[p] # NoItem BY <1>2 DEF PushTest, RingInv
    <3>3. Fifo!Push(p) BY <1>2, <2>1, <2>2, <3>1, <3>2 DEF PushTest, Fifo!Push
    <3> QED BY <3>3 DEF Fifo!FifoNext
  <2>3. CASE ~ nx_queue_is_full BY <1>2, <2>1, <2>3 DEF PushTest
  <2> QED BY <2>2, <2>3
<1>3. CASE PushWrite(p)
  <2>1. RingContents' = RingContents BY <1>0, <1>3, ContentsKept DEF PushWrite, RingTypeOK
  <2> QED BY <1>3, <2>1 DEF PushWrite
<1>4. CASE PushAdvance(p)
  <2>1. ~ nx_queue_is_full /\ arg[p] # NoItem /\ items[tail] = arg[p]
    BY <1>4 DEF PushAdvance, RingInv
  <2>2. /\ Len(RingContents) < max_items - 1
        /\ RingContents' = Append(RingContents, arg[p])
    BY <1>0, <1>4, <2>1, ContentsPushed DEF PushAdvance
  <2>3. Fifo!Push(p) BY <1>4, <2>1, <2>2 DEF PushAdvance, Fifo!Push
  <2> QED BY <2>3 DEF Fifo!FifoNext
<1>5. CASE Unlock(p)
  <2>1. RingContents' = RingContents BY <1>0, <1>5, ContentsKept DEF Unlock
  <2> QED BY <1>5, <2>1 DEF Unlock
<1> QED BY <1>1, <1>2, <1>3, <1>4, <1>5

(* The consumer finds the queue empty in PopTest, or pops in PopAdvance.   *)
LEMMA ConsumerImplements ==
  ASSUME RingInv, RingInv', PopTest \/ PopRead \/ PopAdvance \/ TakeLength
  PROVE  Fifo!FifoNext \/ UNCHANGED Fifo!fifoVars
<1> USE DEF producerVars, Fifo!fifoVars
<1>0. RingTypeOK /\ RingTypeOK' /\ head \in Slots /\ tail \in Slots
  BY DEF RingInv, RingTypeOK
<1>1. CASE PopTest
  <2>1. RingContents' = RingContents BY <1>0, <1>1, ContentsKept DEF PopTest
  <2>2. CASE nx_queue_is_empty
    <3>1. Occupied = 0 BY <1>0, <2>2, OccupiedSlots DEF nx_queue_is_empty, Slots
    <3>2. RingContents = <<>> BY <1>0, <3>1, ContentsSeq, EmptySeq
    <3>3. Fifo!Pop BY <1>1, <2>1, <2>2, <3>2 DEF PopTest, Fifo!Pop
    <3> QED BY <3>3 DEF Fifo!FifoNext
  <2>3. CASE ~ nx_queue_is_empty BY <1>1, <2>1, <2>3 DEF PopTest
  <2> QED BY <2>2, <2>3
<1>2. CASE PopRead
  <2>1. RingContents' = RingContents BY <1>0, <1>2, ContentsKept DEF PopRead
  <2> QED BY <1>2, <2>1 DEF PopRead
<1>3. CASE PopAdvance
  <2>1. ~ nx_queue_is_empty /\ item = items[head] BY <1>3 DEF PopAdvance, RingInv
  <2>2. /\ RingContents # <<>> /\ Head(RingContents) = item
        /\ RingContents' = Tail(RingContents)
    BY <1>0, <1>3, <2>1, ContentsPopped DEF PopAdvance
  <2>3. Fifo!Pop BY <1>3, <2>2 DEF PopAdvance, Fifo!Pop
  <2> QED BY <2>3 DEF Fifo!FifoNext
<1>4. CASE TakeLength
  <2>1. RingContents' = RingContents BY <1>0, <1>4, ContentsKept DEF TakeLength
  <2> QED BY <1>4, <2>1 DEF TakeLength
<1> QED BY <1>1, <1>2, <1>3, <1>4

(* nx_queue_tpl.h implements a bounded first-in first-out queue whose      *)
(* operations are atomic, for any number of producers and slots, although  *)
(* push and pop take several steps and pop takes no lock.                  *)
THEOREM RingImplementsFifo == RingSpec => IsFifo
<1>1. RingInv /\ RingInv' /\ [RingNext]_ringVars => [Fifo!FifoNext]_(Fifo!fifoVars)
  <2> SUFFICES ASSUME RingInv, RingInv', [RingNext]_ringVars
               PROVE  Fifo!FifoNext \/ UNCHANGED Fifo!fifoVars
    OBVIOUS
  <2>1. CASE RingNext BY <2>1, ProducerImplements, ConsumerImplements DEF RingNext
  <2>2. CASE UNCHANGED ringVars
    <3>1. RingContents' = RingContents BY <2>2, ContentsKept DEF ringVars, RingInv
    <3> QED BY <2>2, <3>1 DEF ringVars, Fifo!fifoVars
  <2> QED BY <2>1, <2>2
<1> QED BY <1>1, FifoStarts, RingInvariant, PTL DEF RingSpec, IsFifo, Fifo!FifoSpec

-----------------------------------------------------------------------------
(* The object pool.                                                        *)

-----------------------------------------------------------------------------
(* Induction over 0 .. n, for a set of numbers.                            *)
LEMMA SetInduction ==
  ASSUME NEW n \in Nat, NEW T, 0 \in T, \A i \in 1 .. n : i - 1 \in T => i \in T
  PROVE  \A i \in 0 .. n : i \in T
<1> DEFINE left == {i \in 0 .. n : i \notin T}
<1> SUFFICES ASSUME left # {} PROVE FALSE OBVIOUS
<1>1. left \subseteq Nat OBVIOUS
<1>2. PICK x \in left : \A y \in left : ~ (<<y, x>> \in OpToRel(<, Nat))
  BY <1>1, NatLessThanWellFounded, WFMin
<1>3. x \in 0 .. n /\ x \notin T /\ \A y \in left : y \in Nat /\ ~ (y < x)
  BY <1>1, <1>2 DEF OpToRel
<1>4. x \in 1 .. n BY <1>3
<1>5. x - 1 \notin left BY <1>3, <1>4
<1>6. x - 1 \in T BY <1>4, <1>5
<1> QED BY <1>3, <1>4, <1>6

-----------------------------------------------------------------------------
(* The list of free objects as a sequence.                                 *)

Links == [AllObjects -> AllObjects \cup {NoObject}]

(* s is the list, of n objects, that the links make; F are its objects.    *)
Chain(n, s, F, first, last, nx, pv) ==
  /\ n \in Nat /\ s \in [1 .. n -> AllObjects] /\ F = {s[i] : i \in 1 .. n}
  /\ \A i, j \in 1 .. n : s[i] = s[j] => i = j
  /\ first = IF n = 0 THEN NoObject ELSE s[1]
  /\ last = IF n = 0 THEN NoObject ELSE s[n]
  /\ \A i \in 1 .. n : /\ nx[s[i]] = IF i = n THEN NoObject ELSE s[i + 1]
                       /\ pv[s[i]] = IF i = 1 THEN NoObject ELSE s[i - 1]

IsList(F, first, last, nx, pv) == \E n, s : Chain(n, s, F, first, last, nx, pv)

LEMMA NoObjectIsNone == NoObject \notin AllObjects
BY DEF NoObject, AllObjects

(* TakeFirst takes the first object off the list.                          *)
TakenNext(nx, obj) == [nx EXCEPT ![obj] = NoObject]
TakenPrev(nx, pv, obj) == [o \in AllObjects |-> IF o \in {nx[obj], obj} THEN NoObject ELSE pv[o]]
TakenLast(nx, obj, last) == IF nx[obj] = NoObject THEN NoObject ELSE last

LEMMA TakeChain ==
  ASSUME NEW F, NEW first, NEW last, NEW nx \in Links, NEW pv \in Links,
         IsList(F, first, last, nx, pv), first # NoObject
  PROVE  /\ first \in F /\ TakenNext(nx, first) \in Links /\ TakenPrev(nx, pv, first) \in Links
         /\ IsList(F \ {first}, nx[first], TakenLast(nx, first, last), TakenNext(nx, first),
                   TakenPrev(nx, pv, first))
<1> DEFINE nx2 == TakenNext(nx, first)
           pv2 == TakenPrev(nx, pv, first)
<1>0. /\ nx2 = [nx EXCEPT ![first] = NoObject]
      /\ pv2 = [o \in AllObjects |-> IF o \in {nx[first], first} THEN NoObject ELSE pv[o]]
  BY DEF TakenNext, TakenPrev
<1> HIDE DEF nx2, pv2
<1>1. PICK n, s : Chain(n, s, F, first, last, nx, pv) BY DEF IsList
<1>2. /\ n \in Nat /\ n # 0 /\ s \in [1 .. n -> AllObjects] /\ F = {s[i] : i \in 1 .. n}
      /\ \A i, j \in 1 .. n : s[i] = s[j] => i = j
      /\ first = s[1] /\ last = s[n] /\ 1 \in 1 .. n /\ n \in 1 .. n
      /\ \A i \in 1 .. n : /\ nx[s[i]] = IF i = n THEN NoObject ELSE s[i + 1]
                           /\ pv[s[i]] = IF i = 1 THEN NoObject ELSE s[i - 1]
  BY <1>1 DEF Chain
<1>3. first \in AllObjects /\ last \in AllObjects /\ first \in F /\ F \subseteq AllObjects BY <1>2
<1>4. nx2 \in Links /\ pv2 \in Links
  <2>1. nx2 \in Links BY <1>0, <1>3 DEF Links
  <2>2. pv2 \in Links BY <1>0 DEF Links
  <2> QED BY <2>1, <2>2
<1> DEFINE t == [i \in 1 .. n - 1 |-> s[i + 1]]
<1>5. /\ n - 1 \in Nat /\ t \in [1 .. n - 1 -> AllObjects]
      /\ \A i \in 1 .. n - 1 : t[i] = s[i + 1] /\ i + 1 \in 1 .. n
  BY <1>2
<1>6. nx[first] = (IF n = 1 THEN NoObject ELSE s[2]) BY <1>2
<1>7. nx[first] = NoObject <=> n = 1
  <2>1. CASE n = 1 BY <1>6, <2>1
  <2>2. CASE n # 1
    <3>1. 2 \in 1 .. n BY <1>2, <2>2
    <3> QED BY <1>2, <1>6, <2>2, <3>1, NoObjectIsNone
  <2> QED BY <2>1, <2>2
<1> HIDE DEF t
<1>8. \A i, j \in 1 .. n - 1 : t[i] = t[j] => i = j
  <2> SUFFICES ASSUME NEW i \in 1 .. n - 1, NEW j \in 1 .. n - 1, t[i] = t[j] PROVE i = j OBVIOUS
  <2>1. s[i + 1] = s[j + 1] /\ i + 1 \in 1 .. n /\ j + 1 \in 1 .. n BY <1>5
  <2>2. i + 1 = j + 1 BY <1>2, <2>1
  <2> QED BY <2>2
<1>9. F \ {first} = {t[i] : i \in 1 .. n - 1}
  <2>1. ASSUME NEW o \in F \ {first} PROVE \E i \in 1 .. n - 1 : o = t[i]
    <3>1. PICK k \in 1 .. n : o = s[k] BY <1>2, <2>1
    <3>2. k # 1 BY <1>2, <2>1, <3>1
    <3>3. k - 1 \in 1 .. n - 1 /\ k - 1 + 1 = k BY <1>2, <3>2
    <3>4. t[k - 1] = s[k] BY <1>5, <3>3
    <3> QED BY <3>1, <3>3, <3>4
  <2>2. ASSUME NEW i \in 1 .. n - 1 PROVE t[i] \in F \ {first}
    <3>1. t[i] = s[i + 1] /\ i + 1 \in 1 .. n BY <1>5
    <3>2. i + 1 # 1 OBVIOUS
    <3>3. t[i] \in F BY <1>2, <3>1
    <3>4. s[i + 1] # s[1] BY <1>2, <3>1, <3>2
    <3> QED BY <1>2, <3>1, <3>3, <3>4
  <2> QED BY <2>1, <2>2
<1>10. \A i \in 1 .. n - 1 : /\ nx2[t[i]] = IF i = n - 1 THEN NoObject ELSE t[i + 1]
                             /\ pv2[t[i]] = IF i = 1 THEN NoObject ELSE t[i - 1]
  <2> TAKE i \in 1 .. n - 1
  <2>1. /\ t[i] = s[i + 1] /\ i + 1 \in 1 .. n /\ t[i] \in AllObjects /\ t[i] # first
    <3>1. t[i] = s[i + 1] /\ i + 1 \in 1 .. n /\ i + 1 # 1 BY <1>5
    <3> QED BY <1>2, <3>1
  <2>2. nx2[t[i]] = nx[t[i]] BY <1>0, <2>1 DEF Links
  <2>3. nx[t[i]] = IF i + 1 = n THEN NoObject ELSE s[i + 1 + 1] BY <1>2, <2>1
  <2>4. i # n - 1 => i + 1 \in 1 .. n - 1 /\ t[i + 1] = s[i + 1 + 1]
    <3> SUFFICES ASSUME i # n - 1 PROVE i + 1 \in 1 .. n - 1 /\ t[i + 1] = s[i + 1 + 1] OBVIOUS
    <3>1. i + 1 \in 1 .. n - 1 BY <1>2
    <3> QED BY <1>5, <3>1
  <2>5. nx2[t[i]] = IF i = n - 1 THEN NoObject ELSE t[i + 1]
    <3>1. i = n - 1 <=> i + 1 = n BY <1>2
    <3> QED BY <2>2, <2>3, <2>4, <3>1
  <2>6. i = 1 => pv2[t[i]] = NoObject
    <3> SUFFICES ASSUME i = 1 PROVE pv2[t[i]] = NoObject OBVIOUS
    <3>1. n # 1 BY <1>2
    <3>2. t[i] = nx[first] BY <1>6, <2>1, <3>1
    <3> QED BY <1>0, <2>1, <3>2
  <2>7. i # 1 => pv2[t[i]] = t[i - 1]
    <3> SUFFICES ASSUME i # 1 PROVE pv2[t[i]] = t[i - 1] OBVIOUS
    <3>1. i - 1 \in 1 .. n - 1 /\ i - 1 + 1 = i /\ i + 1 - 1 = i /\ i + 1 # 1 BY <1>2
    <3>2. t[i - 1] = s[i] BY <1>5, <3>1
    <3>3. pv[t[i]] = s[i] BY <1>2, <2>1, <3>1
    <3>4. n # 1 /\ 2 \in 1 .. n /\ i + 1 # 2 BY <1>2
    <3>5. t[i] # nx[first] BY <1>2, <1>6, <2>1, <3>4
    <3> QED BY <1>0, <2>1, <3>2, <3>3, <3>5
  <2> QED BY <2>5, <2>6, <2>7
<1>11. nx[first] = IF n - 1 = 0 THEN NoObject ELSE t[1]
  <2>1. n # 1 => 1 \in 1 .. n - 1 BY <1>2
  <2> QED BY <1>2, <1>5, <1>6, <2>1
<1>12. (IF nx[first] = NoObject THEN NoObject ELSE last) = IF n - 1 = 0 THEN NoObject ELSE t[n - 1]
  <2>1. n # 1 => n - 1 \in 1 .. n - 1 /\ n - 1 + 1 = n BY <1>2
  <2> QED BY <1>2, <1>5, <1>7, <2>1
<1>13. Chain(n - 1, t, F \ {first}, nx[first], IF nx[first] = NoObject THEN NoObject ELSE last, nx2, pv2)
  BY <1>5, <1>8, <1>9, <1>10, <1>11, <1>12 DEF Chain
<1> QED BY <1>3, <1>4, <1>13 DEF IsList, TakenLast, nx2, pv2

(* A new chunk is a list of its objects.                                   *)
LEMMA FreshChain ==
  ASSUME NEW c \in 1 .. MaxChunks, NEW k \in 1 .. MaxChunkItems, NEW nx \in Links, NEW pv \in Links
  PROVE  /\ ChunkNext(c, k, nx) \in Links /\ ChunkPrev(c, k, pv) \in Links
         /\ IsList(ChunkObjects(c, k), <<c, 1>>, <<c, k>>, ChunkNext(c, k, nx), ChunkPrev(c, k, pv))
<1> DEFINE s == [i \in 1 .. k |-> <<c, i>>]
           N == ChunkNext(c, k, nx)
           P == ChunkPrev(c, k, pv)
<1>1. k \in Nat /\ k # 0 /\ 1 \in 1 .. k /\ k \in 1 .. k BY PoolAssumption
<1>2. \A i \in 1 .. k : i \in 1 .. MaxChunkItems BY PoolAssumption
<1>3. \A i \in 1 .. k : <<c, i>> \in AllObjects /\ <<c, i>> \in ChunkObjects(c, k) BY <1>2 DEF AllObjects, ChunkObjects
<1>4. \A i \in 1 .. k : /\ N[<<c, i>>] = IF i < k THEN <<c, i + 1>> ELSE NoObject
                        /\ P[<<c, i>>] = IF i > 1 THEN <<c, i - 1>> ELSE NoObject
  BY <1>3 DEF ChunkNext, ChunkPrev
<1>5. N \in Links
  <2> SUFFICES ASSUME NEW o \in AllObjects
               PROVE  (IF o \notin ChunkObjects(c, k) THEN nx[o]
                       ELSE IF o[2] < k THEN <<c, o[2] + 1>> ELSE NoObject) \in AllObjects \cup {NoObject}
    BY DEF ChunkNext, Links
  <2>1. CASE o \notin ChunkObjects(c, k) BY <2>1 DEF Links
  <2>2. CASE o \in ChunkObjects(c, k)
    <3>1. o[2] \in 1 .. k BY <2>2 DEF ChunkObjects
    <3>2. o[2] < k => o[2] + 1 \in 1 .. k BY <1>1, <3>1
    <3> QED BY <1>3, <2>2, <3>2
  <2> QED BY <2>1, <2>2
<1>6. P \in Links
  <2> SUFFICES ASSUME NEW o \in AllObjects
               PROVE  (IF o \notin ChunkObjects(c, k) THEN pv[o]
                       ELSE IF o[2] > 1 THEN <<c, o[2] - 1>> ELSE NoObject) \in AllObjects \cup {NoObject}
    BY DEF ChunkPrev, Links
  <2>1. CASE o \notin ChunkObjects(c, k) BY <2>1 DEF Links
  <2>2. CASE o \in ChunkObjects(c, k)
    <3>1. o[2] \in 1 .. k BY <2>2 DEF ChunkObjects
    <3>2. o[2] > 1 => o[2] - 1 \in 1 .. k BY <1>1, <3>1
    <3> QED BY <1>3, <2>2, <3>2
  <2> QED BY <2>1, <2>2
<1> HIDE DEF N, P
<1>7. s \in [1 .. k -> AllObjects] /\ \A i \in 1 .. k : s[i] = <<c, i>> BY <1>3
<1>8. \A i, j \in 1 .. k : s[i] = s[j] => i = j BY <1>7
<1>9. ChunkObjects(c, k) = {s[i] : i \in 1 .. k}
  <2>1. \A o \in ChunkObjects(c, k) : \E i \in 1 .. k : o = <<c, i>> BY DEF ChunkObjects
  <2> QED BY <1>3, <1>7, <2>1
<1> HIDE DEF s
<1>10. \A i \in 1 .. k : /\ N[s[i]] = IF i = k THEN NoObject ELSE s[i + 1]
                         /\ P[s[i]] = IF i = 1 THEN NoObject ELSE s[i - 1]
  <2> TAKE i \in 1 .. k
  <2>1. i # k => i < k /\ i + 1 \in 1 .. k BY <1>1
  <2>2. i # 1 => i > 1 /\ i - 1 \in 1 .. k BY <1>1
  <2>3. ~ (k < k) /\ ~ (1 > 1) BY <1>1
  <2> QED BY <1>4, <1>7, <2>1, <2>2, <2>3
<1>11. Chain(k, s, ChunkObjects(c, k), <<c, 1>>, <<c, k>>, N, P)
  BY <1>1, <1>7, <1>8, <1>9, <1>10 DEF Chain
<1> QED BY <1>5, <1>6, <1>11 DEF IsList, N, P

(* nxp_free puts an object at the end of the list ...                      *)
AppendedNext(nx, last, obj) == Link(last, obj, [nx EXCEPT ![obj] = NoObject])
AppendedPrev(pv, last, obj) == [pv EXCEPT ![obj] = last]

LEMMA AppendChain ==
  ASSUME NEW F, NEW first, NEW last, NEW nx \in Links, NEW pv \in Links,
         IsList(F, first, last, nx, pv), NEW obj \in AllObjects, obj \notin F
  PROVE  /\ AppendedNext(nx, last, obj) \in Links /\ AppendedPrev(pv, last, obj) \in Links
         /\ IsList(F \cup {obj}, IF last = NoObject THEN obj ELSE first, obj,
                   AppendedNext(nx, last, obj), AppendedPrev(pv, last, obj))
<1> DEFINE nx2 == AppendedNext(nx, last, obj)
           pv2 == AppendedPrev(pv, last, obj)
<1>0. nx2 = Link(last, obj, [nx EXCEPT ![obj] = NoObject]) /\ pv2 = [pv EXCEPT ![obj] = last]
  BY DEF AppendedNext, AppendedPrev
<1> HIDE DEF nx2, pv2
<1>1. PICK n, s : Chain(n, s, F, first, last, nx, pv) BY DEF IsList
<1>2. /\ n \in Nat /\ s \in [1 .. n -> AllObjects] /\ F = {s[i] : i \in 1 .. n}
      /\ \A i, j \in 1 .. n : s[i] = s[j] => i = j
      /\ first = IF n = 0 THEN NoObject ELSE s[1]
      /\ last = IF n = 0 THEN NoObject ELSE s[n]
      /\ \A i \in 1 .. n : /\ nx[s[i]] = IF i = n THEN NoObject ELSE s[i + 1]
                           /\ pv[s[i]] = IF i = 1 THEN NoObject ELSE s[i - 1]
  BY <1>1 DEF Chain
<1>3. n # 0 => 1 \in 1 .. n /\ n \in 1 .. n BY <1>2
<1>4. last = NoObject <=> n = 0 BY <1>2, <1>3, NoObjectIsNone
<1>5. last \in AllObjects \cup {NoObject} /\ (n # 0 => last \in AllObjects /\ last # obj) BY <1>2, <1>3
<1>6. nx2 \in Links /\ pv2 \in Links
  <2>1. [nx EXCEPT ![obj] = NoObject] \in Links BY DEF Links
  <2>2. nx2 \in Links BY <1>0, <1>4, <1>5, <2>1 DEF Links, Link
  <2>3. pv2 \in Links BY <1>0, <1>5 DEF Links
  <2> QED BY <2>2, <2>3
<1>7. \A o \in AllObjects :
        /\ nx2[o] = IF o = last THEN obj ELSE IF o = obj THEN NoObject ELSE nx[o]
        /\ pv2[o] = IF o = obj THEN last ELSE pv[o]
  BY <1>0, <1>4, <1>5, NoObjectIsNone DEF Links, Link
<1> DEFINE t == [i \in 1 .. n + 1 |-> IF i = n + 1 THEN obj ELSE s[i]]
<1>8. /\ n + 1 \in Nat /\ t \in [1 .. n + 1 -> AllObjects] /\ n + 1 \in 1 .. n + 1 /\ t[n + 1] = obj
      /\ \A i \in 1 .. n : i \in 1 .. n + 1 /\ t[i] = s[i] /\ i # n + 1
      /\ \A i \in 1 .. n + 1 : i # n + 1 => i \in 1 .. n
  BY <1>2
<1> HIDE DEF t
<1>9. \A i \in 1 .. n : s[i] # obj /\ s[i] \in AllObjects BY <1>2
<1>10. \A i, j \in 1 .. n + 1 : t[i] = t[j] => i = j BY <1>2, <1>8, <1>9
<1>11. F \cup {obj} = {t[i] : i \in 1 .. n + 1}
  <2>1. \A o \in F \cup {obj} : \E i \in 1 .. n + 1 : o = t[i] BY <1>2, <1>8
  <2>2. \A i \in 1 .. n + 1 : t[i] \in F \cup {obj} BY <1>2, <1>8
  <2> QED BY <2>1, <2>2
<1>12. \A i \in 1 .. n + 1 : /\ nx2[t[i]] = IF i = n + 1 THEN NoObject ELSE t[i + 1]
                             /\ pv2[t[i]] = IF i = 1 THEN NoObject ELSE t[i - 1]
  <2> TAKE i \in 1 .. n + 1
  <2>1. CASE i = n + 1
    <3>1. t[i] = obj /\ obj # last BY <1>4, <1>5, <1>8, <2>1, NoObjectIsNone
    <3>2. nx2[t[i]] = NoObject /\ pv2[t[i]] = last BY <1>7, <3>1
    <3>3. i # 1 => n # 0 /\ i - 1 = n /\ t[n] = s[n] BY <1>2, <1>3, <1>8, <2>1
    <3>4. i = 1 => n = 0 BY <1>2, <2>1
    <3> QED BY <1>2, <2>1, <3>2, <3>3, <3>4
  <2>2. CASE i # n + 1
    <3>1. i \in 1 .. n /\ t[i] = s[i] /\ t[i] # obj /\ t[i] \in AllObjects BY <1>8, <1>9, <2>2
    <3>2. n # 0 /\ last = s[n] /\ n \in 1 .. n BY <1>2, <1>3, <3>1
    <3>3. pv2[t[i]] = IF i = 1 THEN NoObject ELSE t[i - 1]
      <4>1. i # 1 => i - 1 \in 1 .. n BY <1>2, <3>1
      <4> QED BY <1>2, <1>7, <1>8, <3>1, <4>1
    <3>4. CASE i = n
      <4>1. t[i + 1] = obj BY <1>8, <3>4
      <4> QED BY <1>7, <2>2, <3>1, <3>2, <3>3, <3>4, <4>1
    <3>5. CASE i # n
      <4>1. i + 1 \in 1 .. n /\ t[i + 1] = s[i + 1] BY <1>2, <1>8, <3>1, <3>5
      <4>2. s[i] # s[n] BY <1>2, <3>1, <3>2, <3>5
      <4>3. nx2[t[i]] = nx[s[i]] BY <1>7, <3>1, <3>2, <4>2
      <4> QED BY <1>2, <2>2, <3>1, <3>3, <3>5, <4>1, <4>3
    <3> QED BY <3>4, <3>5
  <2> QED BY <2>1, <2>2
<1>13. (IF last = NoObject THEN obj ELSE first) = t[1] BY <1>2, <1>3, <1>4, <1>8
<1>14. n + 1 # 0 BY <1>2
<1>15. Chain(n + 1, t, F \cup {obj}, IF last = NoObject THEN obj ELSE first, obj, nx2, pv2)
  BY <1>8, <1>10, <1>11, <1>12, <1>13, <1>14 DEF Chain
<1> QED BY <1>6, <1>15 DEF IsList, nx2, pv2

(* ... or at its beginning.                                                *)
PrependedNext(nx, first, obj) == [nx EXCEPT ![obj] = first]
PrependedPrev(pv, first, obj) == Link(first, obj, [pv EXCEPT ![obj] = NoObject])

LEMMA PrependChain ==
  ASSUME NEW F, NEW first, NEW last, NEW nx \in Links, NEW pv \in Links,
         IsList(F, first, last, nx, pv), NEW obj \in AllObjects, obj \notin F
  PROVE  /\ PrependedNext(nx, first, obj) \in Links /\ PrependedPrev(pv, first, obj) \in Links
         /\ IsList(F \cup {obj}, obj, IF first = NoObject THEN obj ELSE last,
                   PrependedNext(nx, first, obj), PrependedPrev(pv, first, obj))
<1> DEFINE nx2 == PrependedNext(nx, first, obj)
           pv2 == PrependedPrev(pv, first, obj)
<1>0. nx2 = [nx EXCEPT ![obj] = first] /\ pv2 = Link(first, obj, [pv EXCEPT ![obj] = NoObject])
  BY DEF PrependedNext, PrependedPrev
<1> HIDE DEF nx2, pv2
<1>1. PICK n, s : Chain(n, s, F, first, last, nx, pv) BY DEF IsList
<1>2. /\ n \in Nat /\ s \in [1 .. n -> AllObjects] /\ F = {s[i] : i \in 1 .. n}
      /\ \A i, j \in 1 .. n : s[i] = s[j] => i = j
      /\ first = IF n = 0 THEN NoObject ELSE s[1]
      /\ last = IF n = 0 THEN NoObject ELSE s[n]
      /\ \A i \in 1 .. n : /\ nx[s[i]] = IF i = n THEN NoObject ELSE s[i + 1]
                           /\ pv[s[i]] = IF i = 1 THEN NoObject ELSE s[i - 1]
  BY <1>1 DEF Chain
<1>3. n # 0 => 1 \in 1 .. n /\ n \in 1 .. n BY <1>2
<1>4. first = NoObject <=> n = 0 BY <1>2, <1>3, NoObjectIsNone
<1>5. first \in AllObjects \cup {NoObject} /\ (n # 0 => first \in AllObjects /\ first # obj) BY <1>2, <1>3
<1>6. nx2 \in Links /\ pv2 \in Links
  <2>1. [pv EXCEPT ![obj] = NoObject] \in Links BY DEF Links
  <2>2. pv2 \in Links BY <1>0, <1>4, <1>5, <2>1 DEF Links, Link
  <2>3. nx2 \in Links BY <1>0, <1>5 DEF Links
  <2> QED BY <2>2, <2>3
<1>7. \A o \in AllObjects :
        /\ pv2[o] = IF o = first THEN obj ELSE IF o = obj THEN NoObject ELSE pv[o]
        /\ nx2[o] = IF o = obj THEN first ELSE nx[o]
  BY <1>0, <1>4, <1>5, NoObjectIsNone DEF Links, Link
<1> DEFINE t == [i \in 1 .. n + 1 |-> IF i = 1 THEN obj ELSE s[i - 1]]
<1>8. /\ n + 1 \in Nat /\ n + 1 # 0 /\ 1 \in 1 .. n + 1 /\ t[1] = obj
      /\ \A i \in 1 .. n + 1 : i # 1 => i - 1 \in 1 .. n /\ t[i] = s[i - 1]
      /\ \A i \in 1 .. n : i + 1 \in 1 .. n + 1 /\ i + 1 # 1 /\ t[i + 1] = s[i]
  BY <1>2
<1>9. \A i \in 1 .. n : s[i] # obj /\ s[i] \in AllObjects BY <1>2
<1>10. t \in [1 .. n + 1 -> AllObjects] BY <1>8, <1>9
<1> HIDE DEF t
<1>11. \A i, j \in 1 .. n + 1 : t[i] = t[j] => i = j
  <2> SUFFICES ASSUME NEW i \in 1 .. n + 1, NEW j \in 1 .. n + 1, t[i] = t[j] PROVE i = j OBVIOUS
  <2>1. CASE i = 1 \/ j = 1 BY <1>8, <1>9, <2>1
  <2>2. CASE i # 1 /\ j # 1
    <3>1. i - 1 = j - 1 BY <1>2, <1>8, <2>2
    <3> QED BY <1>2, <3>1
  <2> QED BY <2>1, <2>2
<1>12. F \cup {obj} = {t[i] : i \in 1 .. n + 1}
  <2>1. \A o \in F \cup {obj} : \E i \in 1 .. n + 1 : o = t[i]
    <3> TAKE o \in F \cup {obj}
    <3>1. CASE o = obj BY <1>8, <3>1
    <3>2. CASE o # obj
      <4>1. PICK j \in 1 .. n : o = s[j] BY <1>2, <3>2
      <4>2. j + 1 \in 1 .. n + 1 /\ t[j + 1] = o BY <1>8, <4>1
      <4> QED BY <4>2
    <3> QED BY <3>1, <3>2
  <2>2. \A i \in 1 .. n + 1 : t[i] \in F \cup {obj} BY <1>2, <1>8
  <2> QED BY <2>1, <2>2
<1>13. \A i \in 1 .. n + 1 : /\ nx2[t[i]] = IF i = n + 1 THEN NoObject ELSE t[i + 1]
                             /\ pv2[t[i]] = IF i = 1 THEN NoObject ELSE t[i - 1]
  <2> TAKE i \in 1 .. n + 1
  <2>1. CASE i = 1
    <3>1. t[i] = obj /\ obj # first BY <1>4, <1>5, <1>8, <2>1, NoObjectIsNone
    <3>2. pv2[t[i]] = NoObject /\ nx2[t[i]] = first BY <1>7, <3>1
    <3>3. i # n + 1 => n # 0 /\ t[i + 1] = s[1] BY <1>2, <1>3, <1>8, <2>1
    <3>4. i = n + 1 => n = 0 BY <1>2, <2>1
    <3> QED BY <1>2, <2>1, <3>2, <3>3, <3>4
  <2>2. CASE i # 1
    <3>1. i - 1 \in 1 .. n /\ t[i] = s[i - 1] /\ t[i] # obj /\ t[i] \in AllObjects BY <1>8, <1>9, <2>2
    <3>2. n # 0 /\ first = s[1] /\ 1 \in 1 .. n BY <1>2, <1>3, <3>1
    <3>3. nx2[t[i]] = IF i = n + 1 THEN NoObject ELSE t[i + 1]
      <4>1. i - 1 = n <=> i = n + 1 BY <1>2
      <4>2. i # n + 1 => i + 1 \in 1 .. n + 1 /\ i + 1 # 1 /\ i + 1 - 1 = i - 1 + 1 BY <1>2
      <4>3. i # n + 1 => t[i + 1] = s[i - 1 + 1] BY <1>8, <4>2
      <4>4. nx2[t[i]] = nx[s[i - 1]] BY <1>7, <3>1
      <4> QED BY <1>2, <3>1, <4>1, <4>3, <4>4
    <3>4. CASE i = 2
      <4>1. i - 1 = 1 BY <3>4
      <4> QED BY <1>7, <1>8, <2>2, <3>1, <3>2, <3>3, <4>1
    <3>5. CASE i # 2
      <4>1. i - 1 # 1 /\ i - 1 \in 1 .. n + 1 /\ t[i - 1] = s[i - 1 - 1] BY <1>2, <1>8, <3>1, <3>5
      <4>2. s[i - 1] # s[1] BY <1>2, <3>1, <3>2, <4>1
      <4>3. pv2[t[i]] = pv[s[i - 1]] BY <1>7, <3>1, <3>2, <4>2
      <4> QED BY <1>2, <2>2, <3>1, <3>3, <4>1, <4>3
    <3> QED BY <3>4, <3>5
  <2> QED BY <2>1, <2>2
<1>14. (IF first = NoObject THEN obj ELSE last) = t[n + 1] BY <1>2, <1>3, <1>4, <1>8
<1>15. Chain(n + 1, t, F \cup {obj}, obj, IF first = NoObject THEN obj ELSE last, nx2, pv2)
  BY <1>8, <1>10, <1>11, <1>12, <1>13, <1>14 DEF Chain
<1> QED BY <1>6, <1>15 DEF IsList, nx2, pv2

(* nxp_gc links the neighbours of an object to each other.                 *)
LEMMA UnlinkChain ==
  ASSUME NEW F, NEW l, NEW x \in F, l.next \in Links, l.prev \in Links,
         IsList(F, l.first, l.last, l.next, l.prev)
  PROVE  LET u == Unlink(l, x)
         IN  /\ u.next \in Links /\ u.prev \in Links
             /\ IsList(F \ {x}, u.first, u.last, u.next, u.prev)
<1> DEFINE nx == l.next
           pv == l.prev
           nx2 == Link(pv[x], nx[x], nx)
           pv2 == Link(nx[x], pv[x], pv)
           first2 == IF pv[x] = NoObject THEN nx[x] ELSE l.first
           last2 == IF nx[x] = NoObject THEN pv[x] ELSE l.last
<1> SUFFICES nx2 \in Links /\ pv2 \in Links /\ IsList(F \ {x}, first2, last2, nx2, pv2)
  BY DEF Unlink
<1>1. PICK n, s : Chain(n, s, F, l.first, l.last, nx, pv) BY DEF IsList
<1>2. /\ n \in Nat /\ s \in [1 .. n -> AllObjects] /\ F = {s[i] : i \in 1 .. n}
      /\ \A i, j \in 1 .. n : s[i] = s[j] => i = j
      /\ l.first = (IF n = 0 THEN NoObject ELSE s[1])
      /\ l.last = (IF n = 0 THEN NoObject ELSE s[n])
      /\ \A i \in 1 .. n : /\ nx[s[i]] = IF i = n THEN NoObject ELSE s[i + 1]
                           /\ pv[s[i]] = IF i = 1 THEN NoObject ELSE s[i - 1]
  BY <1>1 DEF Chain
<1>3. PICK k \in 1 .. n : x = s[k] BY <1>2
<1>4. n # 0 /\ 1 \in 1 .. n /\ n \in 1 .. n /\ n - 1 \in Nat BY <1>2, <1>3
<1>5. nx \in Links /\ pv \in Links OBVIOUS
<1> HIDE DEF nx, pv
<1>6. /\ nx[x] = IF k = n THEN NoObject ELSE s[k + 1]
      /\ pv[x] = IF k = 1 THEN NoObject ELSE s[k - 1]
  BY <1>2, <1>3
<1>7. (k # n => k + 1 \in 1 .. n) /\ (k # 1 => k - 1 \in 1 .. n) BY <1>2, <1>3
<1>8. \A i \in 1 .. n : s[i] \in AllObjects /\ s[i] # NoObject BY <1>2, NoObjectIsNone
<1>9. nx[x] \in AllObjects \cup {NoObject} /\ pv[x] \in AllObjects \cup {NoObject} BY <1>6, <1>7, <1>8
<1>10. nx2 \in Links /\ pv2 \in Links BY <1>5, <1>9 DEF Links, Link
<1>11. \A o \in AllObjects : /\ nx2[o] = IF o = pv[x] THEN nx[x] ELSE nx[o]
                             /\ pv2[o] = IF o = nx[x] THEN pv[x] ELSE pv[o]
  BY <1>5, <1>9, NoObjectIsNone DEF Links, Link
<1> DEFINE t == [i \in 1 .. n - 1 |-> IF i < k THEN s[i] ELSE s[i + 1]]
           old(i) == IF i < k THEN i ELSE i + 1
<1>12. \A i \in 1 .. n - 1 : old(i) \in 1 .. n /\ old(i) # k /\ t[i] = s[old(i)] BY <1>2
<1>13. t \in [1 .. n - 1 -> AllObjects]
  <2>1. \A i \in 1 .. n - 1 : (IF i < k THEN s[i] ELSE s[i + 1]) \in AllObjects BY <1>2, <1>8
  <2> QED BY <2>1
<1> HIDE DEF t
<1>14. \A i, j \in 1 .. n - 1 : t[i] = t[j] => i = j
  <2> SUFFICES ASSUME NEW i \in 1 .. n - 1, NEW j \in 1 .. n - 1, t[i] = t[j] PROVE i = j OBVIOUS
  <2>1. old(i) \in 1 .. n /\ old(j) \in 1 .. n /\ s[old(i)] = s[old(j)] BY <1>12
  <2>2. old(i) = old(j)
    <3> HIDE DEF old
    <3> QED BY <1>2, <2>1
  <2> QED BY <1>2, <2>2
<1>15. F \ {x} = {t[i] : i \in 1 .. n - 1}
  <2>1. ASSUME NEW o \in F \ {x} PROVE \E i \in 1 .. n - 1 : o = t[i]
    <3>1. PICK j \in 1 .. n : o = s[j] BY <1>2, <2>1
    <3>2. j # k BY <1>3, <2>1, <3>1
    <3> DEFINE i == IF j < k THEN j ELSE j - 1
    <3>3. i \in 1 .. n - 1 /\ old(i) = j BY <1>2, <3>2
    <3> HIDE DEF i
    <3> QED BY <1>12, <3>1, <3>3
  <2>2. ASSUME NEW i \in 1 .. n - 1 PROVE t[i] \in F \ {x}
    <3>1. old(i) \in 1 .. n /\ old(i) # k /\ t[i] = s[old(i)] BY <1>12
    <3>2. t[i] \in F BY <1>2, <3>1
    <3>3. t[i] # s[k] BY <1>2, <3>1
    <3> QED BY <1>3, <3>2, <3>3
  <2> QED BY <2>1, <2>2
<1>16. \A i \in 1 .. n - 1 : /\ nx2[t[i]] = IF i = n - 1 THEN NoObject ELSE t[i + 1]
                             /\ pv2[t[i]] = IF i = 1 THEN NoObject ELSE t[i - 1]
  <2> TAKE i \in 1 .. n - 1
  <2> DEFINE j == old(i)
  <2>1. j \in 1 .. n /\ j # k /\ t[i] = s[j] /\ t[i] \in AllObjects BY <1>8, <1>12
  <2>2. nx[t[i]] = (IF j = n THEN NoObject ELSE s[j + 1]) /\ pv[t[i]] = IF j = 1 THEN NoObject ELSE s[j - 1]
    BY <1>2, <2>1
  <2>3. t[i] = pv[x] <=> j = k - 1
    <3>1. CASE k = 1
      <4>1. j # k - 1 BY <1>2, <2>1, <3>1
      <4> QED BY <1>6, <1>8, <2>1, <3>1, <4>1
    <3>2. CASE k # 1
      <4>1. pv[x] = s[k - 1] /\ k - 1 \in 1 .. n BY <1>6, <1>7, <3>2
      <4> QED BY <1>2, <2>1, <4>1
    <3> QED BY <3>1, <3>2
  <2>4. t[i] = nx[x] <=> j = k + 1
    <3>1. CASE k = n
      <4>1. j # k + 1 BY <1>2, <2>1, <3>1
      <4> QED BY <1>6, <1>8, <2>1, <3>1, <4>1
    <3>2. CASE k # n
      <4>1. nx[x] = s[k + 1] /\ k + 1 \in 1 .. n BY <1>6, <1>7, <3>2
      <4> QED BY <1>2, <2>1, <4>1
    <3> QED BY <3>1, <3>2
  <2>5. nx2[t[i]] = IF i = n - 1 THEN NoObject ELSE t[i + 1]
    <3>1. CASE j = k - 1
      <4>1. i = k - 1 /\ i + 1 = k BY <1>2, <3>1
      <4>2. nx2[t[i]] = nx[x] BY <1>11, <2>1, <2>3, <3>1
      <4>3. i = n - 1 <=> k = n BY <1>2, <4>1
      <4>4. k # n => k \in 1 .. n - 1 /\ old(k) = k + 1 BY <1>2
      <4>5. k # n => t[k] = s[k + 1] BY <1>12, <4>4
      <4> QED BY <1>6, <4>1, <4>2, <4>3, <4>5
    <3>2. CASE j # k - 1
      <4>1. nx2[t[i]] = nx[t[i]] BY <1>11, <2>1, <2>3, <3>2
      <4>2. i = n - 1 <=> j = n BY <1>2, <2>1, <3>2
      <4>3. i # n - 1 => i + 1 \in 1 .. n - 1 /\ old(i + 1) = j + 1 BY <1>2, <2>1, <3>2
      <4>4. i # n - 1 => t[i + 1] = s[j + 1] BY <1>12, <4>3
      <4> HIDE DEF j
      <4> QED BY <2>2, <4>1, <4>2, <4>4
    <3> QED BY <3>1, <3>2
  <2>6. pv2[t[i]] = IF i = 1 THEN NoObject ELSE t[i - 1]
    <3>1. CASE j = k + 1
      <4>1. i = k BY <1>2, <3>1
      <4>2. pv2[t[i]] = pv[x] BY <1>11, <2>1, <2>4, <3>1
      <4>3. k # 1 => k - 1 \in 1 .. n - 1 /\ old(k - 1) = k - 1 BY <1>2
      <4>4. k # 1 => t[k - 1] = s[k - 1] BY <1>12, <4>3
      <4> QED BY <1>6, <4>1, <4>2, <4>4
    <3>2. CASE j # k + 1
      <4>1. pv2[t[i]] = pv[t[i]] BY <1>11, <2>1, <2>4, <3>2
      <4>2. i = 1 <=> j = 1 BY <1>2, <2>1, <3>2
      <4>3. i # 1 => i - 1 \in 1 .. n - 1 /\ old(i - 1) = j - 1 BY <1>2, <2>1, <3>2
      <4>4. i # 1 => t[i - 1] = s[j - 1] BY <1>12, <4>3
      <4> HIDE DEF j
      <4> QED BY <2>2, <4>1, <4>2, <4>4
    <3> QED BY <3>1, <3>2
  <2> QED BY <2>5, <2>6
<1>17. first2 = IF n - 1 = 0 THEN NoObject ELSE t[1]
  <2>1. pv[x] = NoObject <=> k = 1 BY <1>6, <1>7, <1>8
  <2>2. CASE k = 1
    <3>1. first2 = IF n = 1 THEN NoObject ELSE s[2] BY <1>6, <2>1, <2>2
    <3>2. n # 1 => 1 \in 1 .. n - 1 /\ old(1) = 2 BY <1>2, <1>4, <2>2
    <3>3. n # 1 => t[1] = s[2] BY <1>12, <3>2
    <3> QED BY <1>2, <3>1, <3>3
  <2>3. CASE k # 1
    <3>1. first2 = s[1] /\ n # 1 BY <1>2, <1>4, <2>1, <2>3
    <3>2. 1 \in 1 .. n - 1 /\ old(1) = 1 BY <1>2, <1>4, <2>3, <3>1
    <3>3. t[1] = s[1] BY <1>12, <3>2
    <3> QED BY <1>2, <3>1, <3>3
  <2> QED BY <2>2, <2>3
<1>18. last2 = IF n - 1 = 0 THEN NoObject ELSE t[n - 1]
  <2>1. nx[x] = NoObject <=> k = n BY <1>6, <1>7, <1>8
  <2>2. CASE k = n
    <3>1. last2 = IF n = 1 THEN NoObject ELSE s[n - 1] BY <1>6, <2>1, <2>2
    <3>2. n # 1 => n - 1 \in 1 .. n - 1 /\ old(n - 1) = n - 1 BY <1>2, <1>4, <2>2
    <3>3. n # 1 => t[n - 1] = s[n - 1] BY <1>12, <3>2
    <3> QED BY <1>2, <3>1, <3>3
  <2>3. CASE k # n
    <3>1. last2 = s[n] /\ n # 1 BY <1>2, <1>4, <2>1, <2>3
    <3>2. n - 1 \in 1 .. n - 1 /\ old(n - 1) = n BY <1>2, <1>4, <2>3, <3>1
    <3>3. t[n - 1] = s[n] BY <1>12, <3>2
    <3> QED BY <1>2, <3>1, <3>3
  <2> QED BY <2>2, <2>3
<1> HIDE DEF first2, last2, nx2, pv2
<1>19. Chain(n - 1, t, F \ {x}, first2, last2, nx2, pv2)
  BY <1>4, <1>13, <1>14, <1>15, <1>16, <1>17, <1>18 DEF Chain
<1> QED BY <1>10, <1>19 DEF IsList

(* The loop of nxp_gc takes a chunk off the list.                          *)
LEMMA UnlinkedChain ==
  ASSUME NEW c, NEW n \in Nat, NEW F, NEW l, l.next \in Links, l.prev \in Links,
         IsList(F, l.first, l.last, l.next, l.prev), \A i \in 1 .. n : <<c, i>> \in F
  PROVE  LET u == Unlinked(l, c, n)
         IN  /\ u.next \in Links /\ u.prev \in Links
             /\ IsList(F \ ChunkObjects(c, n), u.first, u.last, u.next, u.prev)
<1> DEFINE Loop(m, f) == f = [i \in 0 .. m |-> IF i = 0 THEN l ELSE Unlink(f[i - 1], <<c, i>>)]
           T == {m \in Nat : \E f : Loop(m, f)}
           list == CHOOSE f : Loop(n, f)
           Good(i) == /\ list[i].next \in Links /\ list[i].prev \in Links
                      /\ IsList(F \ ChunkObjects(c, i), list[i].first, list[i].last, list[i].next, list[i].prev)
           U == {i \in 0 .. n : Good(i)}
<1>1. 0 \in T
  <2> DEFINE f == [i \in 0 .. 0 |-> l]
  <2>1. \A i \in 0 .. 0 : i = 0 OBVIOUS
  <2>2. Loop(0, f) BY <2>1
  <2> QED BY <2>2
<1>2. ASSUME NEW m \in 1 .. n, m - 1 \in T PROVE m \in T
  <2>1. PICK f : Loop(m - 1, f) BY <1>2
  <2> DEFINE g == [i \in 0 .. m |-> IF i = m THEN Unlink(f[m - 1], <<c, m>>) ELSE f[i]]
  <2>2. \A i \in 0 .. m - 1 : f[i] = IF i = 0 THEN l ELSE Unlink(f[i - 1], <<c, i>>) BY <2>1
  <2>3. \A i \in 0 .. m - 1 : i \in 0 .. m /\ i # m /\ g[i] = f[i] OBVIOUS
  <2>4. \A i \in 0 .. m : g[i] = IF i = 0 THEN l ELSE Unlink(g[i - 1], <<c, i>>)
    <3> TAKE i \in 0 .. m
    <3>1. CASE i = m
      <4>1. i # 0 /\ m - 1 \in 0 .. m - 1 BY <3>1
      <4>2. g[m - 1] = f[m - 1] BY <2>3, <4>1
      <4> QED BY <3>1, <4>1, <4>2
    <3>2. CASE i # m
      <4>1. i \in 0 .. m - 1 /\ (i # 0 => i - 1 \in 0 .. m - 1) BY <3>2
      <4> HIDE DEF g
      <4> QED BY <2>2, <2>3, <4>1
    <3> QED BY <3>1, <3>2
  <2>5. g = [i \in 0 .. m |-> g[i]] OBVIOUS
  <2> HIDE DEF g
  <2>6. Loop(m, g) BY <2>4, <2>5
  <2> QED BY <2>6
<1>3. \E f : Loop(n, f)
  <2>1. \A i \in 0 .. n : i \in T
    <3> HIDE DEF T
    <3> QED BY <1>1, <1>2, SetInduction
  <2>2. n \in T BY <2>1
  <2> QED BY <2>2
<1>4. Loop(n, list) BY <1>3
<1>5. Unlinked(l, c, n) = list[n] BY DEF Unlinked
<1> HIDE DEF list
<1>6. list[0] = l /\ \A i \in 1 .. n : list[i] = Unlink(list[i - 1], <<c, i>>) BY <1>4
<1>7. 0 \in U
  <2>1. ChunkObjects(c, 0) = {} BY DEF ChunkObjects
  <2> QED BY <1>6, <2>1
<1>8. ASSUME NEW i \in 1 .. n, i - 1 \in U PROVE i \in U
  <2> DEFINE G == F \ ChunkObjects(c, i - 1)
             x == <<c, i>>
  <2>1. x \in G BY DEF ChunkObjects
  <2>2. G \ {x} = F \ ChunkObjects(c, i)
    <3>1. ChunkObjects(c, i) = ChunkObjects(c, i - 1) \cup {<<c, i>>}
      <4>1. \A o : o \in ChunkObjects(c, i) => o \in ChunkObjects(c, i - 1) \cup {<<c, i>>} BY DEF ChunkObjects
      <4>2. \A o : o \in ChunkObjects(c, i - 1) \cup {<<c, i>>} => o \in ChunkObjects(c, i) BY DEF ChunkObjects
      <4> QED BY <4>1, <4>2
    <3> QED BY <3>1
  <2>3. Good(i - 1) BY <1>8
  <2>4. list[i] = Unlink(list[i - 1], x) BY <1>6
  <2> HIDE DEF x
  <2> DEFINE k == list[i - 1]
             u == Unlink(k, x)
  <2>5. k.next \in Links /\ k.prev \in Links /\ IsList(G, k.first, k.last, k.next, k.prev) BY <2>3
  <2> HIDE DEF G, k
  <2>6. /\ u.next \in Links /\ u.prev \in Links
        /\ IsList(G \ {x}, u.first, u.last, u.next, u.prev)
    BY <2>1, <2>5, UnlinkChain
  <2> HIDE DEF u
  <2>7. list[i] = u BY <2>4 DEF u, k
  <2>8. Good(i) BY <2>2, <2>6, <2>7
  <2> QED BY <2>8
<1>9. \A i \in 0 .. n : i \in U
  <2> HIDE DEF U
  <2> QED BY <1>7, <1>8, SetInduction
<1>10. Good(n) BY <1>9
<1> QED BY <1>5, <1>10

-----------------------------------------------------------------------------
(* A list in the sense of IsList is what FreeListExact asks for: following *)
(* the links from free_first meets its objects one after another.          *)
LEMMA ListWalked ==
  ASSUME IsList(Objects \ in_use, free_first, free_last, next, prev)
  PROVE  FreeListExact
<1> DEFINE F == Objects \ in_use
           M == MaxChunks * MaxChunkItems
           N == M + 1
<1>1. PICK n, s : Chain(n, s, F, free_first, free_last, next, prev) BY DEF IsList
<1>2. /\ n \in Nat /\ s \in [1 .. n -> AllObjects] /\ F = {s[i] : i \in 1 .. n}
      /\ \A i, j \in 1 .. n : s[i] = s[j] => i = j
      /\ free_first = (IF n = 0 THEN NoObject ELSE s[1])
      /\ free_last = (IF n = 0 THEN NoObject ELSE s[n])
      /\ \A i \in 1 .. n : /\ next[s[i]] = IF i = n THEN NoObject ELSE s[i + 1]
                           /\ prev[s[i]] = IF i = 1 THEN NoObject ELSE s[i - 1]
  <2> HIDE DEF F
  <2> QED BY <1>1 DEF Chain
<1> HIDE DEF F
<1>3. Cardinality(F) = n
  <2>1. s \in [1 .. n -> F] BY <1>2
  <2>2. \A o \in F : \E i \in 1 .. n : s[i] = o BY <1>2
  <2>3. s \in Bijection(1 .. n, F) BY <1>2, <2>1, <2>2, Fun_IsBij
  <2>4. ExistsBijection(1 .. n, F) BY <2>3, Fun_ExistsBij
  <2> QED BY <1>2, <2>4, FS_CountingElements
<1>4. M \in Nat /\ n <= M
  <2>1. MaxChunks \in Nat /\ MaxChunkItems \in Nat BY PoolAssumption
  <2>2. /\ IsFiniteSet(1 .. MaxChunks) /\ Cardinality(1 .. MaxChunks) = MaxChunks
        /\ IsFiniteSet(1 .. MaxChunkItems) /\ Cardinality(1 .. MaxChunkItems) = MaxChunkItems
    BY <2>1, FS_Interval
  <2>3. IsFiniteSet(AllObjects) /\ Cardinality(AllObjects) = MaxChunks * MaxChunkItems
    <3> DEFINE A == 1 .. MaxChunks
               B == 1 .. MaxChunkItems
    <3> HIDE DEF A, B
    <3>1. IsFiniteSet(A) /\ IsFiniteSet(B) BY <2>2 DEF A, B
    <3>2. IsFiniteSet(A \X B) /\ Cardinality(A \X B) = Cardinality(A) * Cardinality(B) BY <3>1, FS_Product
    <3>3. Cardinality(A) = MaxChunks /\ Cardinality(B) = MaxChunkItems /\ AllObjects = A \X B
      BY <2>2 DEF A, B, AllObjects
    <3> QED BY <3>2, <3>3
  <2>4. F \subseteq AllObjects BY <1>2
  <2>5. Cardinality(F) <= MaxChunks * MaxChunkItems BY <2>3, <2>4, FS_Subset
  <2>6. MaxChunks * MaxChunkItems \in Nat BY <2>1
  <2> QED BY <1>3, <2>5, <2>6
<1> DEFINE Walk(f) == f = [k \in 1 .. N |-> IF k = 1 THEN free_first
                                            ELSE IF f[k - 1] = NoObject THEN NoObject ELSE next[f[k - 1]]]
           g == [k \in 1 .. N |-> IF k <= n THEN s[k] ELSE NoObject]
<1>5. N >= n + 1 /\ N \in Nat
  <2> HIDE DEF M
  <2> QED BY <1>2, <1>4
<1>6. ListAt = CHOOSE f : Walk(f) BY DEF ListAt
<1> HIDE DEF N
<1>7. \A k \in 1 .. N : g[k] = IF k = 1 THEN free_first
                               ELSE IF g[k - 1] = NoObject THEN NoObject ELSE next[g[k - 1]]
  <2> TAKE k \in 1 .. N
  <2>1. CASE k = 1 BY <1>2, <1>5, <2>1
  <2>2. CASE k # 1 /\ k - 1 <= n
    <3>1. k - 1 \in 1 .. N /\ k - 1 \in 1 .. n /\ g[k - 1] = s[k - 1] BY <1>2, <1>5, <2>2
    <3>2. s[k - 1] # NoObject BY <1>2, <3>1, NoObjectIsNone
    <3>3. next[s[k - 1]] = IF k - 1 = n THEN NoObject ELSE s[k - 1 + 1] BY <1>2, <3>1
    <3>4. k - 1 + 1 = k /\ (k <= n <=> k - 1 # n) BY <1>2, <2>2
    <3>5. g[k] = IF k <= n THEN s[k] ELSE NoObject OBVIOUS
    <3> QED BY <2>2, <3>1, <3>2, <3>3, <3>4, <3>5
  <2>3. CASE k # 1 /\ ~ (k - 1 <= n)
    <3>1. k - 1 \in 1 .. N /\ ~ (k <= n) BY <1>2, <1>5, <2>3
    <3>2. g[k] = NoObject /\ g[k - 1] = NoObject BY <2>3, <3>1
    <3> QED BY <2>3, <3>2
  <2> QED BY <2>1, <2>2, <2>3
<1>8. g = [k \in 1 .. N |-> g[k]] OBVIOUS
<1>9. \A k \in 1 .. N : g[k] = IF k <= n THEN s[k] ELSE NoObject OBVIOUS
<1> HIDE DEF g
<1>10. Walk(g) BY <1>7, <1>8
<1>11. Walk(ListAt) BY <1>6, <1>10
<1>12. \A k \in 1 .. N : ListAt[k] = IF k = 1 THEN free_first
                               ELSE IF ListAt[k - 1] = NoObject THEN NoObject ELSE next[ListAt[k - 1]]
  BY <1>11
<1>13. \A k \in 1 .. N : ListAt[k] = g[k]
  <2> DEFINE T == {0} \cup {k \in 1 .. N : ListAt[k] = g[k]}
  <2>1. 0 \in T OBVIOUS
  <2>2. ASSUME NEW k \in 1 .. N, k - 1 \in T PROVE k \in T
    <3>1. CASE k = 1 BY <1>7, <1>12, <3>1
    <3>2. CASE k # 1
      <4>1. ListAt[k - 1] = g[k - 1] BY <2>2, <3>2
      <4>2. ListAt[k] = g[k] BY <1>7, <1>12, <3>2, <4>1
      <4> QED BY <4>2
    <3> QED BY <3>1, <3>2
  <2>3. \A k \in 0 .. N : k \in T
    <3> HIDE DEF T
    <3> QED BY <1>5, <2>1, <2>2, SetInduction
  <2>4. \A k \in 1 .. N : k \in 0 .. N /\ k # 0 OBVIOUS
  <2> QED BY <2>3, <2>4
<1>14. (\A k \in 1 .. n : ListAt[k] = s[k]) /\ ListAt[n + 1] = NoObject
  <2>1. \A k \in 1 .. n : k \in 1 .. N /\ k <= n BY <1>2, <1>5
  <2>2. n + 1 \in 1 .. N /\ ~ (n + 1 <= n) BY <1>2, <1>5
  <2> QED BY <1>9, <1>13, <2>1, <2>2
<1>15. {ListAt[k] : k \in 1 .. n} = F
  <2>1. {ListAt[k] : k \in 1 .. n} = {s[k] : k \in 1 .. n} BY <1>14
  <2> QED BY <1>2, <2>1
<1>16. free_last = IF n = 0 THEN NoObject ELSE ListAt[n]
  <2>1. n # 0 => n \in 1 .. n BY <1>2
  <2> QED BY <1>2, <1>14, <2>1
<1>17. \A k \in 1 .. n : prev[ListAt[k]] = IF k = 1 THEN NoObject ELSE ListAt[k - 1]
  <2> TAKE k \in 1 .. n
  <2>1. k # 1 => k - 1 \in 1 .. n BY <1>2
  <2> QED BY <1>2, <1>14, <2>1
<1> QED BY <1>3, <1>14, <1>15, <1>16, <1>17 DEF FreeListExact, F

-----------------------------------------------------------------------------
(* The objects of the chunks.                                              *)

Sizes == 1 .. MaxChunkItems

ItemsIn(nt) == UNION {ChunkObjects(c, nt[c]) : c \in DOMAIN nt}

LEMMA ItemsAre ==
  ASSUME NEW nt \in Seq(Sizes), Len(nt) <= MaxChunks
  PROVE  /\ ItemsIn(nt) \subseteq AllObjects
         /\ \A o \in ItemsIn(nt) : o[1] \in 1 .. Len(nt) /\ o \in ChunkObjects(o[1], nt[o[1]])
         /\ \A c \in 1 .. Len(nt) : ChunkObjects(c, nt[c]) \subseteq ItemsIn(nt)
<1>1. Len(nt) \in Nat /\ DOMAIN nt = 1 .. Len(nt) /\ \A c \in 1 .. Len(nt) : nt[c] \in Sizes
  BY LenProperties, ElementOfSeq
<1>2. ASSUME NEW o \in ItemsIn(nt)
      PROVE  o \in AllObjects /\ o[1] \in 1 .. Len(nt) /\ o \in ChunkObjects(o[1], nt[o[1]])
  <2>1. PICK c \in 1 .. Len(nt) : o \in ChunkObjects(c, nt[c]) BY <1>1 DEF ItemsIn
  <2>2. o[1] = c /\ o[2] \in 1 .. nt[c] /\ o = <<c, o[2]>> BY <2>1 DEF ChunkObjects
  <2>3. c \in 1 .. MaxChunks /\ o[2] \in 1 .. MaxChunkItems BY <1>1, <2>2, PoolAssumption DEF Sizes
  <2>4. o \in AllObjects BY <2>2, <2>3 DEF AllObjects
  <2> QED BY <2>1, <2>2, <2>4
<1>3. \A c \in 1 .. Len(nt) : ChunkObjects(c, nt[c]) \subseteq ItemsIn(nt) BY <1>1 DEF ItemsIn
<1> QED BY <1>2, <1>3

LEMMA ItemsGrow ==
  ASSUME NEW nt \in Seq(Sizes), NEW k \in Sizes
  PROVE  /\ Append(nt, k) \in Seq(Sizes) /\ Len(Append(nt, k)) = Len(nt) + 1
         /\ ItemsIn(Append(nt, k)) = ItemsIn(nt) \cup ChunkObjects(Len(nt) + 1, k)
<1> DEFINE m == Append(nt, k)
<1>1. /\ Len(nt) \in Nat /\ DOMAIN nt = 1 .. Len(nt) /\ m \in Seq(Sizes)
      /\ Len(m) = Len(nt) + 1 /\ DOMAIN m = 1 .. Len(nt) + 1 /\ m[Len(nt) + 1] = k
      /\ \A c \in 1 .. Len(nt) : m[c] = nt[c]
  <2>1. Len(nt) \in Nat /\ DOMAIN nt = 1 .. Len(nt) BY LenProperties
  <2>2. /\ m \in Seq(Sizes) /\ Len(m) = Len(nt) + 1 /\ m[Len(nt) + 1] = k
        /\ \A c \in 1 .. Len(nt) : m[c] = nt[c]
    BY AppendProperties
  <2>3. DOMAIN m = 1 .. Len(m) BY <2>2, LenProperties
  <2> QED BY <2>1, <2>2, <2>3
<1> HIDE DEF m
<1>2. \A c : c \in 1 .. Len(nt) + 1 <=> c \in 1 .. Len(nt) \/ c = Len(nt) + 1 BY <1>1
<1>3. ItemsIn(m) = ItemsIn(nt) \cup ChunkObjects(Len(nt) + 1, k)
  <2>1. ASSUME NEW o \in ItemsIn(m) PROVE o \in ItemsIn(nt) \cup ChunkObjects(Len(nt) + 1, k)
    <3>1. PICK c \in 1 .. Len(nt) + 1 : o \in ChunkObjects(c, m[c]) BY <1>1 DEF ItemsIn
    <3>2. CASE c \in 1 .. Len(nt) BY <1>1, <3>1, <3>2 DEF ItemsIn
    <3>3. CASE c = Len(nt) + 1 BY <1>1, <3>1, <3>3
    <3> QED BY <1>2, <3>2, <3>3
  <2>2. ASSUME NEW o \in ItemsIn(nt) PROVE o \in ItemsIn(m)
    <3>1. PICK c \in 1 .. Len(nt) : o \in ChunkObjects(c, nt[c]) BY <1>1 DEF ItemsIn
    <3>2. c \in DOMAIN m /\ m[c] = nt[c] BY <1>1, <1>2
    <3> QED BY <3>1, <3>2 DEF ItemsIn
  <2>3. ASSUME NEW o \in ChunkObjects(Len(nt) + 1, k) PROVE o \in ItemsIn(m)
    <3>1. Len(nt) + 1 \in DOMAIN m BY <1>1, <1>2
    <3> QED BY <1>1, <3>1 DEF ItemsIn
  <2> QED BY <2>1, <2>2, <2>3
<1> QED BY <1>1, <1>3 DEF m

LEMMA ItemsShrink ==
  ASSUME NEW nt \in Seq(Sizes), Len(nt) > 1
  PROVE  LET m == SubSeq(nt, 1, Len(nt) - 1)
         IN  /\ m \in Seq(Sizes) /\ Len(m) = Len(nt) - 1
             /\ ItemsIn(m) = ItemsIn(nt) \ ChunkObjects(Len(nt), nt[Len(nt)])
<1> DEFINE m == SubSeq(nt, 1, Len(nt) - 1)
<1>1. /\ Len(nt) \in Nat /\ DOMAIN nt = 1 .. Len(nt) /\ m \in Seq(Sizes)
      /\ Len(m) = Len(nt) - 1 /\ DOMAIN m = 1 .. Len(nt) - 1
      /\ \A c \in 1 .. Len(nt) - 1 : m[c] = nt[c]
  <2>1. Len(nt) \in Nat /\ DOMAIN nt = 1 .. Len(nt) /\ \A c \in 1 .. Len(nt) : nt[c] \in Sizes
    BY LenProperties, ElementOfSeq
  <2>2. 1 \in Int /\ Len(nt) - 1 \in Int /\ 1 <= Len(nt) - 1 /\ \A c \in 1 .. Len(nt) - 1 : nt[c] \in Sizes
    BY <2>1
  <2>3. /\ m \in Seq(Sizes) /\ Len(m) = Len(nt) - 1 - 1 + 1
        /\ \A c \in 1 .. Len(nt) - 1 - 1 + 1 : m[c] = nt[1 + c - 1]
    BY <2>2, SubSeqProperties
  <2>4. Len(m) = Len(nt) - 1 /\ \A c \in 1 .. Len(nt) - 1 : m[c] = nt[c] BY <2>1, <2>3
  <2>5. DOMAIN m = 1 .. Len(m) BY <2>3, LenProperties
  <2> QED BY <2>1, <2>3, <2>4, <2>5
<1> HIDE DEF m
<1>2. \A c : c \in 1 .. Len(nt) <=> c \in 1 .. Len(nt) - 1 \/ c = Len(nt) BY <1>1
<1>3. Len(nt) \notin 1 .. Len(nt) - 1 BY <1>1
<1>4. ItemsIn(m) = ItemsIn(nt) \ ChunkObjects(Len(nt), nt[Len(nt)])
  <2>1. ASSUME NEW o \in ItemsIn(m) PROVE o \in ItemsIn(nt) \ ChunkObjects(Len(nt), nt[Len(nt)])
    <3>1. PICK c \in 1 .. Len(nt) - 1 : o \in ChunkObjects(c, m[c]) BY <1>1 DEF ItemsIn
    <3>2. c \in DOMAIN nt /\ m[c] = nt[c] BY <1>1, <1>2
    <3>3. o \in ItemsIn(nt) BY <3>1, <3>2 DEF ItemsIn
    <3>4. o[1] = c /\ c # Len(nt) BY <1>3, <3>1 DEF ChunkObjects
    <3>5. o \notin ChunkObjects(Len(nt), nt[Len(nt)]) BY <3>4 DEF ChunkObjects
    <3> QED BY <3>3, <3>5
  <2>2. ASSUME NEW o \in ItemsIn(nt), o \notin ChunkObjects(Len(nt), nt[Len(nt)]) PROVE o \in ItemsIn(m)
    <3>1. PICK c \in 1 .. Len(nt) : o \in ChunkObjects(c, nt[c]) BY <1>1 DEF ItemsIn
    <3>2. c \in DOMAIN m /\ m[c] = nt[c] BY <1>1, <1>2, <2>2, <3>1
    <3> QED BY <3>1, <3>2 DEF ItemsIn
  <2> QED BY <2>1, <2>2
<1> QED BY <1>1, <1>4 DEF m

-----------------------------------------------------------------------------
(* The inductive invariant: the links make a list of the free objects, and *)
(* in_use marks what the program holds.                                    *)
PoolInv ==
  /\ nitems \in Seq(Sizes) /\ Len(nitems) \in 1 .. MaxChunks
  /\ next \in Links /\ prev \in Links
  /\ in_use \subseteq Objects /\ owned = in_use /\ tripped = FALSE
  /\ IsList(Objects \ in_use, free_first, free_last, next, prev)

LEMMA ObjectsAre ==
  ASSUME PoolInv
  PROVE  /\ Objects = ItemsIn(nitems) /\ Objects \subseteq AllObjects
         /\ Len(nitems) \in Nat /\ Len(nitems) <= MaxChunks /\ Len(nitems) >= 1
         /\ \A o \in Objects : o[1] \in 1 .. Len(nitems) /\ o \in ChunkObjects(o[1], nitems[o[1]])
         /\ nitems[Len(nitems)] \in 1 .. MaxChunkItems
         /\ ChunkObjects(Len(nitems), nitems[Len(nitems)]) \subseteq Objects
<1>1. Objects = ItemsIn(nitems) BY DEF Objects, ItemsIn
<1>2. nitems \in Seq(Sizes) /\ Len(nitems) \in 1 .. MaxChunks BY DEF PoolInv
<1>3. Len(nitems) \in Nat /\ Len(nitems) <= MaxChunks /\ Len(nitems) >= 1 /\ Len(nitems) \in 1 .. Len(nitems)
  BY <1>2, PoolAssumption
<1>4. nitems[Len(nitems)] \in 1 .. MaxChunkItems BY <1>2, <1>3, ElementOfSeq DEF Sizes
<1> QED BY <1>1, <1>2, <1>3, <1>4, ItemsAre

LEMMA PoolStarts == PoolInit => PoolInv
<1> SUFFICES ASSUME PoolInit PROVE PoolInv OBVIOUS
<1> DEFINE none == [o \in AllObjects |-> NoObject]
<1>1. none \in Links BY DEF Links
<1>2. 1 \in 1 .. MaxChunks /\ InitialItems \in 1 .. MaxChunkItems BY PoolAssumption
<1>3. /\ nitems = <<InitialItems>> /\ next = ChunkNext(1, InitialItems, none)
      /\ prev = ChunkPrev(1, InitialItems, none) /\ free_first = <<1, 1>>
      /\ free_last = <<1, InitialItems>> /\ in_use = {} /\ owned = {} /\ tripped = FALSE
  BY DEF PoolInit
<1> HIDE DEF none
<1>4. /\ next \in Links /\ prev \in Links
      /\ IsList(ChunkObjects(1, InitialItems), free_first, free_last, next, prev)
  BY <1>1, <1>2, <1>3, FreshChain
<1>5. nitems \in Seq(Sizes) /\ Len(nitems) = 1 /\ DOMAIN nitems = {1} /\ nitems[1] = InitialItems
  BY <1>2, <1>3 DEF Sizes
<1>6. Objects = ChunkObjects(1, InitialItems) BY <1>5 DEF Objects
<1>7. Objects \ in_use = ChunkObjects(1, InitialItems) BY <1>3, <1>6
<1> QED BY <1>2, <1>3, <1>4, <1>5, <1>7 DEF PoolInv

LEMMA AllocStep == PoolInv /\ nxp_alloc => PoolInv'
<1> SUFFICES ASSUME PoolInv, nxp_alloc PROVE PoolInv' OBVIOUS
<1> DEFINE F == Objects \ in_use
<1>1. /\ IsList(F, free_first, free_last, next, prev) /\ next \in Links /\ prev \in Links
      /\ in_use \subseteq Objects /\ owned = in_use /\ tripped = FALSE
      /\ nitems \in Seq(Sizes) /\ Len(nitems) \in 1 .. MaxChunks
  BY DEF PoolInv
<1>2. /\ free_first # NoObject /\ free_first' = next[free_first]
      /\ free_last' = TakenLast(next, free_first, free_last)
      /\ next' = TakenNext(next, free_first) /\ prev' = TakenPrev(next, prev, free_first)
      /\ in_use' = in_use \cup {free_first} /\ owned' = owned \cup {free_first}
      /\ nitems' = nitems /\ tripped' = tripped
  BY DEF nxp_alloc, TakeFirst, TakenLast, TakenNext, TakenPrev
<1> HIDE DEF F
<1>3. /\ free_first \in F /\ next' \in Links /\ prev' \in Links
      /\ IsList(F \ {free_first}, free_first', free_last', next', prev')
  <2>1. free_first # NoObject BY <1>2
  <2>2. /\ free_first \in F
        /\ TakenNext(next, free_first) \in Links /\ TakenPrev(next, prev, free_first) \in Links
        /\ IsList(F \ {free_first}, next[free_first], TakenLast(next, free_first, free_last),
                  TakenNext(next, free_first), TakenPrev(next, prev, free_first))
    BY <1>1, <2>1, TakeChain
  <2> QED BY <1>2, <2>2
<1>4. Objects' = Objects BY <1>2 DEF Objects
<1>5. F \ {free_first} = Objects' \ in_use' /\ in_use' \subseteq Objects' BY <1>1, <1>2, <1>3, <1>4 DEF F
<1> QED BY <1>1, <1>2, <1>3, <1>5 DEF PoolInv

(* An empty list has no objects.                                           *)
LEMMA EmptyChain ==
  ASSUME NEW F, NEW last, NEW nx, NEW pv, IsList(F, NoObject, last, nx, pv)
  PROVE  F = {}
<1>1. PICK n, s : Chain(n, s, F, NoObject, last, nx, pv) BY DEF IsList
<1>2. /\ n \in Nat /\ s \in [1 .. n -> AllObjects] /\ F = {s[i] : i \in 1 .. n}
      /\ NoObject = IF n = 0 THEN NoObject ELSE s[1]
  BY <1>1 DEF Chain
<1>3. n = 0
  <2>1. n # 0 => 1 \in 1 .. n BY <1>2
  <2> QED BY <1>2, <2>1, NoObjectIsNone
<1> QED BY <1>2, <1>3

(* A list depends on the links of its objects only.                        *)
LEMMA SameChain ==
  ASSUME NEW F, NEW first, NEW last, NEW nx, NEW pv, IsList(F, first, last, nx, pv),
         NEW nx2, NEW pv2, \A o \in F : nx2[o] = nx[o] /\ pv2[o] = pv[o]
  PROVE  IsList(F, first, last, nx2, pv2)
<1>1. PICK n, s : Chain(n, s, F, first, last, nx, pv) BY DEF IsList
<1>2. \A i \in 1 .. n : s[i] \in F BY <1>1 DEF Chain
<1>3. Chain(n, s, F, first, last, nx2, pv2) BY <1>1, <1>2 DEF Chain
<1> QED BY <1>3 DEF IsList

LEMMA AllocChunkStep == PoolInv /\ nxp_alloc_chunk => PoolInv'
<1> SUFFICES ASSUME PoolInv, nxp_alloc_chunk PROVE PoolInv' OBVIOUS
<1> DEFINE c == Len(nitems) + 1
           k == NewItems
           nx == ChunkNext(c, k, next)
           pv == ChunkPrev(c, k, prev)
           G == ChunkObjects(c, k)
           obj == <<c, 1>>
<1>1. /\ IsList(Objects \ in_use, free_first, free_last, next, prev) /\ next \in Links /\ prev \in Links
      /\ in_use \subseteq Objects /\ owned = in_use /\ tripped = FALSE
      /\ nitems \in Seq(Sizes) /\ Len(nitems) \in 1 .. MaxChunks
  BY DEF PoolInv
<1>2. /\ free_first = NoObject /\ Len(nitems) < MaxChunks /\ nitems' = Append(nitems, k)
      /\ free_first' = nx[obj] /\ free_last' = TakenLast(nx, obj, <<c, k>>)
      /\ next' = TakenNext(nx, obj) /\ prev' = TakenPrev(nx, pv, obj)
      /\ in_use' = in_use \cup {obj} /\ owned' = owned \cup {obj} /\ tripped' = tripped
  BY DEF nxp_alloc_chunk, TakeFirst, TakenLast, TakenNext, TakenPrev, LastChunk
<1>3. c \in 1 .. MaxChunks /\ k \in Sizes /\ k \in 1 .. MaxChunkItems /\ Len(nitems) \in Nat
  <2>1. Len(nitems) \in Nat /\ nitems[Len(nitems)] \in 1 .. MaxChunkItems BY ObjectsAre
  <2>2. c \in 1 .. MaxChunks BY <1>2, <2>1, PoolAssumption
  <2>3. k \in 1 .. MaxChunkItems BY <2>1, PoolAssumption DEF NewItems, LastChunk
  <2> QED BY <2>1, <2>2, <2>3 DEF Sizes
<1> HIDE DEF k
<1>4. nx \in Links /\ pv \in Links /\ IsList(G, obj, <<c, k>>, nx, pv) BY <1>1, <1>3, FreshChain
<1>5. obj \in AllObjects BY <1>3, PoolAssumption DEF AllObjects
<1>6. obj # NoObject BY <1>5, NoObjectIsNone
<1> HIDE DEF obj, nx, pv, G
<1>7. /\ obj \in G /\ TakenNext(nx, obj) \in Links /\ TakenPrev(nx, pv, obj) \in Links
      /\ IsList(G \ {obj}, nx[obj], TakenLast(nx, obj, <<c, k>>), TakenNext(nx, obj), TakenPrev(nx, pv, obj))
  <2> DEFINE l == <<c, k>>
  <2> HIDE DEF l
  <2>1. IsList(G, obj, l, nx, pv) BY <1>4 DEF l
  <2>2. /\ obj \in G /\ TakenNext(nx, obj) \in Links /\ TakenPrev(nx, pv, obj) \in Links
        /\ IsList(G \ {obj}, nx[obj], TakenLast(nx, obj, l), TakenNext(nx, obj), TakenPrev(nx, pv, obj))
    BY <1>4, <1>6, <2>1, TakeChain
  <2> QED BY <2>2 DEF l
<1>8. /\ nitems' \in Seq(Sizes) /\ Len(nitems') = c
      /\ ItemsIn(nitems') = ItemsIn(nitems) \cup ChunkObjects(c, k)
  BY <1>1, <1>2, <1>3, ItemsGrow
<1>9. Objects = ItemsIn(nitems) /\ Objects' = ItemsIn(nitems') BY DEF Objects, ItemsIn
<1>10. Objects' = Objects \cup G BY <1>8, <1>9 DEF G
<1>11. Objects \subseteq in_use
  <2>1. Objects \ in_use = {} BY <1>1, <1>2, EmptyChain
  <2> QED BY <2>1
<1>12. Objects \cap G = {}
  <2>1. \A o \in Objects : o[1] # c BY <1>3, ObjectsAre
  <2>2. \A o \in G : o[1] = c BY DEF G, ChunkObjects
  <2> QED BY <2>1, <2>2
<1>13. Objects' \ in_use' = G \ {obj} /\ in_use' \subseteq Objects' BY <1>1, <1>2, <1>7, <1>10, <1>11, <1>12
<1>14. Len(nitems') \in 1 .. MaxChunks BY <1>3, <1>8
<1> QED BY <1>1, <1>2, <1>7, <1>8, <1>13, <1>14 DEF PoolInv

LEMMA FreeStep == ASSUME PoolInv, NEW obj \in owned, nxp_free(obj) PROVE PoolInv'
<1> DEFINE F == Objects \ in_use
<1>1. /\ IsList(F, free_first, free_last, next, prev) /\ next \in Links /\ prev \in Links
      /\ in_use \subseteq Objects /\ owned = in_use /\ tripped = FALSE
      /\ nitems \in Seq(Sizes) /\ Len(nitems) \in 1 .. MaxChunks
  BY DEF PoolInv
<1>2. obj \in AllObjects /\ obj \in Objects /\ obj \in in_use /\ obj[1] \in 1 .. Len(nitems)
  BY <1>1, ObjectsAre
<1>3. /\ in_use' = in_use \ {obj} /\ owned' = owned \ {obj} /\ nitems' = nitems
      /\ tripped' = (tripped \/ obj \notin in_use \/ obj[1] > LastChunk)
  BY DEF nxp_free
<1>4. tripped' = FALSE
  <2>1. ~ (obj[1] > LastChunk) BY <1>1, <1>2, PoolAssumption DEF LastChunk
  <2> QED BY <1>1, <1>2, <1>3, <2>1
<1>5. Objects' = Objects BY <1>3 DEF Objects
<1>6. Objects' \ in_use' = F \cup {obj} /\ in_use' \subseteq Objects' /\ obj \notin F BY <1>1, <1>2, <1>3, <1>5
<1> HIDE DEF F
<1>7. /\ next' \in Links /\ prev' \in Links
      /\ IsList(F \cup {obj}, free_first', free_last', next', prev')
  <2>1. CASE AtEnd(obj)
    <3>1. /\ next' = AppendedNext(next, free_last, obj) /\ prev' = AppendedPrev(prev, free_last, obj)
          /\ free_first' = (IF free_last = NoObject THEN obj ELSE free_first) /\ free_last' = obj
      BY <2>1 DEF nxp_free, AppendedNext, AppendedPrev
    <3>2. /\ AppendedNext(next, free_last, obj) \in Links /\ AppendedPrev(prev, free_last, obj) \in Links
          /\ IsList(F \cup {obj}, IF free_last = NoObject THEN obj ELSE free_first, obj,
                    AppendedNext(next, free_last, obj), AppendedPrev(prev, free_last, obj))
      BY <1>1, <1>2, <1>6, AppendChain
    <3> QED BY <3>1, <3>2
  <2>2. CASE ~ AtEnd(obj)
    <3>1. /\ next' = PrependedNext(next, free_first, obj) /\ prev' = PrependedPrev(prev, free_first, obj)
          /\ free_last' = (IF free_first = NoObject THEN obj ELSE free_last) /\ free_first' = obj
      BY <2>2 DEF nxp_free, PrependedNext, PrependedPrev
    <3>2. /\ PrependedNext(next, free_first, obj) \in Links /\ PrependedPrev(prev, free_first, obj) \in Links
          /\ IsList(F \cup {obj}, obj, IF free_first = NoObject THEN obj ELSE free_last,
                    PrependedNext(next, free_first, obj), PrependedPrev(prev, free_first, obj))
      BY <1>1, <1>2, <1>6, PrependChain
    <3> QED BY <3>1, <3>2
  <2> QED BY <2>1, <2>2
<1> QED BY <1>1, <1>3, <1>4, <1>6, <1>7 DEF PoolInv

LEMMA GcStep == PoolInv /\ nxp_gc => PoolInv'
<1> SUFFICES ASSUME PoolInv, nxp_gc PROVE PoolInv' OBVIOUS
<1> DEFINE c == Len(nitems)
           n == nitems[c]
           F == Objects \ in_use
           G == F \ ChunkObjects(c, n)
           l0 == [next |-> next, prev |-> prev, first |-> free_first, last |-> free_last]
           l == Unlinked(l0, c, n)
           Kept(f) == [o \in AllObjects |-> IF o[1] = c THEN NoObject ELSE f[o]]
<1>1. /\ IsList(F, free_first, free_last, next, prev) /\ next \in Links /\ prev \in Links
      /\ in_use \subseteq Objects /\ owned = in_use /\ tripped = FALSE
      /\ nitems \in Seq(Sizes) /\ Len(nitems) \in 1 .. MaxChunks
  BY DEF PoolInv
<1>2. /\ c > 1 /\ (\A i \in 1 .. n : <<c, i>> \notin in_use)
      /\ nitems' = SubSeq(nitems, 1, c - 1) /\ next' = Kept(l.next) /\ prev' = Kept(l.prev)
      /\ free_first' = l.first /\ free_last' = l.last
      /\ in_use' = {o \in in_use : o[1] # c} /\ owned' = owned /\ tripped' = tripped
  BY DEF nxp_gc, LastChunk, LastIdle
<1>3. /\ c \in Nat /\ n \in 1 .. MaxChunkItems /\ ChunkObjects(c, n) \subseteq Objects
      /\ Objects \subseteq AllObjects
      /\ \A o \in Objects : o[1] = c => o \in ChunkObjects(c, n)
  BY ObjectsAre
<1>4. \A o \in ChunkObjects(c, n) : o \notin in_use
  <2>1. \A o \in ChunkObjects(c, n) : \E i \in 1 .. n : o = <<c, i>> BY DEF ChunkObjects
  <2> QED BY <1>2, <2>1
<1>5. in_use' = in_use BY <1>1, <1>2, <1>3, <1>4
<1>6. \A i \in 1 .. n : <<c, i>> \in F
  <2>1. \A i \in 1 .. n : <<c, i>> \in ChunkObjects(c, n) BY DEF ChunkObjects
  <2> QED BY <1>3, <1>4, <2>1
<1>7. n \in Nat BY <1>3
<1>8. /\ nitems' \in Seq(Sizes) /\ Len(nitems') = c - 1
      /\ ItemsIn(nitems') = ItemsIn(nitems) \ ChunkObjects(c, n)
  BY <1>1, <1>2, ItemsShrink
<1>9. Objects = ItemsIn(nitems) /\ Objects' = ItemsIn(nitems') BY DEF Objects, ItemsIn
<1>10. Objects' = Objects \ ChunkObjects(c, n) BY <1>8, <1>9
<1>11. Objects' \ in_use' = G /\ in_use' \subseteq Objects' BY <1>1, <1>4, <1>5, <1>10
<1>12. \A o \in G : o[1] # c /\ o \in AllObjects BY <1>3
<1>13. l0.next = next /\ l0.prev = prev /\ l0.first = free_first /\ l0.last = free_last OBVIOUS
<1> HIDE DEF F, l0, c, n
<1>14. l0.next \in Links /\ l0.prev \in Links /\ IsList(F, l0.first, l0.last, l0.next, l0.prev)
  BY <1>1, <1>13
<1>15. l.next \in Links /\ l.prev \in Links /\ IsList(G, l.first, l.last, l.next, l.prev)
  BY <1>6, <1>7, <1>14, UnlinkedChain
<1> HIDE DEF l, G
<1>16. next' \in Links /\ prev' \in Links BY <1>2, <1>15 DEF Links
<1>17. \A o \in G : next'[o] = l.next[o] /\ prev'[o] = l.prev[o] BY <1>2, <1>12
<1>18. IsList(G, l.first, l.last, next', prev') BY <1>15, <1>17, SameChain
<1>19. Len(nitems') \in 1 .. MaxChunks BY <1>1, <1>2, <1>3, <1>8, PoolAssumption DEF c
<1> QED BY <1>1, <1>2, <1>5, <1>8, <1>11, <1>16, <1>18, <1>19 DEF PoolInv

(* No sequence of allocations, frees and garbage collections breaks the    *)
(* list of free objects of nx_pool.c, whatever the sizes of the chunks.    *)
THEOREM PoolInvariant == PoolSpec => []PoolInv
<1>1. PoolInv /\ [PoolNext]_poolVars => PoolInv'
  <2> SUFFICES ASSUME PoolInv, [PoolNext]_poolVars PROVE PoolInv' OBVIOUS
  <2>1. CASE nxp_alloc BY <2>1, AllocStep
  <2>2. CASE nxp_alloc_chunk BY <2>2, AllocChunkStep
  <2>3. ASSUME NEW obj \in owned, nxp_free(obj) PROVE PoolInv' BY <2>3, FreeStep
  <2>4. CASE nxp_gc BY <2>4, GcStep
  <2>5. CASE UNCHANGED poolVars BY <2>5 DEF poolVars, PoolInv, Objects
  <2> QED BY <2>1, <2>2, <2>3, <2>4, <2>5 DEF PoolNext
<1> QED BY <1>1, PoolStarts, PTL DEF PoolSpec

(* The fields of the pool and of the objects keep their types.             *)
THEOREM PoolTypeCorrect == PoolSpec => []PoolTypeOK
<1>1. PoolInv => PoolTypeOK
  <2> SUFFICES ASSUME PoolInv PROVE PoolTypeOK OBVIOUS
  <2>1. PICK n, s : Chain(n, s, Objects \ in_use, free_first, free_last, next, prev) BY DEF PoolInv, IsList
  <2>2. /\ n \in Nat /\ s \in [1 .. n -> AllObjects]
        /\ free_first = (IF n = 0 THEN NoObject ELSE s[1]) /\ free_last = IF n = 0 THEN NoObject ELSE s[n]
    BY <2>1 DEF Chain
  <2>3. n # 0 => 1 \in 1 .. n /\ n \in 1 .. n BY <2>2
  <2>4. free_first \in AllObjects \cup {NoObject} /\ free_last \in AllObjects \cup {NoObject} BY <2>2, <2>3
  <2>5. \A i \in DOMAIN nitems : nitems[i] \in 1 .. MaxChunkItems BY LenProperties, ElementOfSeq DEF PoolInv, Sizes
  <2> QED BY <2>4, <2>5 DEF PoolInv, PoolTypeOK, Links
<1> QED BY <1>1, PoolInvariant, PTL

(* nx_pool never hands out an object twice, loses one or gives back memory *)
(* that is in use: what the program holds is what in_use marks, and the    *)
(* list from free_first holds every other object once.                     *)
THEOREM PoolIsSound == PoolSpec => []PoolSound
<1>1. PoolInv => PoolSound
  <2> SUFFICES ASSUME PoolInv PROVE PoolSound OBVIOUS
  <2>1. FreeListExact BY ListWalked DEF PoolInv
  <2>2. HeldIsAllocated BY DEF PoolInv, HeldIsAllocated, nxp_iterate_allocated_objects
  <2> QED BY <2>1, <2>2 DEF PoolSound
<1> QED BY <1>1, PoolInvariant, PTL

-----------------------------------------------------------------------------
(* The access log.                                                         *)

Record == [id : NetThreads \X Nat, size : Nat, at : Nat]

Thread == [pc : {"idle", "flush", "end", "ended"},
           bare : Nat, begun : Nat, done : Nat, block : Seq(Record), avail : Nat, ptr : Nat,
           out : Seq(Record), osize : Nat, next : Seq(Record)]

(* What a thread is about to do, and where it has records.                 *)
PhaseInv(r) ==
  /\ r.pc \in {"idle", "ended"} => r.out = <<>>
  /\ r.pc # "idle" => r.block = <<>>
  /\ r.next # <<>> => r.pc = "flush" /\ \E e \in Record : r.next = <<e>> /\ e.size <= BlockSize

(* The block, its pointer and what is left of it agree.                    *)
BlockInv(r) ==
  /\ r.block # <<>> => r.ptr = BlockSize - r.avail /\ Packed(r.block, r.ptr)
  /\ Packed(r.out, r.osize)

(* The numbers of the records of thread t that are not lost.               *)
KeptIds(l, t, r) ==
  {id \in Filed(l.files) \ l.lost : id[1] = t} \cup Ids(r.out) \cup Ids(r.block) \cup Ids(r.next)

(* The records of a thread are in order: files, being flushed, block.      *)
OrderInv(l, r) ==
  /\ \A f \in DOMAIN l.files :
       Older(l.files[f], r.out) /\ Older(l.files[f], r.block) /\ Older(l.files[f], r.next)
  /\ Rising(r.out) /\ Rising(r.block) /\ Older(r.out, r.block) /\ Older(r.out, r.next)

(* Every request has its record, or has been given up; so also those whose *)
(* record is torn, of which there is a piece in a file.                    *)
NumbersInv(l, t, r) ==
  /\ KeptIds(l, t, r) = {<<t, k>> : k \in 1 .. r.done} \ l.lost
  /\ \A k \in Nat : <<t, k>> \in l.lost => k \in 1 .. r.done
  /\ \A a \in Filed(l.files) : a[1] = t => a[2] \in 1 .. r.done

(* The log's file is the last, and records are in order in the files.      *)
FilesInv(l) ==
  /\ l \in [fd : Nat, files : Seq(Seq(Record)), held : BOOLEAN, restarts : Nat, stopped : BOOLEAN,
            lost : SUBSET (NetThreads \X Nat)]
  /\ l.fd \in {0, Len(l.files)}
  /\ \A f \in DOMAIN l.files :
       Rising(l.files[f]) /\ \A g \in DOMAIN l.files : f < g => Older(l.files[f], l.files[g])

ThreadInv(l, t, r) == r \in Thread /\ PhaseInv(r) /\ BlockInv(r) /\ OrderInv(l, r) /\ NumbersInv(l, t, r)

LogInv ==
  /\ FilesInv(log) /\ thr \in [NetThreads -> Thread]
  /\ \A t \in NetThreads : ThreadInv(log, t, thr[t])

-----------------------------------------------------------------------------
(* Lists of records.                                                       *)

LEMMA IdsEmpty == Ids(<<>>) = {} BY DEF Ids

LEMMA EmptyList ==
  /\ <<>> \in Seq(Record) /\ <<>> \in Seq(Seq(Record)) /\ Rising(<<>>)
  /\ \A q : Older(q, <<>>) /\ Older(<<>>, q)
<1>1. <<>> \in Seq(Record) /\ <<>> \in Seq(Seq(Record)) OBVIOUS
<1>2. Rising(<<>>) /\ \A q : Older(q, <<>>) /\ Older(<<>>, q) BY DEF Rising, Older
<1> QED BY <1>1, <1>2

LEMMA OneInList == ASSUME NEW e PROVE <<e>> # <<>> /\ <<e>>[1] = e OBVIOUS

LEMMA LongerList == ASSUME NEW E, NEW q \in Seq(E), NEW n \in Nat, Len(q) = n + 1 PROVE q # <<>> OBVIOUS

LEMMA IdsOne == ASSUME NEW e PROVE Ids(<<e>>) = {e.id}
<1>1. DOMAIN <<e>> = {1} /\ <<e>>[1] = e OBVIOUS
<1> QED BY <1>1 DEF Ids

LEMMA IdsAppend ==
  ASSUME NEW q \in Seq(Record), NEW e \in Record PROVE Ids(Append(q, e)) = Ids(q) \cup {e.id}
<1> DEFINE r == Append(q, e)
<1>1. r \in Seq(Record) /\ Len(r) = Len(q) + 1 /\ Len(q) \in Nat OBVIOUS
<1>2. \A i \in 1 .. Len(q) : r[i] = q[i] OBVIOUS
<1>3. r[Len(q) + 1] = e OBVIOUS
<1>4. DOMAIN r = 1 .. Len(q) + 1 /\ DOMAIN q = 1 .. Len(q) BY <1>1
<1> HIDE DEF r
<1> QED BY <1>1, <1>2, <1>3, <1>4 DEF Ids

LEMMA IdsJoin ==
  ASSUME NEW q \in Seq(Record), NEW r \in Seq(Record) PROVE Ids(q \o r) = Ids(q) \cup Ids(r)
<1> DEFINE s == q \o r
<1>1. s \in Seq(Record) /\ Len(s) = Len(q) + Len(r) /\ Len(q) \in Nat /\ Len(r) \in Nat OBVIOUS
<1>2. \A i \in 1 .. Len(q) : s[i] = q[i] OBVIOUS
<1>3. \A i \in 1 .. Len(r) : s[Len(q) + i] = r[i] OBVIOUS
<1>4. DOMAIN s = 1 .. Len(q) + Len(r) /\ DOMAIN q = 1 .. Len(q) /\ DOMAIN r = 1 .. Len(r) BY <1>1
<1> HIDE DEF s
<1>5. Ids(q) \subseteq Ids(s) BY <1>1, <1>2, <1>4 DEF Ids
<1>6. Ids(r) \subseteq Ids(s)
  <2> SUFFICES ASSUME NEW i \in 1 .. Len(r) PROVE r[i].id \in Ids(s) BY <1>4 DEF Ids
  <2>1. Len(q) + i \in DOMAIN s BY <1>1, <1>4
  <2> QED BY <2>1, <1>3 DEF Ids
<1>7. ASSUME NEW k \in DOMAIN s PROVE s[k].id \in Ids(q) \cup Ids(r)
  <2>1. CASE k <= Len(q) BY <2>1, <1>1, <1>2, <1>4 DEF Ids
  <2>2. CASE ~ k <= Len(q)
    <3>1. k - Len(q) \in 1 .. Len(r) /\ k = Len(q) + (k - Len(q)) BY <2>2, <1>1, <1>4
    <3>2. s[k] = r[k - Len(q)] BY <3>1, <1>3
    <3> QED BY <3>1, <3>2, <1>4 DEF Ids
  <2> QED BY <2>1, <2>2
<1>8. Ids(s) \subseteq Ids(q) \cup Ids(r) BY <1>7 DEF Ids
<1> QED BY <1>5, <1>6, <1>8 DEF s

(* Whether records are older depends on their numbers only.                *)
LEMMA OlderIds ==
  ASSUME NEW q, NEW r
  PROVE  Older(q, r) <=> \A a \in Ids(q), b \in Ids(r) : a[1] = b[1] => a[2] < b[2]
BY DEF Older, Ids

LEMMA OlderJoin ==
  ASSUME NEW q \in Seq(Record), NEW r \in Seq(Record), NEW s
  PROVE  /\ Older(q, s) /\ Older(r, s) => Older(q \o r, s)
         /\ Older(s, q) /\ Older(s, r) => Older(s, q \o r)
BY IdsJoin, OlderIds

LEMMA OlderAppend ==
  ASSUME NEW q \in Seq(Record), NEW e \in Record, NEW s, Older(s, q),
         \A a \in Ids(s) : a[1] = e.id[1] => a[2] < e.id[2]
  PROVE  Older(s, Append(q, e))
BY IdsAppend, OlderIds

LEMMA RisingAppend ==
  ASSUME NEW q \in Seq(Record), NEW e \in Record, Rising(q),
         \A a \in Ids(q) : a[1] = e.id[1] => a[2] < e.id[2]
  PROVE  Rising(Append(q, e))
<1> DEFINE r == Append(q, e)
<1>1. r \in Seq(Record) /\ Len(r) = Len(q) + 1 /\ Len(q) \in Nat OBVIOUS
<1>2. \A i \in 1 .. Len(q) : r[i] = q[i] OBVIOUS
<1>3. r[Len(q) + 1] = e OBVIOUS
<1>4. DOMAIN r = 1 .. Len(q) + 1 /\ DOMAIN q = 1 .. Len(q) BY <1>1
<1> HIDE DEF r
<1> SUFFICES ASSUME NEW i \in DOMAIN r, NEW j \in DOMAIN r, i < j, r[i].id[1] = r[j].id[1]
             PROVE  r[i].id[2] < r[j].id[2]
  BY DEF Rising, r
<1>5. i \in DOMAIN q BY <1>1, <1>4
<1>6. CASE j \in DOMAIN q BY <1>5, <1>6, <1>2, <1>4 DEF Rising
<1>7. CASE j \notin DOMAIN q
  <2>1. j = Len(q) + 1 BY <1>7, <1>1, <1>4
  <2>2. r[i].id \in Ids(q) BY <1>5, <1>2, <1>4 DEF Ids
  <2> QED BY <2>1, <2>2, <1>3
<1> QED BY <1>6, <1>7

LEMMA RisingJoin ==
  ASSUME NEW q \in Seq(Record), NEW r \in Seq(Record), Rising(q), Rising(r), Older(q, r)
  PROVE  Rising(q \o r)
<1> DEFINE s == q \o r
<1>1. s \in Seq(Record) /\ Len(s) = Len(q) + Len(r) /\ Len(q) \in Nat /\ Len(r) \in Nat OBVIOUS
<1>2. \A i \in 1 .. Len(q) : s[i] = q[i] OBVIOUS
<1>3. \A i \in 1 .. Len(r) : s[Len(q) + i] = r[i] OBVIOUS
<1>4. DOMAIN s = 1 .. Len(q) + Len(r) /\ DOMAIN q = 1 .. Len(q) /\ DOMAIN r = 1 .. Len(r) BY <1>1
<1> HIDE DEF s
<1>0. \A k \in DOMAIN s : k > Len(q) => k - Len(q) \in DOMAIN r /\ s[k] = r[k - Len(q)]
  <2> SUFFICES ASSUME NEW k \in DOMAIN s, k > Len(q) PROVE k - Len(q) \in DOMAIN r /\ s[k] = r[k - Len(q)]
    OBVIOUS
  <2>1. k - Len(q) \in 1 .. Len(r) /\ k = Len(q) + (k - Len(q)) BY <1>1, <1>4
  <2> QED BY <2>1, <1>3, <1>4
<1> SUFFICES ASSUME NEW i \in DOMAIN s, NEW j \in DOMAIN s, i < j, s[i].id[1] = s[j].id[1]
             PROVE  s[i].id[2] < s[j].id[2]
  BY DEF Rising, s
<1>5. CASE j <= Len(q)
  <2>1. i \in DOMAIN q /\ j \in DOMAIN q BY <1>5, <1>1, <1>4
  <2> QED BY <2>1, <1>2, <1>4 DEF Rising
<1>6. CASE i <= Len(q) /\ j > Len(q)
  <2>1. i \in DOMAIN q /\ s[i] = q[i] BY <1>6, <1>1, <1>2, <1>4
  <2> QED BY <2>1, <1>6, <1>0 DEF Older
<1>7. CASE i > Len(q)
  <2>1. j > Len(q) /\ i - Len(q) < j - Len(q) BY <1>7, <1>1, <1>4
  <2> QED BY <2>1, <1>7, <1>0 DEF Rising
<1>8. i \in Nat /\ j \in Nat BY <1>1, <1>4
<1> QED BY <1>5, <1>6, <1>7, <1>8, <1>1

LEMMA PackedEmpty == Packed(<<>>, 0)
BY DEF Packed

(* A record that is added where the others end leaves no gap.              *)
LEMMA PackedAppend ==
  ASSUME NEW q \in Seq(Record), NEW e \in Record, Packed(q, e.at)
  PROVE  Packed(Append(q, e), e.at + e.size)
<1> DEFINE r == Append(q, e)
<1>1. r \in Seq(Record) /\ Len(r) = Len(q) + 1 /\ Len(q) \in Nat OBVIOUS
<1>2. \A i \in 1 .. Len(q) : r[i] = q[i] OBVIOUS
<1>3. r[Len(q) + 1] = e OBVIOUS
<1>4. DOMAIN r = 1 .. Len(q) + 1 /\ DOMAIN q = 1 .. Len(q) BY <1>1
<1>5. r # <<>> /\ (q = <<>> <=> Len(q) = 0)
  <2>1. r # <<>> BY <1>1, LongerList
  <2>2. q = <<>> <=> Len(q) = 0 BY EmptySeq
  <2> QED BY <2>1, <2>2
<1> HIDE DEF r
<1>6. e.at + e.size = IF r = <<>> THEN 0 ELSE r[Len(r)].at + r[Len(r)].size BY <1>1, <1>3, <1>5
<1>7. ASSUME NEW i \in DOMAIN r PROVE r[i].at = IF i = 1 THEN 0 ELSE r[i - 1].at + r[i - 1].size
  <2>1. CASE i \in DOMAIN q
    <3>1. r[i] = q[i] /\ (i # 1 => i - 1 \in DOMAIN q) BY <2>1, <1>1, <1>2, <1>4
    <3>2. i # 1 => r[i - 1] = q[i - 1] BY <3>1, <1>2, <1>4
    <3> QED BY <2>1, <3>1, <3>2 DEF Packed
  <2>2. CASE i \notin DOMAIN q
    <3>1. i = Len(q) + 1 BY <2>2, <1>1, <1>4
    <3>2. CASE Len(q) = 0 BY <3>1, <3>2, <1>3, <1>5 DEF Packed
    <3>3. CASE Len(q) # 0
      <4>1. Len(q) \in DOMAIN q /\ i # 1 /\ i - 1 = Len(q) BY <3>1, <3>3, <1>1, <1>4
      <4>2. r[i - 1] = q[Len(q)] BY <4>1, <1>2, <1>4
      <4>3. e.at = q[Len(q)].at + q[Len(q)].size BY <3>3, <1>5 DEF Packed
      <4> QED BY <3>1, <4>1, <4>2, <4>3, <1>3
    <3> QED BY <3>2, <3>3
  <2> QED BY <2>1, <2>2
<1> QED BY <1>6, <1>7 DEF Packed, r

-----------------------------------------------------------------------------
LEMMA NatFacts ==
  \A n \in Nat : n + 1 \in Nat /\ (n + 1) - 1 = n /\ (n # 0 => n - 1 \in Nat /\ (n - 1) + 1 = n)
OBVIOUS

(* The records that a thread has are its own, and have numbers so far.     *)
LEMMA OwnRecords ==
  ASSUME NEW l, NEW t, NEW r, ThreadInv(l, t, r)
  PROVE  /\ r.done \in Nat
         /\ \A a \in KeptIds(l, t, r) :
              a[1] = t /\ a[2] \in 1 .. r.done /\ a = <<t, a[2]>> /\ a \notin l.lost
         /\ \A a \in Filed(l.files) : a[1] = t => a[2] \in 1 .. r.done
<1>1. r.done \in Nat BY DEF ThreadInv, Thread
<1>2. \A a \in KeptIds(l, t, r) : (\E k \in 1 .. r.done : a = <<t, k>>) /\ a \notin l.lost
  BY DEF ThreadInv, NumbersInv
<1>3. \A a \in KeptIds(l, t, r) :
        a[1] = t /\ a[2] \in 1 .. r.done /\ a = <<t, a[2]>> /\ a \notin l.lost
  BY <1>2
<1>4. \A a \in Filed(l.files) : a[1] = t => a[2] \in 1 .. r.done BY DEF ThreadInv, NumbersInv
<1> QED BY <1>1, <1>3, <1>4

(* What happens to the records of another thread does not matter.          *)
LEMMA OtherThread ==
  ASSUME NEW l, NEW m, NEW t, NEW u, NEW r, t # u, ThreadInv(l, u, r), DOMAIN m.files = DOMAIN l.files,
         \A f \in DOMAIN l.files : Ids(l.files[f]) \subseteq Ids(m.files[f]),
         \A f \in DOMAIN l.files : \A a \in Ids(m.files[f]) : a \in Ids(l.files[f]) \/ a[1] = t,
         \A a \in m.lost : a \in l.lost \/ a[1] = t, l.lost \subseteq m.lost
  PROVE  ThreadInv(m, u, r)
<1>1. {id \in Filed(m.files) : id[1] = u} = {id \in Filed(l.files) : id[1] = u} BY DEF Filed
<1>2. KeptIds(m, u, r) = KeptIds(l, u, r)
  <2>1. \A a : a[1] = u => (a \in m.lost <=> a \in l.lost) OBVIOUS
  <2>2. {id \in Filed(m.files) \ m.lost : id[1] = u} = {id \in Filed(l.files) \ l.lost : id[1] = u}
    BY <1>1, <2>1
  <2> QED BY <2>2 DEF KeptIds
<1>3. \A k \in Nat : <<u, k>> \in m.lost <=> <<u, k>> \in l.lost
  <2> SUFFICES ASSUME NEW k \in Nat, <<u, k>> \in m.lost PROVE <<u, k>> \in l.lost OBVIOUS
  <2>1. <<u, k>>[1] # t OBVIOUS
  <2> QED BY <2>1
<1>4. r.done \in Nat BY OwnRecords
<1>5. {<<u, k>> : k \in 1 .. r.done} \ m.lost = {<<u, k>> : k \in 1 .. r.done} \ l.lost
  <2>1. \A k \in 1 .. r.done : k \in Nat BY <1>4
  <2> QED BY <1>3, <2>1
<1>10. \A a \in Filed(m.files) : a[1] = u => a[2] \in 1 .. r.done BY <1>1 DEF ThreadInv, NumbersInv
<1>6. NumbersInv(m, u, r) BY <1>2, <1>3, <1>5, <1>10 DEF ThreadInv, NumbersInv
<1>7. ASSUME NEW f \in DOMAIN m.files, NEW q, Ids(q) \subseteq KeptIds(l, u, r), Older(l.files[f], q)
      PROVE  Older(m.files[f], q)
  <2>1. \A b \in Ids(q) : b[1] = u BY <1>7, OwnRecords
  <2>2. \A a \in Ids(l.files[f]), b \in Ids(q) : a[1] = b[1] => a[2] < b[2] BY <1>7, OlderIds
  <2>3. \A a \in Ids(m.files[f]), b \in Ids(q) : a[1] = b[1] => a \in Ids(l.files[f]) BY <1>7, <2>1
  <2> QED BY <2>2, <2>3, OlderIds
<1>8. OrderInv(m, r) BY <1>7 DEF ThreadInv, OrderInv, KeptIds
<1> QED BY <1>6, <1>8 DEF ThreadInv

(* One thread has gone on, and the files have not been touched.            *)
LEMMA ThreadStep ==
  ASSUME LogInv, NEW t \in NetThreads, NEW r, thr' = [thr EXCEPT ![t] = r],
         FilesInv(log'), log'.files = log.files, ThreadInv(log', t, r),
         \A a \in log'.lost : a \in log.lost \/ a[1] = t, log.lost \subseteq log'.lost
  PROVE  LogInv'
<1>1. thr' \in [NetThreads -> Thread] BY DEF LogInv, ThreadInv
<1>2. thr'[t] = r /\ \A u \in NetThreads \ {t} : thr'[u] = thr[u] BY DEF LogInv
<1>3. ASSUME NEW u \in NetThreads \ {t} PROVE ThreadInv(log', u, thr[u])
  <2>1. ThreadInv(log, u, thr[u]) BY DEF LogInv
  <2> QED BY <2>1, OtherThread
<1>4. \A u \in NetThreads : ThreadInv(log', u, thr'[u]) BY <1>2, <1>3
<1> QED BY <1>1, <1>4 DEF LogInv

-----------------------------------------------------------------------------
(* Adding a record to the block, a new one if need be.                     *)
LEMMA Added ==
  ASSUME NEW r \in Thread, BlockInv(r), NEW e \in Record,
         e.size <= IF r.block = <<>> THEN BlockSize ELSE r.avail
  PROVE  LET s == AddRecord(r, e)
         IN  /\ s \in Thread /\ BlockInv(s)
             /\ s.pc = r.pc /\ s.done = r.done
             /\ s.out = r.out /\ s.osize = r.osize /\ s.next = r.next
             /\ \E d \in Record : d.id = e.id /\ s.block = Append(r.block, d)
<1> DEFINE b == IF r.block = <<>> THEN [r EXCEPT !.avail = BlockSize, !.ptr = 0] ELSE r
           d == [e EXCEPT !.at = b.ptr]
           s == AddRecord(r, e)
<1>0. BlockSize \in Nat BY AccessLogAssumption
<1>1. /\ b \in Thread /\ b.block = r.block /\ b.out = r.out /\ b.osize = r.osize /\ b.next = r.next
      /\ b.pc = r.pc /\ b.done = r.done /\ e.size <= b.avail
  BY <1>0 DEF Thread
<1>2. b.ptr = BlockSize - b.avail /\ Packed(b.block, b.ptr)
  <2>1. CASE r.block = <<>>
    <3>1. b.ptr = 0 /\ b.avail = BlockSize /\ b.block = <<>> BY <2>1 DEF Thread
    <3> QED BY <3>1, <1>0, PackedEmpty
  <2>2. CASE r.block # <<>> BY <2>2 DEF BlockInv
  <2> QED BY <2>1, <2>2
<1>3. s = [b EXCEPT !.block = Append(@, d), !.avail = @ - e.size, !.ptr = @ + e.size] BY DEF AddRecord
<1> HIDE DEF b
<1>4. d \in Record /\ d.id = e.id /\ d.at = b.ptr /\ d.size = e.size BY <1>1 DEF Record, Thread
<1>5. b.avail \in Nat /\ b.ptr \in Nat /\ e.size \in Nat /\ b.block \in Seq(Record) BY <1>1 DEF Thread, Record
<1> HIDE DEF d, s
<1>6. /\ s.block = Append(r.block, d) /\ s.avail = b.avail - e.size /\ s.ptr = b.ptr + e.size
      /\ s.pc = r.pc /\ s.done = r.done
      /\ s.out = r.out /\ s.osize = r.osize /\ s.next = r.next
  BY <1>1, <1>3 DEF Thread
<1>7. s.avail \in Nat /\ s.ptr \in Nat /\ s.ptr = BlockSize - s.avail BY <1>0, <1>1, <1>2, <1>5, <1>6
<1>8. s.block \in Seq(Record) BY <1>1, <1>4, <1>5, <1>6
<1>9. s \in Thread
  <2>1. b.avail - e.size \in Nat /\ b.ptr + e.size \in Nat /\ Append(b.block, d) \in Seq(Record)
    BY <1>1, <1>6, <1>7, <1>8
  <2> QED BY <1>1, <1>3, <2>1 DEF Thread
<1>10. Packed(s.block, s.ptr) BY <1>1, <1>2, <1>4, <1>5, <1>6, PackedAppend
<1>11. BlockInv(s) BY <1>6, <1>7, <1>10 DEF BlockInv
<1> QED BY <1>4, <1>6, <1>9, <1>11 DEF s

-----------------------------------------------------------------------------
(* The actions.                                                            *)

LEMMA LogBegins == ASSUME LogInit PROVE LogInv
<1> DEFINE r0 == [pc |-> "idle", bare |-> 0, begun |-> 0, done |-> 0, block |-> <<>>,
                  avail |-> 0, ptr |-> 0, out |-> <<>>, osize |-> 0, next |-> <<>>]
<1>1. thr = [t \in NetThreads |-> r0] BY DEF LogInit
<1>2. r0 \in Thread BY DEF Thread
<1>3. PhaseInv(r0) /\ BlockInv(r0) BY PackedEmpty DEF PhaseInv, BlockInv
<1>4. log.files = <<<<>>>> /\ log.lost = {} /\ DOMAIN log.files = {1} /\ log.files[1] = <<>> BY DEF LogInit
<1>5. FilesInv(log)
  <2>1. <<>> \in Seq(Record) OBVIOUS
  <2>2. <<<<>>>> \in Seq(Seq(Record)) /\ Len(log.files) = 1 BY <2>1, <1>4
  <2>3. Rising(<<>>) BY DEF Rising
  <2>4. log \in [fd : Nat, files : Seq(Seq(Record)), held : BOOLEAN, restarts : Nat, stopped : BOOLEAN,
                 lost : SUBSET (NetThreads \X Nat)] /\ log.fd \in {0, 1}
    BY <2>2 DEF LogInit
  <2> QED BY <1>4, <2>2, <2>3, <2>4 DEF FilesInv
<1>6. OrderInv(log, r0) BY <1>4 DEF OrderInv, Older, Rising
<1>7. ASSUME NEW t \in NetThreads PROVE NumbersInv(log, t, r0)
  <2>1. Filed(log.files) = {} BY <1>4, IdsEmpty DEF Filed
  <2>2. KeptIds(log, t, r0) = {} BY <2>1, IdsEmpty DEF KeptIds
  <2> QED BY <2>1, <2>2, <1>4 DEF NumbersInv
<1> QED BY <1>1, <1>2, <1>3, <1>5, <1>6, <1>7 DEF LogInv, ThreadInv

(* A request has come, or has got its first fragment.                      *)
LEMMA ReceivedKeeps ==
  ASSUME LogInv, NEW t \in NetThreads, LogRequestReceived(t) \/ LogProxyResponse(t) PROVE LogInv'
<1> DEFINE r == thr[t]
<1>1. ThreadInv(log, t, r) /\ FilesInv(log) /\ log' = log
  BY DEF LogInv, LogRequestReceived, LogProxyResponse
<1>2. r \in Thread BY <1>1 DEF ThreadInv
<1>3. r.bare \in Nat /\ r.begun \in Nat BY <1>2 DEF Thread
<1>4. PICK b \in Nat, n \in Nat : thr' = [thr EXCEPT ![t] = [r EXCEPT !.bare = b, !.begun = n]]
  <2>1. CASE LogRequestReceived(t) /\ log.fd # 0
    <3>1. thr' = [thr EXCEPT ![t] = [r EXCEPT !.bare = r.bare, !.begun = r.begun + 1]]
      BY <2>1, <1>2 DEF LogRequestReceived, LogInv, Thread
    <3> QED BY <3>1, <1>3, NatFacts
  <2>2. CASE LogRequestReceived(t) /\ log.fd = 0
    <3>1. thr' = [thr EXCEPT ![t] = [r EXCEPT !.bare = r.bare + 1, !.begun = r.begun]]
      BY <2>2, <1>2 DEF LogRequestReceived, LogInv, Thread
    <3> QED BY <3>1, <1>3, NatFacts
  <2>3. CASE LogProxyResponse(t)
    <3>1. thr' = [thr EXCEPT ![t] = [r EXCEPT !.bare = r.bare - 1, !.begun = r.begun + 1]] /\ r.bare # 0
      BY <2>3, <1>2 DEF LogProxyResponse, LogInv, Thread
    <3> QED BY <3>1, <1>3, NatFacts
  <2> QED BY <2>1, <2>2, <2>3
<1> DEFINE s == [r EXCEPT !.bare = b, !.begun = n]
<1>5. s \in Thread BY <1>2 DEF Thread
<1>6. /\ s.pc = r.pc /\ s.done = r.done /\ s.block = r.block /\ s.avail = r.avail
      /\ s.ptr = r.ptr /\ s.out = r.out /\ s.osize = r.osize /\ s.next = r.next
  BY <1>2 DEF Thread
<1>9. thr' = [thr EXCEPT ![t] = s] BY <1>4
<1> HIDE DEF s, r
<1>7. PhaseInv(s) /\ BlockInv(s) /\ OrderInv(log, s) BY <1>1, <1>6 DEF ThreadInv, PhaseInv, BlockInv, OrderInv
<1>8. NumbersInv(log, t, s) BY <1>1, <1>6 DEF ThreadInv, NumbersInv, KeptIds
<1> QED BY <1>1, <1>9, <1>5, <1>7, <1>8, ThreadStep DEF ThreadInv, r

(* A request more has got its record.                                      *)
LEMMA OneMore ==
  ASSUME NEW l, NEW t, NEW r, NEW s, ThreadInv(l, t, r), s.done = r.done + 1,
         KeptIds(l, t, s) = KeptIds(l, t, r) \cup {<<t, s.done>>}
  PROVE  NumbersInv(l, t, s)
<1>1. r.done \in Nat BY OwnRecords
<1>2. NumbersInv(l, t, r) BY DEF ThreadInv
<1>3. 1 .. s.done = 1 .. r.done \cup {s.done} BY <1>1
<1>4. <<t, s.done>> \notin l.lost
  <2>1. s.done \in Nat /\ s.done \notin 1 .. r.done BY <1>1
  <2> QED BY <2>1, <1>2 DEF NumbersInv
<1> QED BY <1>1, <1>2, <1>3, <1>4 DEF NumbersInv

(* A record that is given up.                                              *)
LEMMA OneLost ==
  ASSUME NEW l, NEW t, NEW r, NEW s, NEW m, ThreadInv(l, t, r), s.done = r.done + 1,
         m.files = l.files, m.lost = l.lost \cup {<<t, s.done>>},
         s.out = r.out, s.block = r.block, s.next = r.next
  PROVE  NumbersInv(m, t, s)
<1>1. r.done \in Nat BY OwnRecords
<1>2. NumbersInv(l, t, r) BY DEF ThreadInv
<1>3. 1 .. s.done = 1 .. r.done \cup {s.done} BY <1>1
<1>4. s.done \notin 1 .. r.done BY <1>1
<1>5. ASSUME NEW k \in 1 .. r.done PROVE <<t, k>> # <<t, s.done>>
  BY <1>4
<1>6. {<<t, k>> : k \in 1 .. s.done} \ m.lost = {<<t, k>> : k \in 1 .. r.done} \ l.lost
  BY <1>3, <1>5
<1>7. \A k \in Nat : <<t, k>> \in m.lost => k \in 1 .. s.done
  <2> SUFFICES ASSUME NEW k \in Nat, <<t, k>> \in m.lost PROVE k \in 1 .. s.done OBVIOUS
  <2>1. CASE <<t, k>> \in l.lost BY <2>1, <1>2, <1>3 DEF NumbersInv
  <2>2. CASE k = s.done BY <2>2, <1>3
  <2> QED BY <2>1, <2>2
<1>8. KeptIds(m, t, s) = KeptIds(l, t, r)
  <2>1. \A a \in Filed(l.files) : a[1] = t => a # <<t, s.done>>
    <3>1. <<t, s.done>>[2] = s.done OBVIOUS
    <3> QED BY <3>1, <1>2, <1>4 DEF NumbersInv
  <2>2. {id \in Filed(m.files) \ m.lost : id[1] = t} = {id \in Filed(l.files) \ l.lost : id[1] = t}
    BY <2>1
  <2> QED BY <2>2 DEF KeptIds
<1>9. \A a \in Filed(m.files) : a[1] = t => a[2] \in 1 .. s.done BY <1>2, <1>3 DEF NumbersInv
<1> QED BY <1>2, <1>6, <1>7, <1>8, <1>9 DEF NumbersInv

(* A request is complete, and nothing is written of it.                    *)
LEMMA GivenUp ==
  ASSUME LogInv, NEW t \in NetThreads, NEW r \in Thread, r.pc = thr[t].pc, r.done = thr[t].done + 1,
         r.block = thr[t].block, r.avail = thr[t].avail, r.ptr = thr[t].ptr, r.out = thr[t].out,
         r.osize = thr[t].osize, r.next = thr[t].next,
         thr' = [thr EXCEPT ![t] = r], log' = [log EXCEPT !.lost = @ \cup {<<t, r.done>>}]
  PROVE  LogInv'
<1>1. ThreadInv(log, t, thr[t]) /\ FilesInv(log) BY DEF LogInv
<1>2. log'.files = log.files /\ log'.lost = log.lost \cup {<<t, r.done>>} BY <1>1 DEF FilesInv
<1>3. FilesInv(log')
  <2>1. <<t, r.done>> \in NetThreads \X Nat BY DEF Thread
  <2> QED BY <1>1, <2>1 DEF FilesInv
<1>4. PhaseInv(r) /\ BlockInv(r) BY <1>1 DEF ThreadInv, PhaseInv, BlockInv
<1>5. OrderInv(log', r) BY <1>1, <1>2 DEF ThreadInv, OrderInv
<1>6. NumbersInv(log', t, r) BY <1>1, <1>2, OneLost
<1>7. ThreadInv(log', t, r) BY <1>4, <1>5, <1>6 DEF ThreadInv
<1>8. \A a \in log'.lost : a \in log.lost \/ a[1] = t BY <1>2
<1> QED BY <1>2, <1>3, <1>7, <1>8, ThreadStep

LEMMA NothingKeeps == ASSUME LogInv, NEW t \in NetThreads, LogNothing(t) PROVE LogInv'
<1> DEFINE o == thr[t]
           r == [o EXCEPT !.bare = @ - 1, !.done = @ + 1]
<1>1. o \in Thread /\ o.bare # 0 BY DEF LogInv, LogNothing
<1>2. thr' = [thr EXCEPT ![t] = r] /\ log' = [log EXCEPT !.lost = @ \cup {<<t, o.done + 1>>}]
  BY DEF LogNothing, LogInv, Thread
<1> HIDE DEF o
<1>3. o.bare - 1 \in Nat /\ o.done + 1 \in Nat BY <1>1, NatFacts DEF Thread
<1>4. r \in Thread BY <1>1, <1>3 DEF Thread
<1>5. /\ r.pc = o.pc /\ r.done = o.done + 1 /\ r.block = o.block /\ r.avail = o.avail /\ r.ptr = o.ptr
      /\ r.out = o.out /\ r.osize = o.osize /\ r.next = o.next
  BY <1>1 DEF Thread
<1> HIDE DEF r
<1> QED BY <1>2, <1>4, <1>5, GivenUp DEF o

LEMMA CompleteKeeps == ASSUME LogInv, NEW t \in NetThreads, LogRequestComplete(t) PROVE LogInv'
<1>1. ThreadInv(log, t, thr[t]) /\ FilesInv(log) /\ thr[t].pc = "idle" /\ thr[t].begun # 0
  BY DEF LogInv, LogRequestComplete
<1>2. PICK size \in RecordSizes :
        LET r == [thr[t] EXCEPT !.begun = @ - 1, !.done = @ + 1]
            rec == [id |-> <<t, r.done>>, size |-> size, at |-> 0]
            too_large == size >= BlockSize
        IN  /\ thr' = [thr EXCEPT ![t] =
                 IF too_large THEN r
                 ELSE IF Flushes(r, size) THEN [BeginFlush(r, <<rec>>) EXCEPT !.pc = "flush"]
                 ELSE AddRecord(r, rec)]
            /\ log' = IF too_large THEN [log EXCEPT !.lost = @ \cup {rec.id}] ELSE log
  BY DEF LogRequestComplete
<1> DEFINE o == thr[t]
           r == [thr[t] EXCEPT !.begun = @ - 1, !.done = @ + 1]
           n == r.done
           e == [id |-> <<t, n>>, size |-> size, at |-> 0]
<1>3. size \in Nat /\ BlockSize \in Nat BY AccessLogAssumption
<1>4. o \in Thread /\ PhaseInv(o) /\ BlockInv(o) /\ OrderInv(log, o) BY <1>1 DEF ThreadInv
<1>5. e.id = <<t, n>> /\ e.size = size OBVIOUS
<1>7. r \in Thread
  <2>1. o.begun - 1 \in Nat /\ o.done + 1 \in Nat BY <1>1, <1>4, NatFacts DEF Thread
  <2> QED BY <1>4, <2>1 DEF Thread
<1>8. /\ r.pc = o.pc /\ r.block = o.block /\ r.avail = o.avail /\ r.ptr = o.ptr
      /\ r.out = o.out /\ r.osize = o.osize /\ r.next = o.next /\ n = o.done + 1 /\ n \in Nat /\ o.done \in Nat
  BY <1>4, <1>7 DEF Thread
<1>6. e \in Record BY <1>3, <1>8 DEF Record
<1>10. o.out = <<>> /\ o.next = <<>> BY <1>1, <1>4 DEF PhaseInv
<1>16. r.pc = "idle" /\ r.done = n BY <1>1, <1>8
<1> HIDE DEF o, r, n, e
<1>11. \A a \in Ids(o.block) \cup Filed(log.files) : a[1] = t => a[2] < n
  <2>1. \A a \in Ids(o.block) \cup Filed(log.files) : a[1] = t => a[2] \in 1 .. o.done
    BY <1>1, OwnRecords DEF KeptIds, o
  <2> QED BY <2>1, <1>8
<1>12. \A f \in DOMAIN log.files : \A a \in Ids(log.files[f]) : a[1] = t => a[2] < n
  BY <1>11 DEF Filed
<1>13. CASE size >= BlockSize
  <2>1. thr' = [thr EXCEPT ![t] = r] /\ log' = [log EXCEPT !.lost = @ \cup {<<t, n>>}]
    BY <1>2, <1>13 DEF r, n
  <2> QED BY <2>1, <1>7, <1>8, <1>16, GivenUp DEF o
<1>14. CASE ~ size >= BlockSize /\ Flushes(r, size)
  <2> DEFINE s == [BeginFlush(r, <<e>>) EXCEPT !.pc = "flush"]
  <2>1. thr' = [thr EXCEPT ![t] = s] /\ log' = log BY <1>2, <1>14 DEF r, e, n
  <2>2. <<e>> \in Seq(Record) BY <1>6
  <2>3. /\ s.pc = "flush" /\ s.done = n /\ s.next = <<e>> /\ s.block = <<>> /\ s.out = r.block
        /\ s.osize = IF r.block = <<>> THEN r.osize ELSE BlockSize - r.avail
    BY <1>7, <1>8, <1>10, <1>16 DEF BeginFlush, Thread
  <2>4. r.block # <<>> => BlockSize - r.avail = r.ptr /\ Packed(r.block, r.ptr)
    BY <1>4, <1>8 DEF BlockInv
  <2>5. s \in Thread
    <3>1. CASE r.block = <<>> BY <3>1, <1>7, <2>2 DEF BeginFlush, Thread
    <3>2. CASE r.block # <<>>
      <4>1. BlockSize - r.avail \in Nat BY <3>2, <2>4, <1>7 DEF Thread
      <4>2. <<>> \in Seq(Record) /\ r.block \in Seq(Record) BY <1>7, EmptyList DEF Thread
      <4>3. s = [r EXCEPT !.pc = "flush", !.out = r.block, !.osize = BlockSize - r.avail,
                          !.block = <<>>, !.next = <<e>>]
        BY <3>2, <1>7 DEF BeginFlush, Thread
      <4> HIDE DEF s
      <4> QED BY <4>1, <4>2, <4>3, <1>7, <2>2 DEF Thread
    <3> QED BY <3>1, <3>2
  <2> HIDE DEF s
  <2>6. PhaseInv(s) BY <1>3, <1>5, <1>6, <1>14, <2>3 DEF PhaseInv
  <2>7. BlockInv(s)
    <3>1. CASE r.block = <<>> BY <3>1, <2>3, <1>4, <1>8, <1>10 DEF BlockInv
    <3>2. CASE r.block # <<>> BY <3>2, <2>3, <2>4 DEF BlockInv
    <3> QED BY <3>1, <3>2
  <2>8. Ids(s.next) = {<<t, n>>} /\ Ids(s.block) = {} BY <2>3, <1>5, IdsEmpty, IdsOne
  <2>9. OrderInv(log, s)
    <3>1. \A f \in DOMAIN log.files : Older(log.files[f], s.next) BY <2>8, <1>12, OlderIds
    <3>2. Older(s.out, s.next) BY <2>3, <2>8, <1>8, <1>11, OlderIds
    <3>3. \A f \in DOMAIN log.files : Older(log.files[f], s.block) BY <2>8, OlderIds
    <3>4. Older(s.out, s.block) BY <2>8, OlderIds
    <3>5. Rising(s.block) BY <2>3 DEF Rising
    <3>6. Rising(s.out) /\ \A f \in DOMAIN log.files : Older(log.files[f], s.out)
      BY <2>3, <1>4, <1>8 DEF OrderInv
    <3> QED BY <3>1, <3>2, <3>3, <3>4, <3>5, <3>6 DEF OrderInv
  <2>10. s.done = o.done + 1 BY <2>3, <1>8
  <2>11. KeptIds(log, t, s) = KeptIds(log, t, o) \cup {<<t, n>>}
    BY <1>8, <1>10, <2>3, <2>8, IdsEmpty DEF KeptIds
  <2>12. NumbersInv(log, t, s) BY <1>1, <2>3, <2>10, <2>11, OneMore DEF o
  <2> QED BY <1>1, <2>1, <2>5, <2>6, <2>7, <2>9, <2>12, ThreadStep DEF ThreadInv
<1>15. CASE ~ size >= BlockSize /\ ~ Flushes(r, size)
  <2> DEFINE s == AddRecord(r, e)
  <2>1. thr' = [thr EXCEPT ![t] = s] /\ log' = log BY <1>2, <1>15 DEF r, e, n
  <2>2. e.size <= IF r.block = <<>> THEN BlockSize ELSE r.avail
    <3>1. ~ size > r.avail /\ r.avail \in Nat /\ ~ size >= BlockSize BY <1>7, <1>15 DEF Flushes, Thread
    <3>2. size <= r.avail /\ size <= BlockSize BY <3>1, <1>3
    <3> QED BY <3>2, <1>5
  <2>3. BlockInv(r) BY <1>4, <1>8 DEF BlockInv
  <2>4. /\ s \in Thread /\ BlockInv(s) /\ s.pc = r.pc /\ s.done = r.done
        /\ s.out = r.out /\ s.next = r.next
        /\ \E d \in Record : d.id = e.id /\ s.block = Append(r.block, d)
    BY <1>6, <1>7, <2>2, <2>3, Added
  <2> HIDE DEF s
  <2>5. PICK d \in Record : d.id = <<t, n>> /\ s.block = Append(o.block, d) BY <2>4, <1>5, <1>8
  <2>6. o.block \in Seq(Record) BY <1>4 DEF Thread
  <2>7. PhaseInv(s) BY <2>4, <1>8, <1>10, <1>16 DEF PhaseInv
  <2>8. OrderInv(log, s)
    <3>1. Rising(s.block) BY <2>5, <2>6, <1>4, <1>11, RisingAppend DEF OrderInv
    <3>2. \A f \in DOMAIN log.files : Older(log.files[f], s.block)
      BY <2>5, <2>6, <1>4, <1>12, OlderAppend DEF OrderInv
    <3>3. Older(s.out, s.block) BY <2>4, <1>8, <1>10 DEF Older
    <3> QED BY <3>1, <3>2, <3>3, <2>4, <1>4, <1>8 DEF OrderInv
  <2>9. s.done = n /\ s.done = o.done + 1 BY <2>4, <1>8, <1>16
  <2>10. Ids(s.block) = Ids(o.block) \cup {<<t, n>>} BY <2>5, <2>6, IdsAppend
  <2>11. KeptIds(log, t, s) = KeptIds(log, t, o) \cup {<<t, n>>}
    BY <1>8, <2>4, <2>10 DEF KeptIds
  <2>12. NumbersInv(log, t, s) BY <1>1, <2>9, <2>11, OneMore DEF o
  <2> QED BY <1>1, <2>1, <2>4, <2>7, <2>8, <2>12, ThreadStep DEF ThreadInv
<1> QED BY <1>13, <1>14, <1>15

(* The thread's block is taken to be flushed.                              *)
LEMMA FlushBegun ==
  ASSUME NEW l, NEW t, NEW r, ThreadInv(l, t, r), r.pc = "idle", NEW pc \in {"flush", "end"}
  PROVE  ThreadInv(l, t, [BeginFlush(r, <<>>) EXCEPT !.pc = pc])
<1> DEFINE s == [BeginFlush(r, <<>>) EXCEPT !.pc = pc]
<1>1. r \in Thread /\ PhaseInv(r) /\ BlockInv(r) /\ OrderInv(l, r) /\ NumbersInv(l, t, r) BY DEF ThreadInv
<1>2. r.out = <<>> /\ r.next = <<>> BY <1>1 DEF PhaseInv
<1>3. /\ s.pc = pc /\ s.done = r.done /\ s.next = <<>> /\ s.block = <<>> /\ s.out = r.block
      /\ s.osize = IF r.block = <<>> THEN r.osize ELSE BlockSize - r.avail
  BY <1>1, <1>2 DEF BeginFlush, Thread
<1>4. r.block # <<>> => BlockSize - r.avail = r.ptr /\ Packed(r.block, r.ptr) BY <1>1 DEF BlockInv
<1>5. s \in Thread
  <2>1. CASE r.block = <<>>
    <3>1. s = [r EXCEPT !.pc = pc, !.next = <<>>] BY <2>1, <1>1 DEF BeginFlush, Thread
    <3>2. <<>> \in Seq(Record) BY EmptyList
    <3> HIDE DEF s
    <3> QED BY <3>1, <3>2, <1>1 DEF Thread
  <2>2. CASE r.block # <<>>
    <3>1. BlockSize - r.avail \in Nat BY <2>2, <1>1, <1>4 DEF Thread
    <3>2. <<>> \in Seq(Record) /\ r.block \in Seq(Record) BY <1>1, EmptyList DEF Thread
    <3>3. s = [r EXCEPT !.pc = pc, !.out = r.block, !.osize = BlockSize - r.avail,
                        !.block = <<>>, !.next = <<>>]
      BY <2>2, <1>1 DEF BeginFlush, Thread
    <3> HIDE DEF s
    <3> QED BY <3>1, <3>2, <3>3, <1>1 DEF Thread
  <2> QED BY <2>1, <2>2
<1> HIDE DEF s
<1>6. PhaseInv(s) BY <1>1, <1>3 DEF PhaseInv
<1>7. BlockInv(s)
  <2>1. CASE r.block = <<>> BY <2>1, <1>1, <1>2, <1>3 DEF BlockInv
  <2>2. CASE r.block # <<>> BY <2>2, <1>3, <1>4 DEF BlockInv
  <2> QED BY <2>1, <2>2
<1>8. OrderInv(l, s)
  BY <1>1, <1>3, EmptyList DEF OrderInv
<1>9. KeptIds(l, t, s) = KeptIds(l, t, r) BY <1>2, <1>3, IdsEmpty DEF KeptIds
<1>10. NumbersInv(l, t, s) BY <1>1, <1>3, <1>9 DEF NumbersInv
<1> QED BY <1>5, <1>6, <1>7, <1>8, <1>10 DEF ThreadInv, s

LEMMA GcAndEndKeep == ASSUME LogInv, NEW t \in NetThreads, LogGc(t) \/ LogThreadEnds(t) PROVE LogInv'
<1>1. ThreadInv(log, t, thr[t]) /\ FilesInv(log) /\ log' = log BY DEF LogInv, LogGc, LogThreadEnds
<1>2. PICK pc \in {"flush", "end"} :
        thr' = [thr EXCEPT ![t] = [BeginFlush(thr[t], <<>>) EXCEPT !.pc = pc]] /\ thr[t].pc = "idle"
  <2>1. CASE LogGc(t)
    <3>1. thr' = [thr EXCEPT ![t] = [BeginFlush(thr[t], <<>>) EXCEPT !.pc = "flush"]] /\ thr[t].pc = "idle"
      BY <2>1 DEF LogGc
    <3> QED BY <3>1
  <2>2. CASE LogThreadEnds(t)
    <3>1. thr' = [thr EXCEPT ![t] = [BeginFlush(thr[t], <<>>) EXCEPT !.pc = "end"]] /\ thr[t].pc = "idle"
      BY <2>2 DEF LogThreadEnds
    <3> QED BY <3>1
  <2> QED BY <2>1, <2>2
<1> QED BY <1>1, <1>2, FlushBegun, ThreadStep

(* The block is out of the thread's hands, and the record that did not fit *)
(* is the first of a new one.                                              *)
LEMMA Flushed ==
  ASSUME NEW l, NEW t, NEW r, ThreadInv(l, t, r), r.pc \in {"flush", "end"},
         NEW pc, pc = IF r.pc = "end" THEN "ended" ELSE "idle"
  PROVE  LET s == [Written(r) EXCEPT !.pc = pc]
         IN  /\ s \in Thread /\ PhaseInv(s) /\ BlockInv(s) /\ s.out = <<>> /\ s.next = <<>>
             /\ Ids(s.block) = Ids(r.next) /\ Rising(s.block) /\ s.done = r.done
<1> DEFINE w == [r EXCEPT !.out = <<>>, !.osize = 0, !.next = <<>>]
           v == Written(r)
           s == [v EXCEPT !.pc = pc]
<1>1. r \in Thread /\ PhaseInv(r) /\ BlockInv(r) BY DEF ThreadInv
<1>2. r.block = <<>> BY <1>1 DEF PhaseInv
<1>3. <<>> \in Seq(Record) /\ 0 \in Nat BY EmptyList
<1>4. w \in Thread BY <1>1, <1>3 DEF Thread
<1>5. /\ w.pc = r.pc /\ w.done = r.done /\ w.block = <<>> /\ w.out = <<>> /\ w.osize = 0 /\ w.next = <<>>
  BY <1>1, <1>2 DEF Thread
<1>6. BlockInv(w) BY <1>5, PackedEmpty DEF BlockInv
<1>7. v = IF r.next = <<>> THEN w ELSE AddRecord(w, r.next[1]) BY DEF Written
<1> HIDE DEF w, v
<1>8. /\ v \in Thread /\ BlockInv(v) /\ v.pc = r.pc /\ v.done = r.done /\ v.out = <<>> /\ v.next = <<>>
      /\ Ids(v.block) = Ids(r.next) /\ Rising(v.block) /\ (r.pc # "flush" => v.block = <<>>)
  <2>1. CASE r.next # <<>>
    <3>1. PICK e \in Record : r.next = <<e>> /\ e.size <= BlockSize /\ r.pc = "flush"
      BY <2>1, <1>1 DEF PhaseInv
    <3>2. r.next # <<>> /\ r.next[1] = e BY <3>1, OneInList
    <3>3. v = AddRecord(w, e) BY <3>2, <1>7
    <3>4. e.size <= IF w.block = <<>> THEN BlockSize ELSE w.avail BY <3>1, <1>5
    <3>5. /\ v \in Thread /\ BlockInv(v) /\ v.pc = w.pc /\ v.done = w.done /\ v.out = w.out
          /\ v.next = w.next /\ \E d \in Record : d.id = e.id /\ v.block = Append(w.block, d)
      BY <3>3, <3>4, <1>4, <1>6, Added
    <3>6. PICK d \in Record : d.id = e.id /\ v.block = Append(<<>>, d) BY <3>5, <1>5
    <3>7. Ids(v.block) = {e.id} BY <3>6, <1>3, IdsAppend, IdsEmpty
    <3>8. Rising(<<>>) BY EmptyList
    <3>9. Rising(v.block) BY <3>6, <3>8, <1>3, IdsEmpty, RisingAppend
    <3> QED BY <3>1, <3>5, <3>7, <3>9, <1>5, IdsOne
  <2>2. CASE r.next = <<>>
    <3>1. v = w BY <2>2, <1>7
    <3> QED BY <2>2, <3>1, <1>4, <1>5, <1>6, EmptyList
  <2> QED BY <2>1, <2>2
<1>9. pc \in {"idle", "ended"} /\ s \in Thread
  <2>1. pc \in {"idle", "ended"} OBVIOUS
  <2> QED BY <2>1, <1>8 DEF Thread
<1>10. /\ s.pc = pc /\ s.done = v.done /\ s.block = v.block /\ s.avail = v.avail /\ s.ptr = v.ptr
       /\ s.out = v.out /\ s.osize = v.osize /\ s.next = v.next
  BY <1>8 DEF Thread
<1> HIDE DEF s
<1>11. PhaseInv(s)
  <2>1. pc = "ended" => s.block = <<>> BY <1>8, <1>10
  <2> QED BY <2>1, <1>8, <1>9, <1>10 DEF PhaseInv
<1>12. BlockInv(s) BY <1>8, <1>10 DEF BlockInv
<1> QED BY <1>8, <1>9, <1>10, <1>11, <1>12 DEF s, v

(* What a write that falls short leaves of a block: its first m records,   *)
(* of which the last may be torn; all but the first n are lost.            *)
LEMMA ShortWrite ==
  ASSUME NEW q \in Seq(Record), NEW n \in 0 .. Len(q), NEW m \in 0 .. Len(q), m \in {n, n + 1}
  PROVE  LET w == SubSeq(q, 1, m)
             x == SubSeq(q, n + 1, Len(q))
         IN  /\ w \in Seq(Record) /\ (Rising(q) => Rising(w))
             /\ Ids(w) \cup Ids(x) = Ids(q)
<1> DEFINE w == SubSeq(q, 1, m)
           x == SubSeq(q, n + 1, Len(q))
<1>1. Len(q) \in Nat /\ DOMAIN q = 1 .. Len(q) /\ \A i \in 1 .. Len(q) : q[i] \in Record BY ElementOfSeq, LenProperties
<1>2. m \in Nat /\ n \in Nat /\ m <= Len(q) /\ n <= Len(q) BY <1>1
<1>3. w \in Seq(Record) /\ Len(w) = m /\ \A i \in 1 .. m : w[i] = q[i]
  <2>1. \A i \in 1 .. m : q[i] \in Record BY <1>1, <1>2
  <2>2. /\ w \in Seq(Record) /\ Len(w) = IF 1 <= m THEN m - 1 + 1 ELSE 0
        /\ \A i \in 1 .. m - 1 + 1 : w[i] = q[1 + i - 1]
    BY <2>1, <1>2, SubSeqProperties
  <2>3. m - 1 + 1 = m /\ \A i \in 1 .. m : 1 + i - 1 = i BY <1>2
  <2>4. Len(w) = m BY <2>2, <2>3, <1>2
  <2> QED BY <2>2, <2>3, <2>4
<1>4. x \in Seq(Record) /\ Len(x) = Len(q) - n /\ \A i \in 1 .. Len(q) - n : x[i] = q[n + i]
  <2>1. \A i \in n + 1 .. Len(q) : q[i] \in Record BY <1>1, <1>2
  <2>2. /\ x \in Seq(Record) /\ Len(x) = IF n + 1 <= Len(q) THEN Len(q) - (n + 1) + 1 ELSE 0
        /\ \A i \in 1 .. Len(q) - (n + 1) + 1 : x[i] = q[n + 1 + i - 1]
    BY <2>1, <1>1, <1>2, SubSeqProperties
  <2>3. /\ Len(q) - (n + 1) + 1 = Len(q) - n
        /\ \A i \in 1 .. Len(q) - n : n + 1 + i - 1 = n + i
        /\ ~ (n + 1 <= Len(q)) => Len(q) - n = 0
    <3> DEFINE k == Len(q)
    <3>1. k \in Nat /\ n \in Nat /\ n <= k BY <1>1, <1>2
    <3> HIDE DEF k
    <3>2. k - (n + 1) + 1 = k - n /\ (~ (n + 1 <= k) => k - n = 0) BY <3>1
    <3>3. \A i \in 1 .. k - n : n + 1 + i - 1 = n + i BY <3>1
    <3> QED BY <3>2, <3>3 DEF k
  <2>4. Len(x) = Len(q) - n BY <2>2, <2>3
  <2> QED BY <2>2, <2>3, <2>4
<1> HIDE DEF w, x
<1>5. DOMAIN w = 1 .. m /\ DOMAIN x = 1 .. Len(q) - n BY <1>3, <1>4
<1>6. ASSUME Rising(q) PROVE Rising(w)
  <2>1. \A i \in DOMAIN w : i \in DOMAIN q /\ w[i] = q[i] BY <1>1, <1>2, <1>3, <1>5
  <2> QED BY <2>1, <1>6 DEF Rising
<1>7. Ids(w) \subseteq Ids(q)
  <2>1. \A i \in DOMAIN w : i \in DOMAIN q /\ w[i] = q[i] BY <1>1, <1>2, <1>3, <1>5
  <2> QED BY <2>1 DEF Ids
<1>8. Ids(x) \subseteq Ids(q)
  <2>1. \A i \in DOMAIN x : n + i \in DOMAIN q /\ x[i] = q[n + i] BY <1>1, <1>2, <1>4, <1>5
  <2> QED BY <2>1 DEF Ids
<1>9. ASSUME NEW i \in DOMAIN q PROVE q[i].id \in Ids(w) \cup Ids(x)
  <2>1. CASE i <= n
    <3>1. i \in DOMAIN w BY <2>1, <1>1, <1>2, <1>5
    <3> QED BY <3>1, <1>3, <1>5 DEF Ids
  <2>2. CASE ~ i <= n
    <3>1. i - n \in DOMAIN x /\ n + (i - n) = i BY <2>2, <1>1, <1>2, <1>5
    <3>2. x[i - n] = q[i] BY <3>1, <1>4, <1>5
    <3> QED BY <3>1, <3>2 DEF Ids
  <2> QED BY <2>1, <2>2
<1>10. Ids(q) \subseteq Ids(w) \cup Ids(x) BY <1>9 DEF Ids
<1> QED BY <1>3, <1>6, <1>7, <1>8, <1>10 DEF w, x

(* The numbers after a flush: w are those that got into the file, whole or *)
(* torn, x those that are lost.                                            *)
LEMMA FlushedNumbers ==
  ASSUME NEW l, NEW m, NEW t, NEW r, NEW s, NEW w, NEW x, ThreadInv(l, t, r), r.block = <<>>,
         w \cup x = Ids(r.out), Filed(m.files) = Filed(l.files) \cup w, m.lost = l.lost \cup x,
         s.out = <<>>, s.next = <<>>, Ids(s.block) = Ids(r.next), s.done = r.done
  PROVE  NumbersInv(m, t, s)
<1>1. OrderInv(l, r) /\ NumbersInv(l, t, r) BY DEF ThreadInv
<1>2. \A a \in KeptIds(l, t, r) : a[1] = t /\ a[2] \in 1 .. r.done /\ a = <<t, a[2]>> /\ a \notin l.lost
  BY OwnRecords
<1>3. r.done \in Nat BY OwnRecords
<1>4. KeptIds(l, t, r) = {id \in Filed(l.files) \ l.lost : id[1] = t} \cup Ids(r.out) \cup Ids(r.next)
  BY IdsEmpty DEF KeptIds
<1>5. KeptIds(m, t, s) = {id \in Filed(m.files) \ m.lost : id[1] = t} \cup Ids(r.next)
  BY IdsEmpty DEF KeptIds
<1>6. \A a \in Ids(r.out) : a \notin Filed(l.files) /\ a \notin Ids(r.next)
  <2>1. \A a \in Ids(r.out) : a[2] \in Nat /\ ~ a[2] < a[2] BY <1>2, <1>3, <1>4
  <2>2. \A f \in DOMAIN l.files : Older(l.files[f], r.out) BY <1>1 DEF OrderInv
  <2>3. \A f \in DOMAIN l.files : \A a \in Ids(r.out) : a \notin Ids(l.files[f]) BY <2>1, <2>2, OlderIds
  <2>4. Older(r.out, r.next) BY <1>1 DEF OrderInv
  <2>5. \A a \in Ids(r.out) : a \notin Ids(r.next) BY <2>1, <2>4, OlderIds
  <2> QED BY <2>3, <2>5 DEF Filed
<1>7. KeptIds(m, t, s) = KeptIds(l, t, r) \ x
  <2>1. ASSUME NEW a \in KeptIds(m, t, s) PROVE a \in KeptIds(l, t, r) \ x
    <3>1. CASE a \in Ids(r.next) BY <3>1, <1>4, <1>6
    <3>2. CASE a \notin Ids(r.next) BY <3>2, <2>1, <1>4, <1>5
    <3> QED BY <3>1, <3>2
  <2>2. ASSUME NEW a \in KeptIds(l, t, r) \ x PROVE a \in KeptIds(m, t, s)
    <3>1. CASE a \in Ids(r.next) BY <3>1, <1>5
    <3>2. CASE a \in Ids(r.out)
      <4>1. a \in Filed(m.files) /\ a \notin m.lost /\ a[1] = t BY <3>2, <2>2, <1>2
      <4> QED BY <4>1, <1>5
    <3>3. CASE a \in Filed(l.files) /\ a \notin l.lost /\ a[1] = t BY <3>3, <2>2, <1>5
    <3> QED BY <3>1, <3>2, <3>3, <2>2, <1>4
  <2> QED BY <2>1, <2>2
<1>8. KeptIds(m, t, s) = {<<t, k>> : k \in 1 .. s.done} \ m.lost BY <1>1, <1>7 DEF NumbersInv
<1>9. \A a \in Ids(r.out) : a[1] = t => a[2] \in 1 .. r.done BY <1>2, <1>4
<1>10. \A a \in Filed(m.files) : a[1] = t => a[2] \in 1 .. s.done BY <1>1, <1>9 DEF NumbersInv
<1>11. \A k \in Nat : <<t, k>> \in m.lost => k \in 1 .. s.done
  <2> SUFFICES ASSUME NEW k \in Nat, <<t, k>> \in m.lost PROVE k \in 1 .. r.done OBVIOUS
  <2>1. CASE <<t, k>> \in l.lost BY <2>1, <1>1 DEF NumbersInv
  <2>2. CASE <<t, k>> \in x
    <3>1. <<t, k>> \in Ids(r.out) /\ <<t, k>>[1] = t /\ <<t, k>>[2] = k BY <2>2
    <3> QED BY <3>1, <1>9
  <2> QED BY <2>1, <2>2
<1> QED BY <1>8, <1>10, <1>11 DEF NumbersInv

LEMMA FlushKeeps == ASSUME LogInv, NEW t \in NetThreads, FlushBlock(t) PROVE LogInv'
<1> DEFINE r == thr[t]
<1>1. ThreadInv(log, t, r) /\ FilesInv(log) /\ r.pc \in {"flush", "end"}
  BY DEF LogInv, FlushBlock
<1>0. thr \in [NetThreads -> Thread] BY DEF LogInv
<1> DEFINE pc == IF r.pc = "end" THEN "ended" ELSE "idle"
           s == [Written(r) EXCEPT !.pc = pc]
<1>2. thr' = [thr EXCEPT ![t] = s] BY DEF FlushBlock
<1>3. \/ /\ log.fd # 0
         /\ \E n, m \in 0 .. Len(r.out) :
              /\ m \in {n, n + 1}
              /\ log' = [log EXCEPT !.files[log.fd] = @ \o SubSeq(r.out, 1, m),
                                    !.lost = @ \cup Ids(SubSeq(r.out, n + 1, Len(r.out)))]
      \/ log' = [log EXCEPT !.lost = @ \cup Ids(r.out)]
  BY DEF FlushBlock
<1> HIDE DEF r, pc
<1>4. /\ s \in Thread /\ PhaseInv(s) /\ BlockInv(s) /\ s.out = <<>> /\ s.next = <<>>
      /\ Ids(s.block) = Ids(r.next) /\ Rising(s.block) /\ s.done = r.done
  BY <1>1, Flushed DEF pc
<1> HIDE DEF s
<1>5. r \in Thread /\ r.out \in Seq(Record) /\ r.block = <<>> BY <1>1 DEF ThreadInv, Thread, PhaseInv
<1>6. OrderInv(log, r) BY <1>1 DEF ThreadInv
<1>7. \A a \in Ids(r.out) : a[1] = t /\ a \in NetThreads \X Nat
  <2>1. r.done \in Nat /\ \A a \in Ids(r.out) : a[1] = t /\ a[2] \in 1 .. r.done /\ a = <<t, a[2]>>
    BY <1>1, OwnRecords DEF KeptIds
  <2> QED BY <2>1
<1>8. \A q : Older(q, <<>>) /\ Older(<<>>, q) BY EmptyList
<1>9. Rising(<<>>) BY EmptyList
<1>12. CASE log' = [log EXCEPT !.lost = @ \cup Ids(r.out)]
  <2>1. log'.files = log.files /\ log'.lost = log.lost \cup Ids(r.out) BY <1>1, <1>12 DEF FilesInv
  <2>2. FilesInv(log')
    <3>1. log.lost \cup Ids(r.out) \in SUBSET (NetThreads \X Nat) BY <1>1, <1>7 DEF FilesInv
    <3> QED BY <1>1, <1>12, <3>1 DEF FilesInv
  <2>3. OrderInv(log', s)
    <3>1. \A f \in DOMAIN log.files : Older(log.files[f], s.block)
      <4>1. \A f \in DOMAIN log.files : Older(log.files[f], r.next) BY <1>6 DEF OrderInv
      <4> QED BY <4>1, <1>4, OlderIds
    <3> QED BY <3>1, <1>4, <1>8, <1>9, <2>1 DEF OrderInv
  <2>4. NumbersInv(log', t, s)
    <3>1. {} \cup Ids(r.out) = Ids(r.out) /\ Filed(log'.files) = Filed(log.files) \cup {} BY <2>1
    <3> QED BY <3>1, <2>1, <1>1, <1>4, <1>5, FlushedNumbers
  <2>5. ThreadInv(log', t, s) BY <1>4, <2>3, <2>4 DEF ThreadInv
  <2>6. \A a \in log'.lost : a \in log.lost \/ a[1] = t BY <2>1, <1>7
  <2> QED BY <2>1, <2>2, <2>5, <2>6, <1>2, ThreadStep
<1>13. ASSUME log.fd # 0, NEW n \in 0 .. Len(r.out), NEW m \in 0 .. Len(r.out), m \in {n, n + 1},
              log' = [log EXCEPT !.files[log.fd] = @ \o SubSeq(r.out, 1, m),
                                 !.lost = @ \cup Ids(SubSeq(r.out, n + 1, Len(r.out)))]
       PROVE  LogInv'
  <2> DEFINE h == log.fd
             F == log.files
             G == log'.files
             w == SubSeq(r.out, 1, m)
             x == SubSeq(r.out, n + 1, Len(r.out))
  <2>1. F \in Seq(Seq(Record)) /\ h = Len(F) /\ h \in 1 .. Len(F) /\ DOMAIN F = 1 .. Len(F)
    <3>1. F \in Seq(Seq(Record)) /\ h = Len(F) /\ h # 0 BY <1>1, <1>13 DEF FilesInv
    <3> HIDE DEF F, h
    <3>2. Len(F) \in Nat /\ DOMAIN F = 1 .. Len(F) BY <3>1
    <3> QED BY <3>1, <3>2
  <2>0. Rising(r.out) /\ Older(r.out, r.next) BY <1>6 DEF OrderInv
  <2>9. w \in Seq(Record) /\ Rising(w) /\ Ids(w) \cup Ids(x) = Ids(r.out)
    BY <2>0, <1>5, <1>13, ShortWrite
  <2>2. F[h] \in Seq(Record) /\ F[h] \o w \in Seq(Record) BY <2>1, <2>9
  <2>3. log' = [log EXCEPT !.files = [F EXCEPT ![h] = F[h] \o w], !.lost = log.lost \cup Ids(x)] BY <1>13
  <2>4. G = [F EXCEPT ![h] = F[h] \o w] /\ log'.lost = log.lost \cup Ids(x) BY <2>3, <1>1 DEF FilesInv
  <2>5. /\ DOMAIN G = DOMAIN F /\ G \in Seq(Seq(Record)) /\ Len(G) = Len(F)
        /\ G[h] = F[h] \o w /\ \A f \in DOMAIN F \ {h} : G[f] = F[f]
    <3> HIDE DEF F, G, h, w, x
    <3>1. G \in Seq(Seq(Record)) /\ Len(G) = Len(F) BY <2>1, <2>2, <2>4, ExceptSeq
    <3>2. DOMAIN G = DOMAIN F /\ G[h] = F[h] \o w BY <2>1, <2>4
    <3>3. \A f \in DOMAIN F \ {h} : G[f] = F[f] BY <2>4
    <3> QED BY <3>1, <3>2, <3>3
  <2>6. log' \in [fd : Nat, files : Seq(Seq(Record)), held : BOOLEAN, restarts : Nat, stopped : BOOLEAN,
                  lost : SUBSET (NetThreads \X Nat)] /\ log'.fd = h
    <3>1. log.lost \cup Ids(x) \in SUBSET (NetThreads \X Nat)
      <4> HIDE DEF w, x
      <4> QED BY <1>1, <1>7, <2>9 DEF FilesInv
    <3> HIDE DEF w, x
    <3> QED BY <2>3, <2>4, <2>5, <3>1, <1>1 DEF FilesInv
  <2> HIDE DEF h, F, G, w, x
  <2>7. Ids(G[h]) = Ids(F[h]) \cup Ids(w) BY <2>2, <2>5, <2>9, IdsJoin
  <2>8. \A f \in DOMAIN F : Older(F[f], w) /\ Older(F[f], r.next)
    <3>1. \A f \in DOMAIN F : Older(F[f], r.out) /\ Older(F[f], r.next) BY <1>6 DEF OrderInv, F
    <3> QED BY <3>1, <2>9, OlderIds
  <2>24. Older(w, r.next) BY <2>0, <2>9, OlderIds
  <2>10. \A f \in DOMAIN F : Rising(F[f]) /\ \A g \in DOMAIN F : f < g => Older(F[f], F[g])
    BY <1>1 DEF FilesInv, F
  <2>11. Rising(G[h]) BY <2>1, <2>2, <2>5, <2>8, <2>9, <2>10, RisingJoin
  <2>12. ASSUME NEW f \in DOMAIN F, NEW g \in DOMAIN F, f < g PROVE Older(G[f], G[g])
    <3>1. f # h BY <2>12, <2>1
    <3>2. CASE g = h BY <3>1, <3>2, <2>2, <2>5, <2>8, <2>9, <2>10, <2>12, OlderJoin
    <3>3. CASE g # h BY <3>1, <3>3, <2>5, <2>10, <2>12
    <3> QED BY <3>2, <3>3
  <2>13. FilesInv(log')
    <3>1. \A f \in DOMAIN G : Rising(G[f]) BY <2>5, <2>10, <2>11
    <3>2. log'.fd \in {0, Len(G)} BY <2>1, <2>5, <2>6
    <3> QED BY <2>5, <2>6, <2>12, <3>1, <3>2 DEF FilesInv, G
  <2>14. Filed(G) = Filed(F) \cup Ids(w)
    <3>1. \A f \in DOMAIN F : Ids(G[f]) = IF f = h THEN Ids(F[h]) \cup Ids(w) ELSE Ids(F[f])
      BY <2>5, <2>7
    <3> QED BY <3>1, <2>1, <2>5 DEF Filed
  <2>15. OrderInv(log', s)
    <3>1. ASSUME NEW f \in DOMAIN G PROVE Older(G[f], s.block)
      <4>1. Older(G[f], r.next)
        <5>1. CASE f = h BY <5>1, <2>1, <2>2, <2>5, <2>8, <2>9, <2>24, OlderJoin
        <5>2. CASE f # h BY <5>2, <3>1, <2>5, <2>8
        <5> QED BY <5>1, <5>2
      <4> QED BY <4>1, <1>4, OlderIds
    <3> QED BY <3>1, <1>4, <1>8, <1>9 DEF OrderInv, G
  <2>17. NumbersInv(log', t, s) BY <2>4, <2>9, <2>14, <1>1, <1>4, <1>5, FlushedNumbers DEF F, G
  <2>18. ThreadInv(log', t, s) BY <1>4, <2>15, <2>17 DEF ThreadInv
  <2>20. thr' \in [NetThreads -> Thread] BY <1>0, <1>2, <1>4
  <2>21. thr'[t] = s /\ \A u \in NetThreads \ {t} : thr'[u] = thr[u] BY <1>0, <1>2
  <2>22. ASSUME NEW u \in NetThreads \ {t} PROVE ThreadInv(log', u, thr[u])
    <3>1. ThreadInv(log, u, thr[u]) BY DEF LogInv
    <3>2. \A f \in DOMAIN F : Ids(F[f]) \subseteq Ids(G[f]) BY <2>5, <2>7
    <3>3. \A f \in DOMAIN F : \A a \in Ids(G[f]) : a \in Ids(F[f]) \/ a[1] = t BY <2>5, <2>7, <2>9, <1>7
    <3>4. \A a \in log'.lost : a \in log.lost \/ a[1] = t BY <2>4, <2>9, <1>7
    <3>5. DOMAIN log'.files = DOMAIN log.files /\ log.lost \subseteq log'.lost BY <2>4, <2>5 DEF F, G
    <3> QED BY <3>1, <3>2, <3>3, <3>4, <3>5, OtherThread DEF F, G
  <2>23. \A u \in NetThreads : ThreadInv(log', u, thr'[u]) BY <2>18, <2>21, <2>22
  <2> QED BY <2>13, <2>20, <2>23 DEF LogInv
<1> QED BY <1>3, <1>12, <1>13

LEMMA MainThreadKeeps == ASSUME LogInv, RestartClose \/ RestartOpen \/ LogStop PROVE LogInv'
<1>1. FilesInv(log) /\ thr' = thr BY DEF LogInv, RestartClose, RestartOpen, LogStop
<1>2. CASE log'.files = log.files /\ log'.lost = log.lost /\ FilesInv(log')
  <2>1. \A t \in NetThreads : ThreadInv(log', t, thr[t])
    BY <1>2 DEF LogInv, ThreadInv, OrderInv, NumbersInv, KeptIds
  <2> QED BY <2>1, <1>1, <1>2 DEF LogInv
<1>3. CASE RestartClose
  <2>1. log'.files = log.files /\ log'.lost = log.lost BY <1>1, <1>3 DEF RestartClose, FilesInv
  <2>2. log.restarts + 1 \in Nat /\ 0 \in Nat BY <1>1, NatFacts DEF FilesInv
  <2>3. log' = [log EXCEPT !.held = TRUE, !.fd = 0, !.restarts = log.restarts + 1]
    BY <1>1, <1>3 DEF RestartClose, FilesInv
  <2>4. log' \in [fd : Nat, files : Seq(Seq(Record)), held : BOOLEAN, restarts : Nat, stopped : BOOLEAN,
                  lost : SUBSET (NetThreads \X Nat)] /\ log'.fd = 0
    BY <1>1, <2>2, <2>3 DEF FilesInv
  <2>5. FilesInv(log') BY <1>1, <2>1, <2>4 DEF FilesInv
  <2> QED BY <1>2, <2>1, <2>5
<1>4. CASE LogStop
  <2>1. log'.files = log.files /\ log'.lost = log.lost BY <1>1, <1>4 DEF LogStop, FilesInv
  <2>2. FilesInv(log') BY <1>1, <1>4, <2>1 DEF LogStop, FilesInv
  <2> QED BY <1>2, <2>1, <2>2
<1>5. CASE log' = [log EXCEPT !.held = FALSE]
  <2>1. log'.files = log.files /\ log'.lost = log.lost BY <1>1, <1>5 DEF FilesInv
  <2>2. FilesInv(log') BY <1>1, <1>5, <2>1 DEF FilesInv
  <2> QED BY <1>2, <2>1, <2>2
<1>6. CASE log' = [log EXCEPT !.held = FALSE, !.files = Append(@, <<>>), !.fd = Len(log.files) + 1]
  <2> DEFINE F == log.files
             G == log'.files
  <2>1. F \in Seq(Seq(Record)) /\ Len(F) \in Nat /\ DOMAIN F = 1 .. Len(F) /\ <<>> \in Seq(Record)
    BY <1>1 DEF FilesInv
  <2>2. G = Append(F, <<>>) /\ log'.lost = log.lost /\ log'.fd = Len(F) + 1 BY <1>1, <1>6 DEF FilesInv
  <2>3. /\ G \in Seq(Seq(Record)) /\ Len(G) = Len(F) + 1 /\ DOMAIN G = 1 .. Len(F) + 1
        /\ G[Len(F) + 1] = <<>> /\ \A f \in DOMAIN F : G[f] = F[f]
    BY <2>1, <2>2
  <2>4. log' \in [fd : Nat, files : Seq(Seq(Record)), held : BOOLEAN, restarts : Nat, stopped : BOOLEAN,
                  lost : SUBSET (NetThreads \X Nat)]
    <3>1. Len(F) + 1 \in Nat BY <2>1, NatFacts
    <3>2. Append(F, <<>>) \in Seq(Seq(Record)) BY <2>2, <2>3
    <3> QED BY <1>1, <1>6, <3>1, <3>2 DEF FilesInv
  <2> HIDE DEF F, G
  <2>5. \A q : Older(q, <<>>) /\ Older(<<>>, q) BY DEF Older
  <2>6. \A f \in DOMAIN G : f \in DOMAIN F \/ G[f] = <<>> BY <2>1, <2>3
  <2>7. Rising(<<>>) BY DEF Rising
  <2>8. FilesInv(log')
    <3>1. \A f \in DOMAIN F : Rising(F[f]) /\ \A g \in DOMAIN F : f < g => Older(F[f], F[g])
      BY <1>1 DEF FilesInv, F
    <3>2. \A f \in DOMAIN G : Rising(G[f]) BY <2>3, <2>6, <2>7, <3>1
    <3>3. ASSUME NEW f \in DOMAIN G, NEW g \in DOMAIN G, f < g PROVE Older(G[f], G[g])
      <4>1. CASE f \in DOMAIN F /\ g \in DOMAIN F BY <4>1, <3>1, <3>3, <2>3
      <4>2. CASE ~ (f \in DOMAIN F /\ g \in DOMAIN F) BY <4>2, <2>5, <2>6
      <4> QED BY <4>1, <4>2
    <3> QED BY <2>2, <2>3, <2>4, <3>2, <3>3 DEF FilesInv, G
  <2>9. Filed(G) = Filed(F)
    <3>1. Ids(G[Len(F) + 1]) = {} /\ \A f \in DOMAIN F : Ids(G[f]) = Ids(F[f]) BY <2>3, IdsEmpty
    <3>2. DOMAIN G = DOMAIN F \cup {Len(F) + 1} BY <2>1, <2>3
    <3> QED BY <3>1, <3>2 DEF Filed
  <2>10. ASSUME NEW t \in NetThreads PROVE ThreadInv(log', t, thr[t])
    <3>1. ThreadInv(log, t, thr[t]) BY DEF LogInv
    <3>2. OrderInv(log', thr[t])
      <4>1. OrderInv(log, thr[t]) BY <3>1 DEF ThreadInv
      <4>2. ASSUME NEW f \in DOMAIN G
            PROVE  Older(G[f], thr[t].out) /\ Older(G[f], thr[t].block) /\ Older(G[f], thr[t].next)
        <5>1. CASE f \in DOMAIN F BY <5>1, <4>1, <2>3 DEF OrderInv, F
        <5>2. CASE f \notin DOMAIN F BY <5>2, <2>5, <2>6
        <5> QED BY <5>1, <5>2
      <4> QED BY <4>1, <4>2 DEF OrderInv, G
    <3>3. NumbersInv(log', t, thr[t]) BY <3>1, <2>2, <2>9 DEF ThreadInv, NumbersInv, KeptIds, F, G
    <3> QED BY <3>1, <3>2, <3>3 DEF ThreadInv
  <2> QED BY <1>1, <2>8, <2>10 DEF LogInv
<1> QED BY <1>3, <1>4, <1>5, <1>6 DEF RestartOpen

(* LogInv holds in every state: the records that a thread has, on their    *)
(* way or in its block, follow those that are in the files, no number is   *)
(* missing unless it was given up, and block, avail and ptr agree.         *)
THEOREM LogInvariant == LogSpec => []LogInv
<1>1. LogInit => LogInv BY LogBegins
<1>2. LogInv /\ [LogNext]_logvars => LogInv'
  <2> SUFFICES ASSUME LogInv, [LogNext]_logvars PROVE LogInv' OBVIOUS
  <2>1. CASE UNCHANGED logvars
    <3>1. log' = log /\ thr' = thr BY <2>1 DEF logvars
    <3> QED BY <3>1 DEF LogInv
  <2>2. CASE LogNext
    <3>1. ASSUME NEW t \in NetThreads, LogRequestReceived(t) \/ LogProxyResponse(t) \/ LogNothing(t)
                                         \/ LogRequestComplete(t) \/ LogGc(t) \/ LogThreadEnds(t)
                                         \/ FlushBlock(t)
          PROVE  LogInv'
      BY <3>1, ReceivedKeeps, NothingKeeps, CompleteKeeps, GcAndEndKeep, FlushKeeps
    <3> QED BY <2>2, <3>1, MainThreadKeeps DEF LogNext
  <2> QED BY <2>1, <2>2
<1> QED BY <1>1, <1>2, PTL DEF LogSpec

(* The access log is exact: for any number of threads, requests and        *)
(* restarts, and for any sizes of blocks and records, a record is in the   *)
(* log once and in order, or was given up, and blocks do not overflow.     *)
THEOREM LogIsExact == LogSpec => []LogExact
<1>1. ASSUME LogInv PROVE LogExact
  <2> SUFFICES ASSUME NEW t \in NetThreads
               PROVE  LET r == thr[t]
                      IN  /\ InSequence(log.files, r)
                          /\ {id \in Filed(log.files) \ log.lost : id[1] = t} \cup Ids(r.out) \cup Ids(r.block)
                                 \cup Ids(r.next) = {<<t, k>> : k \in 1 .. r.done} \ log.lost
                          /\ r.block # <<>> => r.avail \in Nat /\ r.ptr = BlockSize - r.avail /\ Packed(r.block, r.ptr)
                          /\ Packed(r.out, r.osize)
                          /\ r.pc = "ended" => r.out = <<>> /\ r.block = <<>> /\ r.next = <<>>
    BY DEF LogExact
  <2> DEFINE r == thr[t]
  <2>1. FilesInv(log) /\ r \in Thread /\ PhaseInv(r) /\ BlockInv(r) /\ OrderInv(log, r) /\ NumbersInv(log, t, r)
    BY <1>1 DEF LogInv, ThreadInv
  <2> HIDE DEF r
  <2>2. InSequence(log.files, r) BY <2>1 DEF FilesInv, OrderInv, InSequence
  <2>3. r.pc = "ended" => r.out = <<>> /\ r.block = <<>> /\ r.next = <<>> BY <2>1 DEF PhaseInv
  <2>4. r.avail \in Nat BY <2>1 DEF Thread
  <2> QED BY <2>1, <2>2, <2>3, <2>4 DEF BlockInv, NumbersInv, KeptIds, r
<1> QED BY <1>1, LogInvariant, PTL
=============================================================================
