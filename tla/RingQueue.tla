----------------------------- MODULE RingQueue ------------------------------
(***************************************************************************)
(* The ring buffer of nx_queue_tpl.h as nx_workers.c uses it: producers    *)
(* push under factory->queue_mux, the one consumer pops and takes the      *)
(* length without any lock.  One step is one access to the shared fields   *)
(* head, tail or items; the full memory barriers of the code keep them in  *)
(* program order.                                                          *)
(***************************************************************************)
EXTENDS Integers, Sequences

CONSTANTS Producers,  \* threads that call nx_queue_push
          Items,      \* what they push
          NoItem,
          max_items   \* slots of the ring

ASSUME RingAssumption ==
  /\ NoItem \notin Items
  /\ NoItem \notin Producers
  /\ max_items \in Nat \ {0}

VARIABLES
  head, tail,  \* indices into items
  items,       \* the slots
  mux,         \* the producer that holds queue_mux, or NoItem
  ppc,         \* where each producer is
  arg,         \* the item it pushes
  res,         \* the result of its last push: "none", "ok" or "full"
  cpc,         \* where the consumer is
  item,        \* its local copy of the item it pops
  got,         \* the result of its last pop, NoItem if the queue was empty
  length       \* the result of its last nx_queue_length

ringVars == <<head, tail, items, mux, ppc, arg, res, cpc, item, got, length>>
producerVars == <<mux, ppc, arg, res>>
consumerVars == <<cpc, item, got, length>>

Slots == 0 .. max_items - 1

nx_queue_init ==
  /\ head = 0 /\ tail = 0
  /\ items = [s \in Slots |-> NoItem]
  /\ mux = NoItem
  /\ ppc = [p \in Producers |-> "idle"]
  /\ arg = [p \in Producers |-> NoItem]
  /\ res = [p \in Producers |-> "none"]
  /\ cpc = "idle" /\ item = NoItem /\ got = NoItem /\ length = 0

nx_queue_is_empty == head = tail

(* Mutant of nx_queue_is_full: the wrap-around is forgotten.               *)
FullNoWrap == head = tail + 1

nx_queue_is_full == head = (tail + 1) % max_items

(* Mutant of nx_queue_length: the wrap-around is forgotten.                *)
LengthNoWrap == tail - head

nx_queue_length == LET nitems == tail - head
                   IN  IF nitems >= 0 THEN nitems ELSE nitems + max_items

-----------------------------------------------------------------------------
(* nx_queue_push, called with queue_mux held.                              *)

(* Mutant of Lock: queue_mux is not taken.                                 *)
LockNothing(p, i) ==
  /\ ppc[p] = "idle"
  /\ mux' = p
  /\ ppc' = [ppc EXCEPT ![p] = "test"]
  /\ arg' = [arg EXCEPT ![p] = i]
  /\ res' = [res EXCEPT ![p] = "none"]
  /\ UNCHANGED <<head, tail, items, consumerVars>>

Lock(p, i) ==
  /\ ppc[p] = "idle" /\ mux = NoItem
  /\ mux' = p
  /\ ppc' = [ppc EXCEPT ![p] = "test"]
  /\ arg' = [arg EXCEPT ![p] = i]
  /\ res' = [res EXCEPT ![p] = "none"]
  /\ UNCHANGED <<head, tail, items, consumerVars>>

PushTest(p) ==
  /\ ppc[p] = "test"
  /\ \/ /\ nx_queue_is_full
        /\ ppc' = [ppc EXCEPT ![p] = "unlock"]
        /\ res' = [res EXCEPT ![p] = "full"]
        /\ arg' = [arg EXCEPT ![p] = NoItem]
     \/ /\ ~ nx_queue_is_full
        /\ ppc' = [ppc EXCEPT ![p] = "write"]
        /\ UNCHANGED <<res, arg>>
  /\ UNCHANGED <<head, tail, items, mux, consumerVars>>

PushWrite(p) ==
  /\ ppc[p] = "write"
  /\ items' = [items EXCEPT ![tail] = arg[p]]
  /\ ppc' = [ppc EXCEPT ![p] = "advance"]
  /\ UNCHANGED <<head, tail, mux, arg, res, consumerVars>>

PushAdvance(p) ==
  /\ ppc[p] = "advance"
  /\ tail' = (tail + 1) % max_items
  /\ ppc' = [ppc EXCEPT ![p] = "unlock"]
  /\ res' = [res EXCEPT ![p] = "ok"]
  /\ arg' = [arg EXCEPT ![p] = NoItem]
  /\ UNCHANGED <<head, items, mux, consumerVars>>

Unlock(p) ==
  /\ ppc[p] = "unlock"
  /\ mux' = NoItem
  /\ ppc' = [ppc EXCEPT ![p] = "idle"]
  /\ UNCHANGED <<head, tail, items, arg, res, consumerVars>>

-----------------------------------------------------------------------------
(* nx_queue_pop and nx_queue_length, called by the network thread.         *)

PopTest ==
  /\ cpc = "idle"
  /\ \/ /\ nx_queue_is_empty
        /\ got' = NoItem
        /\ UNCHANGED cpc
     \/ /\ ~ nx_queue_is_empty
        /\ cpc' = "read"
        /\ UNCHANGED got
  /\ UNCHANGED <<head, tail, items, producerVars, item, length>>

PopRead ==
  /\ cpc = "read"
  /\ item' = items[head]
  /\ cpc' = "advance"
  /\ UNCHANGED <<head, tail, items, producerVars, got, length>>

PopAdvance ==
  /\ cpc = "advance"
  /\ head' = (head + 1) % max_items
  /\ got' = item
  /\ item' = NoItem
  /\ cpc' = "idle"
  /\ UNCHANGED <<tail, items, producerVars, length>>

TakeLength ==
  /\ cpc = "idle"
  /\ length' = nx_queue_length
  /\ UNCHANGED <<head, tail, items, producerVars, cpc, item, got>>

-----------------------------------------------------------------------------
RingNext ==
  \/ \E p \in Producers :
       \/ \E i \in Items : Lock(p, i)
       \/ PushTest(p) \/ PushWrite(p) \/ PushAdvance(p) \/ Unlock(p)
  \/ PopTest \/ PopRead \/ PopAdvance \/ TakeLength

RingSpec == nx_queue_init /\ [][RingNext]_ringVars

-----------------------------------------------------------------------------
(* Properties.                                                             *)

(* Both indices stay inside the ring, although each is advanced and wrapped*)
(* by another thread (nx_queue_push, nx_queue_pop).                        *)
RingTypeOK ==
  /\ head \in Slots /\ tail \in Slots
  /\ items \in [Slots -> Items \cup {NoItem}]
  /\ mux \in Producers \cup {NoItem}
  /\ ppc \in [Producers -> {"idle", "test", "write", "advance", "unlock"}]
  /\ arg \in [Producers -> Items \cup {NoItem}]
  /\ res \in [Producers -> {"none", "ok", "full"}]
  /\ cpc \in {"idle", "read", "advance"}
  /\ item \in Items \cup {NoItem}
  /\ got \in Items \cup {NoItem}
  /\ length \in Int

(* The items of the ring are plain memory: the producer that fills a slot  *)
(* and the consumer that reads one are never at the same slot, and no two  *)
(* producers are inside the push at once.                                  *)
NoSlotRace ==
  \A p \in Producers :
    /\ ppc[p] \in {"write", "advance"} /\ cpc \in {"read", "advance"} => head # tail
    /\ \A r \in Producers \ {p} : ppc[p] = "idle" \/ ppc[r] = "idle"

(* Why no slot is shared, step by step: the mutex is held by the producer  *)
(* that is inside the push; the slot it tested stays free, for the consumer*)
(* only makes room; the slot the consumer tested stays occupied, for the   *)
(* producers never reach the head; and what was copied is still in place.  *)
RingInv ==
  /\ RingTypeOK
  /\ \A p \in Producers : ppc[p] # "idle" <=> mux = p
  /\ \A p \in Producers : ppc[p] \in {"test", "write", "advance"} <=> arg[p] # NoItem
  /\ \A p \in Producers : ppc[p] \in {"write", "advance"} => ~ nx_queue_is_full
  /\ \A p \in Producers : ppc[p] = "advance" => items[tail] = arg[p]
  /\ cpc \in {"read", "advance"} => ~ nx_queue_is_empty
  /\ cpc = "advance" => item = items[head]

(* The number of occupied slots, and the queue they form.                  *)
Occupied == (tail - head + max_items) % max_items
RingContents == [k \in 1 .. Occupied |-> items[(head + k - 1) % max_items]]

(* nxw_gc_factory computes from nx_queue_length, read while producers move *)
(* the tail, how many workers to dismiss: at that moment the length is     *)
(* exactly the number of items the queue holds, wrapped around or not.     *)
LengthExact == [][TakeLength => length' = Len(RingContents)]_ringVars

(* The ring implements the bounded queue: a push takes effect when the     *)
(* tail moves, a pop when the head moves.                                  *)
Fifo == INSTANCE BoundedFifo WITH
          q <- RingContents, req <- arg, Capacity <- max_items - 1

IsFifo == Fifo!FifoSpec
=============================================================================
