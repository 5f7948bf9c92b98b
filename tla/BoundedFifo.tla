---------------------------- MODULE BoundedFifo -----------------------------
(***************************************************************************)
(* What users of nx_queue_tpl.h rely on: a bounded first-in first-out      *)
(* queue with several producers and one consumer, every operation atomic,  *)
(* that refuses a push when full and a pop when empty.                     *)
(***************************************************************************)
EXTENDS Naturals, Sequences

CONSTANTS Producers, Items, NoItem, Capacity

VARIABLES q,    \* the items in the queue
          req,  \* the item each producer is about to push, or NoItem
          res,  \* the result of each producer's last push
          got   \* the item of the consumer's last pop, NoItem if it failed

fifoVars == <<q, req, res, got>>

FifoInit ==
  /\ q = <<>>
  /\ req = [p \in Producers |-> NoItem]
  /\ res = [p \in Producers |-> "none"]
  /\ got = NoItem

Request(p, i) ==
  /\ req[p] = NoItem
  /\ req' = [req EXCEPT ![p] = i]
  /\ res' = [res EXCEPT ![p] = "none"]
  /\ UNCHANGED <<q, got>>

Push(p) ==
  /\ req[p] # NoItem
  /\ req' = [req EXCEPT ![p] = NoItem]
  /\ \/ Len(q) < Capacity /\ q' = Append(q, req[p]) /\ res' = [res EXCEPT ![p] = "ok"]
     \/ Len(q) = Capacity /\ q' = q /\ res' = [res EXCEPT ![p] = "full"]
  /\ UNCHANGED got

Pop ==
  /\ \/ q # <<>> /\ got' = Head(q) /\ q' = Tail(q)
     \/ q = <<>> /\ got' = NoItem /\ q' = q
  /\ UNCHANGED <<req, res>>

FifoNext ==
  \/ \E p \in Producers : Push(p) \/ \E i \in Items : Request(p, i)
  \/ Pop

FifoSpec == FifoInit /\ [][FifoNext]_fifoVars
=============================================================================
