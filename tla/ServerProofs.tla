---------------------------- MODULE ServerProofs ----------------------------
(***************************************************************************)
(* What TLAPS proves of the two parts that decide who serves a request:    *)
(* the worker pool (module WorkerPool), for any sets of workers and        *)
(* connections and any limits, and the choice of the handler (module       *)
(* Dispatch), for any configurations and any requests.                     *)
(***************************************************************************)
EXTENDS WorkerPool, Dispatch, SequenceTheorems, FiniteSetTheorems, FunctionTheorems, TLAPS

-----------------------------------------------------------------------------
(* Type correctness.                                                       *)

LEMMA TypeInit == Init => TypeOK
<1> SUFFICES ASSUME Init PROVE TypeOK OBVIOUS
<1>1. queue \in Seq(Workers) BY DEF Init
<1>2. pending \in SUBSET Event /\ todo \in SUBSET Workers /\ batch \in SUBSET Workers
  BY DEF Init
<1> QED BY <1>1, <1>2 DEF Init, TypeOK, WorkerPC, NetPC, ConnState

(* Popping the idle queue.                                                 *)
LEMMA Pop ==
  ASSUME TypeOK, queue # <<>>
  PROVE  /\ Head(queue) \in Workers /\ Head(queue) = queue[1]
         /\ Tail(queue) \in Seq(Workers)
         /\ Len(queue) \in Nat /\ Len(queue) > 0 /\ Len(Tail(queue)) = Len(queue) - 1
         /\ \A i \in 1 .. Len(Tail(queue)) : Tail(queue)[i] = queue[i + 1]
<1>1. queue \in Seq(Workers) BY DEF TypeOK
<1> QED BY <1>1, HeadTailProperties

(* Appending to the idle queue.                                            *)
LEMMA Push ==
  ASSUME TypeOK, NEW w \in Workers
  PROVE  /\ Append(queue, w) \in Seq(Workers)
         /\ Len(queue) \in Nat /\ Len(Append(queue, w)) = Len(queue) + 1
         /\ \A i \in 1 .. Len(queue) : Append(queue, w)[i] = queue[i]
         /\ Append(queue, w)[Len(queue) + 1] = w
<1>1. queue \in Seq(Workers) BY DEF TypeOK
<1> QED BY <1>1, AppendProperties, LenProperties

(* Freeing a worker keeps the fields it resets within their types.         *)
LEMMA DestroyTyped ==
  ASSUME TypeOK, NEW w \in Workers, nxw_destroy_worker(w)
  PROVE  /\ wpc' \in [Workers -> WorkerPC]
         /\ do_job' \in [Workers -> BOOLEAN]
         /\ job_param' \in [Workers -> Conns \cup {None}]
         /\ w_shutdown' \in [Workers -> BOOLEAN]
         /\ efd' \in [Workers -> BOOLEAN]
         /\ sub' \in [Conns -> Workers \cup {None}]
         /\ pending' \in SUBSET Event
<1> USE DEF TypeOK, nxw_destroy_worker
<1>1. wpc' \in [Workers -> WorkerPC] BY DEF WorkerPC
<1>2. do_job' \in [Workers -> BOOLEAN] OBVIOUS
<1>3. job_param' \in [Workers -> Conns \cup {None}] OBVIOUS
<1>4. w_shutdown' \in [Workers -> BOOLEAN] OBVIOUS
<1>5. efd' \in [Workers -> BOOLEAN] OBVIOUS
<1>6. sub' \in [Conns -> Workers \cup {None}] OBVIOUS
<1>7. pending' \in SUBSET Event OBVIOUS
<1> QED BY <1>1, <1>2, <1>3, <1>4, <1>5, <1>6, <1>7

(* Steps of the worker threads of nxw_worker_main.                         *)
LEMMA TypeWorker ==
  ASSUME TypeOK, NEW w \in Workers, WorkerStep(w) \/ SpuriousWakeup(w)
  PROVE  TypeOK'
<1> USE DEF TypeOK, WorkerPC, loopVars, connVars
<1>1. CASE WorkerTest(w)      BY <1>1 DEF WorkerTest
<1>2. CASE WorkerBranch(w)    BY <1>2 DEF WorkerBranch
<1>3. CASE WorkerRun(w)       BY <1>3 DEF WorkerRun
<1>4. CASE WorkerSetDone(w)   BY <1>4 DEF WorkerSetDone
<1>5. CASE WorkerTrigger(w)   BY <1>5 DEF WorkerTrigger
<1>6. CASE WorkerEnqueue(w)
  <2>1. queue' \in Seq(Workers) BY <1>6, Push DEF WorkerEnqueue
  <2>2. wpc' \in [Workers -> WorkerPC] BY <1>6 DEF WorkerEnqueue
  <2> QED BY <1>6, <2>1, <2>2 DEF WorkerEnqueue
<1>7. CASE WorkerExit(w)      BY <1>7 DEF WorkerExit
<1>8. CASE SpuriousWakeup(w)  BY <1>8 DEF SpuriousWakeup
<1> QED BY <1>1, <1>2, <1>3, <1>4, <1>5, <1>6, <1>7, <1>8 DEF WorkerStep

(* Steps of the environment: peers and signals.                            *)
LEMMA TypeEnvironment ==
  ASSUME TypeOK, Environment
  PROVE  TypeOK'
<1> USE DEF TypeOK, ConnState, Event, threadVars, loopVars, connVars
<1>1. CASE on_sigterm BY <1>1 DEF on_sigterm
<1>2. ASSUME NEW c \in Conns, accept_connection(c) PROVE TypeOK'
  BY <1>2 DEF accept_connection
<1>3. ASSUME NEW c \in Conns, RequestReceived(c) PROVE TypeOK'
  BY <1>3 DEF RequestReceived
<1>4. ASSUME NEW c \in Conns, ErrorReceived(c) PROVE TypeOK'
  BY <1>4 DEF ErrorReceived
<1>5. ASSUME NEW c \in Conns, ResponseSent(c) PROVE TypeOK'
  BY <1>5 DEF ResponseSent
<1>6. ASSUME NEW w \in Workers, SpuriousWakeup(w) PROVE TypeOK'
  BY <1>6, TypeWorker
<1> QED BY <1>1, <1>2, <1>3, <1>4, <1>5, <1>6 DEF Environment

(* Steps of the network thread.                                            *)
LEMMA TypeNet ==
  ASSUME TypeOK, NetStep
  PROVE  TypeOK'
<1> USE DEF TypeOK, WorkerPC, NetPC, ConnState, Event, threadVars, connVars, Allocated
<1>1. CASE LoopTop      BY <1>1 DEF LoopTop, GcEvent
<1>2. CASE LoopDrained  BY <1>2 DEF LoopDrained
<1>3. CASE EpollWait    BY <1>3 DEF EpollWait, ShutdownEvent
<1>4. CASE EmitDone     BY <1>4 DEF EmitDone
<1>5. ASSUME NEW w \in Workers, eventfd_source_emit(w) PROVE TypeOK'
  BY <1>5 DEF eventfd_source_emit
<1>6. ASSUME NEW w \in Workers, GcVisit(w) PROVE TypeOK'
  <2>1. CASE nxw_destroy_worker(w) BY <1>6, <2>1, DestroyTyped DEF GcVisit
  <2>2. CASE ~ nxw_destroy_worker(w) BY <1>6, <2>2 DEF GcVisit
  <2> QED BY <2>1, <2>2
<1>8. ASSUME NEW c \in Conns, nxw_get_worker_idle(c) PROVE TypeOK'
  BY <1>8, Pop DEF nxw_get_worker_idle
<1>9. ASSUME NEW c \in Conns, NEW w \in Workers, nxw_get_worker_new(c, w) PROVE TypeOK'
  BY <1>9 DEF nxw_get_worker_new
<1>10. ASSUME NEW c \in Conns, nxw_get_worker_fails(c) PROVE TypeOK'
  BY <1>10 DEF nxw_get_worker_fails
<1>11. ASSUME NEW c \in Conns, WorkerComplete(c) PROVE TypeOK'
  BY <1>11 DEF WorkerComplete
<1>12. ASSUME NEW c \in Conns, ErrorDelivered(c) PROVE TypeOK'
  <2>1. pending' \subseteq pending BY <1>12 DEF ErrorDelivered, EventsOf
  <2>2. pending' \in SUBSET Event BY <2>1
  <2>3. sub' \in [Conns -> Workers \cup {None}] BY <1>12 DEF ErrorDelivered
  <2>4. nxweb_http_server_connection_finalize(c, in_worker[c]) BY <1>12 DEF ErrorDelivered
  <2>5. /\ closing' \in [Conns -> BOOLEAN]
        /\ st' \in [Conns -> ConnState]
        /\ job_done' \in [Conns -> BOOLEAN]
    <3>1. CASE in_worker[c]
      BY <2>4, <3>1 DEF nxweb_http_server_connection_finalize
    <3>2. CASE ~ in_worker[c]
      BY <2>4, <3>2 DEF nxweb_http_server_connection_finalize
    <3> QED BY <3>1, <3>2
  <2>6. UNCHANGED <<wpc, do_job, job_param, w_shutdown, efd, queue, f_shutdown,
                    npc, cur, curw, todo, extra, batch, sigterm, in_worker>>
    BY <1>12 DEF ErrorDelivered
  <2> QED BY <2>2, <2>3, <2>5, <2>6
<1>13. CASE nxw_start_worker  BY <1>13 DEF nxw_start_worker, Signalled
<1>14. CASE SpinUntilDone
  <2>1. pending' \subseteq pending BY <1>14 DEF SpinUntilDone, EventsOf
  <2>2. pending' \in SUBSET Event BY <2>1
  <2>3. /\ closing' \in [Conns -> BOOLEAN]
        /\ st' \in [Conns -> ConnState]
        /\ job_done' \in [Conns -> BOOLEAN]
    <3>1. CASE nxweb_http_server_connection_finalize(cur, FALSE)
      BY <3>1 DEF nxweb_http_server_connection_finalize
    <3>2. CASE st' = [st EXCEPT ![cur] = "responding"] /\ UNCHANGED <<closing, job_done>>
      BY <3>2
    <3> QED BY <1>14, <3>1, <3>2 DEF SpinUntilDone
  <2>4. npc' \in NetPC /\ cur' \in Conns \cup {None} BY <1>14 DEF SpinUntilDone
  <2>5. UNCHANGED <<wpc, do_job, job_param, w_shutdown, efd, queue, f_shutdown,
                    curw, todo, extra, batch, sigterm, in_worker, sub>>
    BY <1>14 DEF SpinUntilDone
  <2> QED BY <2>2, <2>3, <2>4, <2>5
<1>15. CASE GcDelivered  BY <1>15 DEF GcDelivered
<1>16. CASE GcExtra
  <2>1. Len(queue) \in Nat /\ MaxIdle \in Nat BY LenProperties, PoolAssumption
  <2>2. \A n \in Int : n > 0 => n \div 2 \in Nat OBVIOUS
  <2>3. Len(queue) - MaxIdle + 1 \in Int BY <2>1
  <2>4. extra' \in Nat BY <1>16, <2>2, <2>3 DEF GcExtra
  <2> QED BY <1>16, <2>4 DEF GcExtra
<1>17. CASE GcPop
  <2>1. CASE extra > 0 /\ queue # <<>>
    <3>1. Head(queue) \in Workers /\ Tail(queue) \in Seq(Workers) BY <2>1, Pop
    <3>2. extra' \in Nat BY <1>17, <2>1 DEF GcPop
    <3>3. queue' \in Seq(Workers) BY <1>17, <2>1, <3>1 DEF GcPop
    <3> QED BY <1>17, <2>1, <3>1, <3>2, <3>3 DEF GcPop, Signalled
  <2>2. CASE ~ (extra > 0 /\ queue # <<>>)
    BY <1>17, <2>2 DEF GcPop
  <2> QED BY <2>1, <2>2
<1>18. CASE FinalizeFactory  BY <1>18 DEF FinalizeFactory
<1>19. CASE FinalizePop
  <2>1. CASE queue # <<>>
    <3>1. Head(queue) \in Workers /\ Tail(queue) \in Seq(Workers) BY <2>1, Pop
    <3> QED BY <1>19, <2>1, <3>1 DEF FinalizePop, Signalled
  <2>2. CASE queue = <<>>
    BY <1>19, <2>2 DEF FinalizePop
  <2> QED BY <2>1, <2>2
<1>20. CASE FinalizeJoin
  <2>1. ASSUME NEW w \in Workers, nxw_destroy_worker(w), npc' = npc PROVE TypeOK'
    BY <1>20, <2>1, DestroyTyped DEF FinalizeJoin
  <2>2. CASE /\ npc' = "process"
             /\ UNCHANGED <<wpc, do_job, job_param, w_shutdown, efd, sub, pending>>
    BY <1>20, <2>2 DEF FinalizeJoin
  <2> QED BY <1>20, <2>1, <2>2 DEF FinalizeJoin
<1> QED BY <1>1, <1>2, <1>3, <1>4, <1>5, <1>6, <1>8, <1>9, <1>10, <1>11, <1>12,
           <1>13, <1>14, <1>15, <1>16, <1>17, <1>18, <1>19, <1>20 DEF NetStep

(* The type invariant of the specification.                                *)
THEOREM TypeCorrect == Spec => []TypeOK
<1>1. TypeOK /\ UNCHANGED vars => TypeOK'
  BY DEF TypeOK, vars, threadVars, loopVars, connVars
<1>2. TypeOK /\ [Next]_vars => TypeOK'
  BY <1>1, TypeNet, TypeEnvironment, TypeWorker DEF Next, Exited
<1> QED BY TypeInit, <1>2, PTL DEF Spec
-----------------------------------------------------------------------------
(* The inductive invariant.                                                *)

LEMMA InvInit == Init => IInv
<1> SUFFICES ASSUME Init PROVE IInv OBVIOUS
<1>1. TypeOK BY TypeInit
<1>2. ActiveInv BY DEF Init, ActiveInv, Active
<1>3. SubscriptionInv BY DEF Init, SubscriptionInv
<1>4. EventInv BY DEF Init, EventInv
<1>5. HandlerInv BY DEF Init, HandlerInv
<1>6. QueueHoldsIdleWorkers BY DEF Init, QueueHoldsIdleWorkers
<1> QED BY <1>1, <1>2, <1>3, <1>4, <1>5, <1>6 DEF IInv

InvParts == ActiveInv /\ SubscriptionInv /\ EventInv /\ HandlerInv /\ QueueHoldsIdleWorkers

(* Steps of the worker threads.                                            *)
LEMMA InvWorker ==
  ASSUME IInv, NEW w \in Workers, WorkerStep(w) \/ SpuriousWakeup(w)
  PROVE  InvParts'
<1> USE DEF IInv, TypeOK, threadVars, loopVars, connVars
<1>1. CASE WorkerTest(w)
  <2>1. ActiveInv' BY <1>1 DEF WorkerTest, ActiveInv, Active
  <2>2. SubscriptionInv' BY <1>1 DEF WorkerTest, SubscriptionInv
  <2>3. EventInv' BY <1>1 DEF WorkerTest, EventInv
  <2>4. HandlerInv' BY <1>1 DEF WorkerTest, HandlerInv
  <2>5. QueueHoldsIdleWorkers' BY <1>1 DEF WorkerTest, QueueHoldsIdleWorkers
  <2> QED BY <2>1, <2>2, <2>3, <2>4, <2>5 DEF InvParts
<1>2. CASE WorkerBranch(w)
  <2>1. ActiveInv' BY <1>2 DEF WorkerBranch, ActiveInv, Active
  <2>2. SubscriptionInv' BY <1>2 DEF WorkerBranch, SubscriptionInv
  <2>3. EventInv' BY <1>2 DEF WorkerBranch, EventInv
  <2>4. HandlerInv' BY <1>2 DEF WorkerBranch, HandlerInv
  <2>5. QueueHoldsIdleWorkers' BY <1>2 DEF WorkerBranch, QueueHoldsIdleWorkers
  <2> QED BY <2>1, <2>2, <2>3, <2>4, <2>5 DEF InvParts
<1>3. CASE WorkerRun(w)
  <2>1. ActiveInv' BY <1>3 DEF WorkerRun, ActiveInv, Active
  <2>2. SubscriptionInv' BY <1>3 DEF WorkerRun, SubscriptionInv
  <2>3. EventInv' BY <1>3 DEF WorkerRun, EventInv
  <2>4. HandlerInv' BY <1>3 DEF WorkerRun, HandlerInv
  <2>5. QueueHoldsIdleWorkers' BY <1>3 DEF WorkerRun, QueueHoldsIdleWorkers
  <2> QED BY <2>1, <2>2, <2>3, <2>4, <2>5 DEF InvParts
<1>4. CASE WorkerSetDone(w)
  <2>1. ActiveInv' BY <1>4 DEF WorkerSetDone, ActiveInv, Active
  <2>2. SubscriptionInv' BY <1>4 DEF WorkerSetDone, SubscriptionInv
  <2>3. EventInv' BY <1>4 DEF WorkerSetDone, EventInv
  <2>4. HandlerInv' BY <1>4 DEF WorkerSetDone, HandlerInv
  <2>5. QueueHoldsIdleWorkers' BY <1>4 DEF WorkerSetDone, QueueHoldsIdleWorkers
  <2> QED BY <2>1, <2>2, <2>3, <2>4, <2>5 DEF InvParts
<1>5. CASE WorkerTrigger(w)
  <2>1. ActiveInv' BY <1>5 DEF WorkerTrigger, ActiveInv, Active
  <2>2. SubscriptionInv' BY <1>5 DEF WorkerTrigger, SubscriptionInv
  <2>3. EventInv' BY <1>5 DEF WorkerTrigger, EventInv
  <2>4. HandlerInv' BY <1>5 DEF WorkerTrigger, HandlerInv
  <2>5. QueueHoldsIdleWorkers' BY <1>5 DEF WorkerTrigger, QueueHoldsIdleWorkers
  <2> QED BY <2>1, <2>2, <2>3, <2>4, <2>5 DEF InvParts
<1>6. CASE WorkerEnqueue(w)
  <2>1. ActiveInv' BY <1>6 DEF WorkerEnqueue, ActiveInv, Active
  <2>2. SubscriptionInv' BY <1>6 DEF WorkerEnqueue, SubscriptionInv
  <2>3. EventInv' BY <1>6 DEF WorkerEnqueue, EventInv
  <2>4. HandlerInv'
    <3>1. queue' = queue \/ (queue' = Append(queue, w) /\ ~ f_shutdown) BY <1>6 DEF WorkerEnqueue
    <3>2. npc = "got" => w # curw BY <1>6 DEF WorkerEnqueue, HandlerInv
    <3>3. CASE queue' = Append(queue, w)
      <4>1. /\ Len(queue) \in Nat /\ Len(queue') = Len(queue) + 1
            /\ \A i \in 1 .. Len(queue) : queue'[i] = queue[i]
            /\ queue'[Len(queue) + 1] = w
        BY <3>3, Push
      <4>2. npc = "got" => \A i \in 1 .. Len(queue') : queue'[i] # curw
        BY <3>2, <4>1 DEF HandlerInv
      <4> QED BY <1>6, <3>1, <3>3, <4>1, <4>2 DEF WorkerEnqueue, HandlerInv
    <3>4. CASE queue' = queue
      BY <1>6, <3>4 DEF WorkerEnqueue, HandlerInv
    <3> QED BY <3>1, <3>3, <3>4
  <2>5. QueueHoldsIdleWorkers'
    <3>1. \A i \in 1 .. Len(queue) : queue[i] # w
      BY <1>6 DEF WorkerEnqueue, QueueHoldsIdleWorkers
    <3>2. ~ do_job[w] BY <1>6 DEF WorkerEnqueue, ActiveInv
    <3>3. CASE queue' = queue
      BY <1>6, <3>1, <3>3 DEF WorkerEnqueue, QueueHoldsIdleWorkers
    <3>4. CASE queue' = Append(queue, w) /\ ~ w_shutdown[w] /\ wpc'[w] = "start"
      <4>1. /\ Len(queue) \in Nat /\ Len(queue') = Len(queue) + 1
            /\ \A i \in 1 .. Len(queue) : queue'[i] = queue[i]
            /\ queue'[Len(queue) + 1] = w
        BY <3>4, Push
      <4> QED BY <1>6, <3>1, <3>2, <3>4, <4>1 DEF WorkerEnqueue, QueueHoldsIdleWorkers
    <3> QED BY <1>6, <3>3, <3>4 DEF WorkerEnqueue
  <2> QED BY <2>1, <2>2, <2>3, <2>4, <2>5 DEF InvParts
<1>7. CASE WorkerExit(w)
  <2>1. ActiveInv' BY <1>7 DEF WorkerExit, ActiveInv, Active
  <2>2. SubscriptionInv' BY <1>7 DEF WorkerExit, SubscriptionInv
  <2>3. EventInv' BY <1>7 DEF WorkerExit, EventInv
  <2>4. HandlerInv' BY <1>7 DEF WorkerExit, HandlerInv
  <2>5. QueueHoldsIdleWorkers' BY <1>7 DEF WorkerExit, QueueHoldsIdleWorkers
  <2> QED BY <2>1, <2>2, <2>3, <2>4, <2>5 DEF InvParts
<1>8. CASE SpuriousWakeup(w)
  <2>1. ActiveInv' BY <1>8 DEF SpuriousWakeup, ActiveInv, Active
  <2>2. SubscriptionInv' BY <1>8 DEF SpuriousWakeup, SubscriptionInv
  <2>3. EventInv' BY <1>8 DEF SpuriousWakeup, EventInv
  <2>4. HandlerInv' BY <1>8 DEF SpuriousWakeup, HandlerInv
  <2>5. QueueHoldsIdleWorkers' BY <1>8 DEF SpuriousWakeup, QueueHoldsIdleWorkers
  <2> QED BY <2>1, <2>2, <2>3, <2>4, <2>5 DEF InvParts
<1> QED BY <1>1, <1>2, <1>3, <1>4, <1>5, <1>6, <1>7, <1>8 DEF WorkerStep

(* Steps of peers and of the signal handler.                               *)
LEMMA InvEnvironment ==
  ASSUME IInv, Environment, ~ \E w \in Workers : SpuriousWakeup(w)
  PROVE  InvParts'
<1> USE DEF IInv, TypeOK, threadVars, loopVars, connVars
<1>1. CASE on_sigterm
  <2>1. ActiveInv' BY <1>1 DEF on_sigterm, ActiveInv, Active
  <2>2. SubscriptionInv' BY <1>1 DEF on_sigterm, SubscriptionInv
  <2>3. EventInv' BY <1>1 DEF on_sigterm, EventInv
  <2>4. HandlerInv' BY <1>1 DEF on_sigterm, HandlerInv
  <2>5. QueueHoldsIdleWorkers' BY <1>1 DEF on_sigterm, QueueHoldsIdleWorkers
  <2> QED BY <2>1, <2>2, <2>3, <2>4, <2>5 DEF InvParts
<1>2. ASSUME NEW c \in Conns, accept_connection(c) PROVE InvParts'
  <2>1. ActiveInv' BY <1>2 DEF accept_connection, ActiveInv, Active
  <2>2. SubscriptionInv' BY <1>2 DEF accept_connection, SubscriptionInv
  <2>3. EventInv' BY <1>2 DEF accept_connection, EventInv
  <2>4. HandlerInv' BY <1>2 DEF accept_connection, HandlerInv
  <2>5. QueueHoldsIdleWorkers' BY <1>2 DEF accept_connection, QueueHoldsIdleWorkers
  <2> QED BY <2>1, <2>2, <2>3, <2>4, <2>5 DEF InvParts
<1>3. ASSUME NEW c \in Conns, RequestReceived(c) PROVE InvParts'
  <2>1. ActiveInv' BY <1>3 DEF RequestReceived, ActiveInv, Active
  <2>2. SubscriptionInv' BY <1>3 DEF RequestReceived, SubscriptionInv
  <2>3. EventInv' BY <1>3 DEF EventInv, SubscriptionInv, RequestReceived
  <2>4. HandlerInv' BY <1>3 DEF RequestReceived, HandlerInv
  <2>5. QueueHoldsIdleWorkers' BY <1>3 DEF RequestReceived, QueueHoldsIdleWorkers
  <2> QED BY <2>1, <2>2, <2>3, <2>4, <2>5 DEF InvParts
<1>4. ASSUME NEW c \in Conns, ErrorReceived(c) PROVE InvParts'
  <2>1. ActiveInv' BY <1>4 DEF ErrorReceived, ActiveInv, Active
  <2>2. SubscriptionInv' BY <1>4 DEF ErrorReceived, SubscriptionInv
  <2>3. EventInv' BY <1>4 DEF ErrorReceived, EventInv
  <2>4. HandlerInv' BY <1>4 DEF ErrorReceived, HandlerInv
  <2>5. QueueHoldsIdleWorkers' BY <1>4 DEF ErrorReceived, QueueHoldsIdleWorkers
  <2> QED BY <2>1, <2>2, <2>3, <2>4, <2>5 DEF InvParts
<1>5. ASSUME NEW c \in Conns, ResponseSent(c) PROVE InvParts'
  <2>1. ActiveInv' BY <1>5 DEF ResponseSent, ActiveInv, Active
  <2>2. SubscriptionInv' BY <1>5 DEF ResponseSent, SubscriptionInv
  <2>3. EventInv' BY <1>5 DEF ResponseSent, EventInv
  <2>4. HandlerInv' BY <1>5 DEF ResponseSent, HandlerInv
  <2>5. QueueHoldsIdleWorkers' BY <1>5 DEF ResponseSent, QueueHoldsIdleWorkers
  <2> QED BY <2>1, <2>2, <2>3, <2>4, <2>5 DEF InvParts
<1> QED BY <1>1, <1>2, <1>3, <1>4, <1>5 DEF Environment

(* Steps of the network thread.                                            *)
LEMMA InvNet ==
  ASSUME IInv, NetStep
  PROVE  InvParts'
<1> USE DEF IInv, TypeOK, threadVars, loopVars, connVars
<1>1. CASE LoopTop
  <2>1. ActiveInv' BY <1>1 DEF LoopTop, GcEvent, ActiveInv, Active
  <2>2. SubscriptionInv' BY <1>1 DEF LoopTop, GcEvent, SubscriptionInv
  <2>3. EventInv' BY <1>1 DEF LoopTop, GcEvent, EventInv
  <2>4. HandlerInv' BY <1>1 DEF LoopTop, GcEvent, HandlerInv
  <2>5. QueueHoldsIdleWorkers' BY <1>1 DEF LoopTop, GcEvent, QueueHoldsIdleWorkers
  <2> QED BY <2>1, <2>2, <2>3, <2>4, <2>5 DEF InvParts
<1>2. CASE LoopDrained
  <2>1. ActiveInv' BY <1>2 DEF LoopDrained, ActiveInv, Active
  <2>2. SubscriptionInv' BY <1>2 DEF LoopDrained, SubscriptionInv
  <2>3. EventInv' BY <1>2 DEF LoopDrained, EventInv
  <2>4. HandlerInv' BY <1>2 DEF LoopDrained, HandlerInv
  <2>5. QueueHoldsIdleWorkers' BY <1>2 DEF LoopDrained, QueueHoldsIdleWorkers
  <2> QED BY <2>1, <2>2, <2>3, <2>4, <2>5 DEF InvParts
<1>3. CASE EpollWait
  <2>1. ActiveInv' BY <1>3 DEF EpollWait, ShutdownEvent, ActiveInv, Active
  <2>2. SubscriptionInv' BY <1>3 DEF EpollWait, ShutdownEvent, SubscriptionInv
  <2>3. EventInv' BY <1>3 DEF EpollWait, ShutdownEvent, EventInv
  <2>4. HandlerInv' BY <1>3 DEF EpollWait, ShutdownEvent, HandlerInv
  <2>5. QueueHoldsIdleWorkers' BY <1>3 DEF EpollWait, ShutdownEvent, QueueHoldsIdleWorkers
  <2> QED BY <2>1, <2>2, <2>3, <2>4, <2>5 DEF InvParts
<1>4. CASE EmitDone
  <2>1. ActiveInv' BY <1>4 DEF EmitDone, ActiveInv, Active
  <2>2. SubscriptionInv' BY <1>4 DEF EmitDone, SubscriptionInv
  <2>3. EventInv' BY <1>4 DEF EmitDone, EventInv
  <2>4. HandlerInv' BY <1>4 DEF EmitDone, HandlerInv
  <2>5. QueueHoldsIdleWorkers' BY <1>4 DEF EmitDone, QueueHoldsIdleWorkers
  <2> QED BY <2>1, <2>2, <2>3, <2>4, <2>5 DEF InvParts
<1>5. ASSUME NEW w \in Workers, eventfd_source_emit(w) PROVE InvParts'
  <2>1. ActiveInv' BY <1>5 DEF eventfd_source_emit, ActiveInv, Active
  <2>2. SubscriptionInv' BY <1>5 DEF eventfd_source_emit, SubscriptionInv
  <2>3. EventInv'
    <3>1. \A c \in Conns : <<"complete", c>> \in pending' =>
                            <<"complete", c>> \in pending \/ sub[c] = w
      BY <1>5 DEF eventfd_source_emit
    <3>2. \A c \in Conns : <<"request", c>> \in pending' <=> <<"request", c>> \in pending
      BY <1>5 DEF eventfd_source_emit
    <3>3. UNCHANGED <<in_worker, st, npc, cur>> BY <1>5 DEF eventfd_source_emit
    <3>4. w # None BY PoolAssumption
    <3>5. \A c \in Conns : <<"complete", c>> \in pending' => in_worker[c]
      BY <3>1, <3>4 DEF EventInv, SubscriptionInv
    <3> QED BY <3>2, <3>3, <3>5 DEF EventInv
  <2>4. HandlerInv' BY <1>5 DEF eventfd_source_emit, HandlerInv
  <2>5. QueueHoldsIdleWorkers' BY <1>5 DEF eventfd_source_emit, QueueHoldsIdleWorkers
  <2> QED BY <2>1, <2>2, <2>3, <2>4, <2>5 DEF InvParts
<1>6. ASSUME NEW w \in Workers, GcVisit(w) PROVE InvParts'
  <2>1. ActiveInv'
    <3>1. CASE wpc[w] = "dead" /\ nxw_destroy_worker(w)
      BY <1>6, <3>1 DEF GcVisit, nxw_destroy_worker, ActiveInv, Active
    <3>2. CASE wpc[w] # "dead"
      BY <1>6, <3>2 DEF GcVisit, ActiveInv, Active
    <3> QED BY <1>6, <3>1, <3>2 DEF GcVisit
  <2>2. SubscriptionInv' BY <1>6 DEF GcVisit, nxw_destroy_worker, SubscriptionInv
  <2>3. EventInv' BY <1>6 DEF GcVisit, nxw_destroy_worker, EventInv
  <2>4. HandlerInv' BY <1>6 DEF GcVisit, nxw_destroy_worker, HandlerInv
  <2>5. QueueHoldsIdleWorkers' BY <1>6 DEF GcVisit, nxw_destroy_worker, QueueHoldsIdleWorkers, HandlerInv
  <2> QED BY <2>1, <2>2, <2>3, <2>4, <2>5 DEF InvParts
<1>8. ASSUME NEW c \in Conns, nxw_get_worker_idle(c) PROVE InvParts'
  <2>1. ActiveInv' BY <1>8 DEF nxw_get_worker_idle, ActiveInv, Active
  <2>2. SubscriptionInv' BY <1>8 DEF nxw_get_worker_idle, SubscriptionInv
  <2>3. EventInv' BY <1>8 DEF nxw_get_worker_idle, EventInv
  <2>4. HandlerInv'
    <3>1. /\ curw' = queue[1] /\ queue[1] \in Workers
          /\ \A i \in 1 .. Len(queue') : queue'[i] # queue[1]
      BY <1>8, Pop DEF nxw_get_worker_idle, QueueHoldsIdleWorkers
    <3>2. /\ wpc[queue[1]] \in {"start", "wait"}
          /\ ~ do_job[queue[1]] /\ ~ w_shutdown[queue[1]]
      BY <1>8, Pop DEF nxw_get_worker_idle, QueueHoldsIdleWorkers
    <3>3. st[c] = "busy" /\ ~ in_worker[c] BY <1>8 DEF nxw_get_worker_idle, EventInv
    <3> QED BY <1>8, <3>1, <3>2, <3>3 DEF nxw_get_worker_idle, HandlerInv
  <2>5. QueueHoldsIdleWorkers' BY <1>8 DEF nxw_get_worker_idle, QueueHoldsIdleWorkers
  <2> QED BY <2>1, <2>2, <2>3, <2>4, <2>5 DEF InvParts
<1>9. ASSUME NEW c \in Conns, NEW w \in Workers, nxw_get_worker_new(c, w) PROVE InvParts'
  <2>1. ActiveInv' BY <1>9 DEF nxw_get_worker_new, ActiveInv, Active
  <2>2. SubscriptionInv' BY <1>9 DEF nxw_get_worker_new, SubscriptionInv
  <2>3. EventInv' BY <1>9 DEF nxw_get_worker_new, EventInv
  <2>4. HandlerInv'
    <3>1. st[c] = "busy" /\ ~ in_worker[c] BY <1>9 DEF nxw_get_worker_new, EventInv
    <3>2. ~ do_job[w] /\ ~ w_shutdown[w] BY <1>9 DEF nxw_get_worker_new, ActiveInv, HandlerInv
    <3>3. Len(queue) = 0 BY <1>9 DEF nxw_get_worker_new
    <3> QED BY <1>9, <3>1, <3>2, <3>3 DEF nxw_get_worker_new, HandlerInv
  <2>5. QueueHoldsIdleWorkers' BY <1>9 DEF nxw_get_worker_new, QueueHoldsIdleWorkers
  <2> QED BY <2>1, <2>2, <2>3, <2>4, <2>5 DEF InvParts
<1>10. ASSUME NEW c \in Conns, nxw_get_worker_fails(c) PROVE InvParts'
  <2>1. ActiveInv' BY <1>10 DEF nxw_get_worker_fails, ActiveInv, Active
  <2>2. SubscriptionInv' BY <1>10 DEF nxw_get_worker_fails, SubscriptionInv, EventInv
  <2>3. EventInv' BY <1>10 DEF nxw_get_worker_fails, EventInv
  <2>4. HandlerInv' BY <1>10 DEF nxw_get_worker_fails, HandlerInv
  <2>5. QueueHoldsIdleWorkers' BY <1>10 DEF nxw_get_worker_fails, QueueHoldsIdleWorkers
  <2> QED BY <2>1, <2>2, <2>3, <2>4, <2>5 DEF InvParts
<1>11. ASSUME NEW c \in Conns, WorkerComplete(c) PROVE InvParts'
  <2>1. ActiveInv' BY <1>11 DEF WorkerComplete, ActiveInv, Active
  <2>2. SubscriptionInv' BY <1>11 DEF WorkerComplete, SubscriptionInv
  <2>3. EventInv' BY <1>11 DEF WorkerComplete, EventInv
  <2>4. HandlerInv'
    <3>1. st[c] = "busy" BY <1>11 DEF WorkerComplete, EventInv, SubscriptionInv
    <3> QED BY <1>11, <3>1 DEF WorkerComplete, HandlerInv
  <2>5. QueueHoldsIdleWorkers' BY <1>11 DEF WorkerComplete, QueueHoldsIdleWorkers
  <2> QED BY <2>1, <2>2, <2>3, <2>4, <2>5 DEF InvParts
<1>12. ASSUME NEW c \in Conns, ErrorDelivered(c) PROVE InvParts'
  <2>1. ActiveInv'
    <3>1. npc = "process" BY <1>12 DEF ErrorDelivered
    <3>2. UNCHANGED <<wpc, do_job, job_param, in_worker, npc, cur>> BY <1>12 DEF ErrorDelivered
    <3>3. \A k \in Conns : ~ job_done[k] => ~ job_done'[k]
      BY <1>12 DEF ErrorDelivered, nxweb_http_server_connection_finalize
    <3> QED BY <3>1, <3>2, <3>3 DEF ActiveInv, Active
  <2>2. SubscriptionInv' BY <1>12 DEF ErrorDelivered, nxweb_http_server_connection_finalize, EventsOf, SubscriptionInv
  <2>3. EventInv'
    <3>1. /\ pending' \subseteq pending
          /\ ~ in_worker[c] => \A e \in pending' : e[2] # c
      BY <1>12 DEF ErrorDelivered, EventsOf
    <3>2. \A k \in Conns : <<"request", k>> \in pending' => st'[k] = st[k]
      BY <1>12, <3>1 DEF ErrorDelivered, nxweb_http_server_connection_finalize
    <3>3. UNCHANGED <<in_worker, npc, cur>> BY <1>12 DEF ErrorDelivered
    <3> QED BY <3>1, <3>2, <3>3 DEF EventInv
  <2>4. HandlerInv' BY <1>12 DEF ErrorDelivered, nxweb_http_server_connection_finalize, EventsOf, HandlerInv
  <2>5. QueueHoldsIdleWorkers' BY <1>12 DEF ErrorDelivered, nxweb_http_server_connection_finalize, EventsOf, QueueHoldsIdleWorkers
  <2> QED BY <2>1, <2>2, <2>3, <2>4, <2>5 DEF InvParts
<1>13. CASE nxw_start_worker
  <2>1. ActiveInv' BY <1>13 DEF nxw_start_worker, Signalled, ActiveInv, Active, HandlerInv
  <2>2. SubscriptionInv' BY <1>13 DEF nxw_start_worker, Signalled, SubscriptionInv, HandlerInv
  <2>3. EventInv' BY <1>13 DEF nxw_start_worker, Signalled, EventInv
  <2>4. HandlerInv' BY <1>13 DEF nxw_start_worker, Signalled, HandlerInv
  <2>5. QueueHoldsIdleWorkers' BY <1>13 DEF nxw_start_worker, Signalled, QueueHoldsIdleWorkers, HandlerInv
  <2> QED BY <2>1, <2>2, <2>3, <2>4, <2>5 DEF InvParts
<1>14. CASE SpinUntilDone
  <2>1. ActiveInv' BY <1>14 DEF SpinUntilDone, nxweb_http_server_connection_finalize, EventsOf, ActiveInv, Active
  <2>2. SubscriptionInv' BY <1>14 DEF SpinUntilDone, nxweb_http_server_connection_finalize, EventsOf, SubscriptionInv, HandlerInv
  <2>3. EventInv'
    <3>1. pending' \subseteq pending BY <1>14 DEF SpinUntilDone
    <3>2. <<"request", cur>> \notin pending /\ npc' = "process"
      BY <1>14 DEF SpinUntilDone, HandlerInv, EventInv
    <3>3. /\ UNCHANGED in_worker
          /\ \A k \in Conns : k # cur => st'[k] = st[k]
      BY <1>14 DEF SpinUntilDone, nxweb_http_server_connection_finalize
    <3> QED BY <3>1, <3>2, <3>3 DEF EventInv
  <2>4. HandlerInv' BY <1>14 DEF SpinUntilDone, nxweb_http_server_connection_finalize, EventsOf, HandlerInv
  <2>5. QueueHoldsIdleWorkers' BY <1>14 DEF SpinUntilDone, nxweb_http_server_connection_finalize, EventsOf, QueueHoldsIdleWorkers
  <2> QED BY <2>1, <2>2, <2>3, <2>4, <2>5 DEF InvParts
<1>15. CASE GcDelivered
  <2>1. ActiveInv' BY <1>15 DEF GcDelivered, ActiveInv, Active
  <2>2. SubscriptionInv' BY <1>15 DEF GcDelivered, SubscriptionInv
  <2>3. EventInv' BY <1>15 DEF GcDelivered, EventInv
  <2>4. HandlerInv' BY <1>15 DEF GcDelivered, HandlerInv
  <2>5. QueueHoldsIdleWorkers' BY <1>15 DEF GcDelivered, QueueHoldsIdleWorkers
  <2> QED BY <2>1, <2>2, <2>3, <2>4, <2>5 DEF InvParts
<1>16. CASE GcExtra
  <2>1. ActiveInv' BY <1>16 DEF GcExtra, ActiveInv, Active
  <2>2. SubscriptionInv' BY <1>16 DEF GcExtra, SubscriptionInv
  <2>3. EventInv' BY <1>16 DEF GcExtra, EventInv
  <2>4. HandlerInv' BY <1>16 DEF GcExtra, HandlerInv
  <2>5. QueueHoldsIdleWorkers' BY <1>16 DEF GcExtra, QueueHoldsIdleWorkers
  <2> QED BY <2>1, <2>2, <2>3, <2>4, <2>5 DEF InvParts
<1>17. CASE GcPop
  <2>1. ActiveInv' BY <1>17 DEF GcPop, Signalled, ActiveInv, Active
  <2>2. SubscriptionInv' BY <1>17 DEF GcPop, Signalled, SubscriptionInv
  <2>3. EventInv' BY <1>17 DEF GcPop, Signalled, EventInv
  <2>4. HandlerInv' BY <1>17 DEF GcPop, Signalled, HandlerInv, QueueHoldsIdleWorkers
  <2>5. QueueHoldsIdleWorkers'
    <3>1. CASE queue # <<>> /\ queue' = Tail(queue)
      <4>1. \A i \in 1 .. Len(queue') :
              i + 1 \in 1 .. Len(queue) /\ queue'[i] = queue[i + 1] /\ queue'[i] # queue[1]
        BY <3>1, Pop DEF QueueHoldsIdleWorkers
      <4>2. \A v \in Workers : v # queue[1] => w_shutdown'[v] = w_shutdown[v] /\ wpc'[v] = wpc[v]
        BY <1>17, <3>1, Pop DEF GcPop, Signalled
      <4>3. UNCHANGED <<do_job, f_shutdown>> /\ \A i \in 1 .. Len(queue) : queue[i] \in Workers
        BY <1>17 DEF GcPop
      <4>4. Len(queue) \in Nat /\ Len(queue') \in Nat BY <3>1, Pop
      <4>5. \A i, j \in 1 .. Len(queue') : queue'[i] = queue'[j] => i = j
        BY <4>1, <4>4 DEF QueueHoldsIdleWorkers
      <4> QED BY <4>1, <4>2, <4>3, <4>5 DEF QueueHoldsIdleWorkers
    <3>2. CASE UNCHANGED <<queue, wpc, w_shutdown>>
      BY <1>17, <3>2 DEF GcPop, QueueHoldsIdleWorkers
    <3> QED BY <1>17, <3>1, <3>2 DEF GcPop
  <2> QED BY <2>1, <2>2, <2>3, <2>4, <2>5 DEF InvParts
<1>18. CASE FinalizeFactory
  <2>1. ActiveInv' BY <1>18 DEF FinalizeFactory, ActiveInv, Active
  <2>2. SubscriptionInv' BY <1>18 DEF FinalizeFactory, SubscriptionInv
  <2>3. EventInv' BY <1>18 DEF FinalizeFactory, EventInv
  <2>4. HandlerInv' BY <1>18 DEF FinalizeFactory, HandlerInv
  <2>5. QueueHoldsIdleWorkers' BY <1>18 DEF FinalizeFactory, QueueHoldsIdleWorkers
  <2> QED BY <2>1, <2>2, <2>3, <2>4, <2>5 DEF InvParts
<1>19. CASE FinalizePop
  <2>1. ActiveInv' BY <1>19 DEF FinalizePop, Signalled, ActiveInv, Active
  <2>2. SubscriptionInv' BY <1>19 DEF FinalizePop, Signalled, SubscriptionInv
  <2>3. EventInv' BY <1>19 DEF FinalizePop, Signalled, EventInv
  <2>4. HandlerInv' BY <1>19 DEF FinalizePop, Signalled, HandlerInv
  <2>5. QueueHoldsIdleWorkers'
    <3>1. CASE queue # <<>> /\ queue' = Tail(queue)
      <4>1. \A i \in 1 .. Len(queue') :
              i + 1 \in 1 .. Len(queue) /\ queue'[i] = queue[i + 1] /\ queue'[i] # queue[1]
        BY <3>1, Pop DEF QueueHoldsIdleWorkers
      <4>2. \A v \in Workers : v # queue[1] => w_shutdown'[v] = w_shutdown[v] /\ wpc'[v] = wpc[v]
        BY <1>19, <3>1, Pop DEF FinalizePop, Signalled
      <4>3. UNCHANGED <<do_job, f_shutdown>> /\ \A i \in 1 .. Len(queue) : queue[i] \in Workers
        BY <1>19 DEF FinalizePop
      <4>4. Len(queue) \in Nat /\ Len(queue') \in Nat BY <3>1, Pop
      <4>5. \A i, j \in 1 .. Len(queue') : queue'[i] = queue'[j] => i = j
        BY <4>1, <4>4 DEF QueueHoldsIdleWorkers
      <4> QED BY <4>1, <4>2, <4>3, <4>5 DEF QueueHoldsIdleWorkers
    <3>2. CASE UNCHANGED <<queue, wpc, w_shutdown>>
      BY <1>19, <3>2 DEF FinalizePop, QueueHoldsIdleWorkers
    <3> QED BY <1>19, <3>1, <3>2 DEF FinalizePop
  <2> QED BY <2>1, <2>2, <2>3, <2>4, <2>5 DEF InvParts
<1>20. CASE FinalizeJoin
  <2>1. ActiveInv' BY <1>20 DEF FinalizeJoin, nxw_destroy_worker, ActiveInv, Active
  <2>2. SubscriptionInv' BY <1>20 DEF FinalizeJoin, nxw_destroy_worker, SubscriptionInv
  <2>3. EventInv' BY <1>20 DEF FinalizeJoin, nxw_destroy_worker, EventInv
  <2>4. HandlerInv' BY <1>20 DEF FinalizeJoin, nxw_destroy_worker, HandlerInv
  <2>5. QueueHoldsIdleWorkers' BY <1>20 DEF FinalizeJoin, nxw_destroy_worker, QueueHoldsIdleWorkers, HandlerInv
  <2> QED BY <2>1, <2>2, <2>3, <2>4, <2>5 DEF InvParts
<1> QED BY <1>1, <1>2, <1>3, <1>4, <1>5, <1>6, <1>8, <1>9, <1>10, <1>11, <1>12, <1>13, <1>14, <1>15, <1>16, <1>17, <1>18, <1>19, <1>20 DEF NetStep

(* IInv is an invariant of the specification.                              *)
THEOREM Invariant == Spec => []IInv
<1>1. IInv /\ UNCHANGED vars => IInv'
  BY DEF vars, threadVars, loopVars, connVars, IInv, TypeOK, ActiveInv, Active,
         SubscriptionInv, EventInv, HandlerInv, QueueHoldsIdleWorkers
<1>2. ASSUME IInv, Next PROVE IInv'
  <2>1. TypeOK' BY <1>2, TypeNet, TypeEnvironment, TypeWorker, <1>1 DEF IInv, Next, Exited
  <2>2. InvParts' \/ UNCHANGED vars
    BY <1>2, InvNet, InvEnvironment, InvWorker DEF Next, Exited, Environment
  <2> QED BY <1>1, <1>2, <2>1, <2>2 DEF IInv, InvParts
<1> QED BY InvInit, <1>1, <1>2, PTL DEF Spec

(* Whatever errors, completions and garbage collections interleave with    *)
(* it, a worker that still uses its connection is its only user, and the   *)
(* network thread neither releases nor answers that connection.            *)
THEOREM JobSafe == Spec => []JobOwnsConnection
<1>1. IInv => JobOwnsConnection
  BY DEF IInv, ActiveInv, Active, SubscriptionInv, HandlerInv, JobOwnsConnection
<1> QED BY <1>1, Invariant, PTL

(* The idle queue holds waiting workers only, each once.                   *)
THEOREM QueueSafe == Spec => []QueueHoldsIdleWorkers
<1>1. IInv => QueueHoldsIdleWorkers BY DEF IInv
<1> QED BY <1>1, Invariant, PTL

(* A destroyed worker leaves no subscription to its eventfd behind, and a  *)
(* released connection has none.                                           *)
THEOREM SubscriptionSafe == Spec => []NoDanglingSubscription
<1>1. IInv => NoDanglingSubscription
  BY DEF IInv, SubscriptionInv, NoDanglingSubscription
<1> QED BY <1>1, Invariant, PTL

-----------------------------------------------------------------------------
(* The limit on workers.                                                   *)

(* Every step creates at most one worker, within the limit.                *)
LEMMA AllocatedStep ==
  ASSUME TypeOK, IsFiniteSet(Allocated), [Next]_vars
  PROVE  \/ Allocated' \subseteq Allocated
         \/ /\ worker_count <= MaxWorkers
            /\ \E w \in Workers : Allocated' = Allocated \cup {w}
<1> USE DEF threadVars, loopVars, connVars
<1> SUFFICES ASSUME NEW a \in Workers, wpc[a] = "none", wpc'[a] # "none"
             PROVE  /\ worker_count <= MaxWorkers
                    /\ \E w \in Workers : Allocated' = Allocated \cup {w}
  BY DEF Allocated
<1>1. \E c \in Conns, w \in Workers : nxw_get_worker_new(c, w)
  <2>1. ~ UNCHANGED wpc OBVIOUS
  <2>2. \A w \in Workers : ~ (WorkerStep(w) \/ SpuriousWakeup(w))
    <3> SUFFICES ASSUME NEW w \in Workers, WorkerStep(w) \/ SpuriousWakeup(w) PROVE FALSE
      OBVIOUS
    <3>1. wpc[w] # "none"
      BY DEF WorkerStep, SpuriousWakeup, WorkerTest, WorkerBranch, WorkerRun, WorkerSetDone,
             WorkerTrigger, WorkerEnqueue, WorkerExit
    <3>2. \A v \in Workers \ {w} : wpc'[v] = wpc[v]
      BY DEF WorkerStep, SpuriousWakeup, WorkerTest, WorkerBranch, WorkerRun, WorkerSetDone,
             WorkerTrigger, WorkerEnqueue, WorkerExit, TypeOK
    <3> QED BY <3>1, <3>2
  <2>3. ~ Environment
    BY <2>1, <2>2 DEF Environment, on_sigterm, accept_connection, RequestReceived,
                      ErrorReceived, ResponseSent
  <2>4. NetStep BY <2>1, <2>2, <2>3 DEF Next, Exited, vars
  <2>5. \A w \in Workers : wpc' # Signalled(wpc, w) BY DEF Signalled, TypeOK
  <2>6. \A w \in Workers : ~ nxw_destroy_worker(w) BY DEF nxw_destroy_worker, TypeOK
  <2>7. ~ (LoopTop \/ LoopDrained \/ EpollWait \/ EmitDone \/ SpinUntilDone \/ GcDelivered
           \/ GcExtra \/ FinalizeFactory)
    BY <2>1 DEF LoopTop, LoopDrained, EpollWait, EmitDone, SpinUntilDone, GcDelivered, GcExtra,
                FinalizeFactory
  <2>8. \A w \in Workers : ~ (eventfd_source_emit(w) \/ GcVisit(w))
    BY <2>1, <2>6 DEF eventfd_source_emit, GcVisit
  <2>9. \A c \in Conns : ~ (nxw_get_worker_idle(c) \/ nxw_get_worker_fails(c)
                            \/ WorkerComplete(c) \/ ErrorDelivered(c))
    BY <2>1 DEF nxw_get_worker_idle, nxw_get_worker_fails, WorkerComplete, ErrorDelivered
  <2>10. ~ nxw_start_worker BY DEF nxw_start_worker, Signalled, TypeOK
  <2>11. ~ (GcPop \/ FinalizePop)
    BY <2>1, <2>5, Pop DEF GcPop, FinalizePop
  <2>12. ~ FinalizeJoin BY <2>1, <2>6 DEF FinalizeJoin
  <2> QED BY <2>4, <2>7, <2>8, <2>9, <2>10, <2>11, <2>12 DEF NetStep
<1>2. PICK c \in Conns, w \in Workers : nxw_get_worker_new(c, w) BY <1>1
<1>3. Allocated' = Allocated \cup {w} BY <1>2 DEF nxw_get_worker_new, Allocated, TypeOK
<1>4. worker_count <= MaxWorkers
  <2>1. ~ (worker_count > MaxWorkers) BY <1>2 DEF nxw_get_worker_new
  <2>2. worker_count \in Nat /\ MaxWorkers \in Nat
    BY FS_CardinalityType, PoolAssumption DEF worker_count
  <2> QED BY <2>1, <2>2
<1> QED BY <1>3, <1>4

LEMMA BoundStep ==
  ASSUME TypeOK, IsFiniteSet(Allocated), WorkersBounded, [Next]_vars
  PROVE  IsFiniteSet(Allocated)' /\ WorkersBounded'
<1>1. worker_count \in Nat /\ MaxWorkers \in Nat
  BY FS_CardinalityType, PoolAssumption DEF worker_count
<1>2. CASE Allocated' \subseteq Allocated
  <2>1. /\ IsFiniteSet(Allocated') /\ Cardinality(Allocated') \in Nat
        /\ Cardinality(Allocated') <= Cardinality(Allocated)
    BY <1>2, FS_Subset, FS_CardinalityType
  <2> QED BY <1>1, <2>1 DEF worker_count, WorkersBounded
<1>3. ASSUME NEW w \in Workers, Allocated' = Allocated \cup {w}, worker_count <= MaxWorkers
      PROVE  IsFiniteSet(Allocated)' /\ WorkersBounded'
  <2>1. /\ IsFiniteSet(Allocated \cup {w})
        /\ \/ Cardinality(Allocated \cup {w}) = Cardinality(Allocated)
           \/ Cardinality(Allocated \cup {w}) = Cardinality(Allocated) + 1
    BY FS_AddElement
  <2> QED BY <1>1, <1>3, <2>1 DEF worker_count, WorkersBounded
<1> QED BY <1>2, <1>3, AllocatedStep

LEMMA BoundInit == Init => IsFiniteSet(Allocated) /\ WorkersBounded
<1> SUFFICES ASSUME Init PROVE IsFiniteSet(Allocated) /\ WorkersBounded OBVIOUS
<1>1. Allocated = {} BY DEF Init, Allocated
<1>2. IsFiniteSet({}) /\ Cardinality({}) = 0 BY FS_EmptySet
<1>3. MaxWorkers \in Nat BY PoolAssumption
<1> QED BY <1>1, <1>2, <1>3 DEF worker_count, WorkersBounded

(* nxw_get_worker keeps the number of workers of a network thread within   *)
(* the limit, those that have exited and are not destroyed yet included.   *)
THEOREM WorkerLimit == Spec => []WorkersBounded
<1>1. TypeOK /\ IsFiniteSet(Allocated) /\ WorkersBounded /\ [Next]_vars
      => IsFiniteSet(Allocated)' /\ WorkersBounded'
  BY BoundStep
<1> DEFINE Bound == IsFiniteSet(Allocated) /\ WorkersBounded
<1>2. TypeOK /\ Bound /\ [Next]_vars => Bound' BY <1>1
<1>3. Init => Bound BY BoundInit
<1>4. Bound => WorkersBounded OBVIOUS
<1> HIDE DEF Bound
<1> QED BY <1>2, <1>3, <1>4, TypeCorrect, PTL DEF Spec

(* What the strengthening adds to IInv and to the limit on workers.        *)
KeptParts == DismissInv /\ GcInv /\ CompletionInFlight

(* Steps of the worker threads: a worker leaves its job only by triggering *)
(* its eventfd.                                                            *)
LEMMA KeptWorker ==
  ASSUME KeptInv, NEW w \in Workers, WorkerStep(w) \/ SpuriousWakeup(w)
  PROVE  KeptParts'
<1> USE DEF KeptInv, IInv, TypeOK, threadVars, loopVars, connVars
<1>1. CASE WorkerTest(w)
  <2>1. DismissInv' BY <1>1 DEF WorkerTest, DismissInv
  <2>2. GcInv' BY <1>1 DEF WorkerTest, GcInv, DismissInv
  <2>3. CompletionInFlight' BY <1>1 DEF WorkerTest, CompletionInFlight, Active
  <2> QED BY <2>1, <2>2, <2>3 DEF KeptParts
<1>2. CASE WorkerBranch(w)
  <2>1. DismissInv' BY <1>2 DEF WorkerBranch, DismissInv
  <2>2. GcInv' BY <1>2 DEF WorkerBranch, GcInv, DismissInv
  <2>3. CompletionInFlight' BY <1>2 DEF WorkerBranch, CompletionInFlight, Active
  <2> QED BY <2>1, <2>2, <2>3 DEF KeptParts
<1>3. CASE WorkerRun(w)
  <2>1. DismissInv' BY <1>3 DEF WorkerRun, DismissInv, ActiveInv
  <2>2. GcInv' BY <1>3 DEF WorkerRun, GcInv, DismissInv
  <2>3. CompletionInFlight' BY <1>3 DEF WorkerRun, CompletionInFlight, Active
  <2> QED BY <2>1, <2>2, <2>3 DEF KeptParts
<1>4. CASE WorkerSetDone(w)
  <2>1. DismissInv' BY <1>4 DEF WorkerSetDone, DismissInv
  <2>2. GcInv' BY <1>4 DEF WorkerSetDone, GcInv, DismissInv
  <2>3. CompletionInFlight' BY <1>4 DEF WorkerSetDone, CompletionInFlight, Active
  <2> QED BY <2>1, <2>2, <2>3 DEF KeptParts
<1>5. CASE WorkerTrigger(w)
  <2>1. DismissInv' BY <1>5 DEF WorkerTrigger, DismissInv
  <2>2. GcInv' BY <1>5 DEF WorkerTrigger, GcInv, DismissInv
  <2>3. CompletionInFlight' BY <1>5 DEF WorkerTrigger, CompletionInFlight, Active
  <2> QED BY <2>1, <2>2, <2>3 DEF KeptParts
<1>6. CASE WorkerEnqueue(w)
  <2>1. DismissInv' BY <1>6 DEF WorkerEnqueue, DismissInv
  <2>2. GcInv' BY <1>6 DEF WorkerEnqueue, GcInv, DismissInv
  <2>3. CompletionInFlight' BY <1>6 DEF WorkerEnqueue, CompletionInFlight, Active
  <2> QED BY <2>1, <2>2, <2>3 DEF KeptParts
<1>7. CASE WorkerExit(w)
  <2>1. DismissInv' BY <1>7 DEF WorkerExit, DismissInv
  <2>2. GcInv' BY <1>7 DEF WorkerExit, GcInv, DismissInv
  <2>3. CompletionInFlight' BY <1>7 DEF WorkerExit, CompletionInFlight, Active
  <2> QED BY <2>1, <2>2, <2>3 DEF KeptParts
<1>8. CASE SpuriousWakeup(w)
  <2>1. DismissInv' BY <1>8 DEF SpuriousWakeup, DismissInv
  <2>2. GcInv' BY <1>8 DEF SpuriousWakeup, GcInv, DismissInv
  <2>3. CompletionInFlight' BY <1>8 DEF SpuriousWakeup, CompletionInFlight, Active
  <2> QED BY <2>1, <2>2, <2>3 DEF KeptParts
<1> QED BY <1>1, <1>2, <1>3, <1>4, <1>5, <1>6, <1>7, <1>8 DEF WorkerStep

(* Steps of peers and of the signal handler.                               *)
LEMMA KeptEnvironment ==
  ASSUME KeptInv, Environment, ~ \E w \in Workers : SpuriousWakeup(w)
  PROVE  KeptParts'
<1> USE DEF KeptInv, IInv, TypeOK, threadVars, loopVars, connVars
<1>1. CASE on_sigterm
  <2>1. DismissInv' BY <1>1 DEF on_sigterm, DismissInv
  <2>2. GcInv' BY <1>1 DEF on_sigterm, GcInv, DismissInv
  <2>3. CompletionInFlight' BY <1>1 DEF on_sigterm, CompletionInFlight, Active
  <2> QED BY <2>1, <2>2, <2>3 DEF KeptParts
<1>2. ASSUME NEW c \in Conns, accept_connection(c) PROVE KeptParts'
  <2>1. DismissInv' BY <1>2 DEF accept_connection, DismissInv
  <2>2. GcInv' BY <1>2 DEF accept_connection, GcInv, DismissInv
  <2>3. CompletionInFlight' BY <1>2 DEF accept_connection, CompletionInFlight, Active
  <2> QED BY <2>1, <2>2, <2>3 DEF KeptParts
<1>3. ASSUME NEW c \in Conns, RequestReceived(c) PROVE KeptParts'
  <2>1. DismissInv' BY <1>3 DEF RequestReceived, DismissInv
  <2>2. GcInv' BY <1>3 DEF RequestReceived, GcInv, DismissInv, GcEvent
  <2>3. CompletionInFlight' BY <1>3 DEF RequestReceived, CompletionInFlight, Active
  <2> QED BY <2>1, <2>2, <2>3 DEF KeptParts
<1>4. ASSUME NEW c \in Conns, ErrorReceived(c) PROVE KeptParts'
  <2>1. DismissInv' BY <1>4 DEF ErrorReceived, DismissInv
  <2>2. GcInv' BY <1>4 DEF ErrorReceived, GcInv, DismissInv, GcEvent
  <2>3. CompletionInFlight' BY <1>4 DEF ErrorReceived, CompletionInFlight, Active
  <2> QED BY <2>1, <2>2, <2>3 DEF KeptParts
<1>5. ASSUME NEW c \in Conns, ResponseSent(c) PROVE KeptParts'
  <2>1. DismissInv' BY <1>5 DEF ResponseSent, DismissInv
  <2>2. GcInv' BY <1>5 DEF ResponseSent, GcInv, DismissInv
  <2>3. CompletionInFlight' BY <1>5 DEF ResponseSent, CompletionInFlight, Active
  <2> QED BY <2>1, <2>2, <2>3 DEF KeptParts
<1> QED BY <1>1, <1>2, <1>3, <1>4, <1>5 DEF Environment

(* Steps of the network thread.                                            *)
LEMMA KeptNet ==
  ASSUME KeptInv, NetStep
  PROVE  KeptParts'
<1> USE DEF KeptInv, IInv, TypeOK, threadVars, loopVars, connVars
<1>1. CASE LoopTop
  <2>1. DismissInv' BY <1>1 DEF LoopTop, DismissInv
  <2>2. GcInv' BY <1>1 DEF LoopTop, GcInv, DismissInv, GcEvent, ShutdownEvent, CompletionInFlight
  <2>3. CompletionInFlight' BY <1>1 DEF LoopTop, CompletionInFlight, Active
  <2> QED BY <2>1, <2>2, <2>3 DEF KeptParts
<1>2. CASE LoopDrained
  <2>1. DismissInv' BY <1>2 DEF LoopDrained, DismissInv
  <2>2. GcInv' BY <1>2 DEF LoopDrained, GcInv, DismissInv
  <2>3. CompletionInFlight' BY <1>2 DEF LoopDrained, CompletionInFlight, Active
  <2> QED BY <2>1, <2>2, <2>3 DEF KeptParts
<1>3. CASE EpollWait
  <2>1. DismissInv' BY <1>3 DEF EpollWait, DismissInv
  <2>2. GcInv' BY <1>3 DEF EpollWait, GcInv, DismissInv, GcEvent, ShutdownEvent, CompletionInFlight
  <2>3. CompletionInFlight' BY <1>3 DEF EpollWait, CompletionInFlight, Active
  <2> QED BY <2>1, <2>2, <2>3 DEF KeptParts
<1>4. CASE EmitDone
  <2>1. DismissInv' BY <1>4 DEF EmitDone, DismissInv
  <2>2. GcInv' BY <1>4, PoolAssumption DEF EmitDone, GcInv, DismissInv, CompletionInFlight, Active, ActiveInv
  <2>3. CompletionInFlight' BY <1>4 DEF EmitDone, CompletionInFlight, Active
  <2> QED BY <2>1, <2>2, <2>3 DEF KeptParts
<1>5. CASE nxw_start_worker
  <2>1. DismissInv' BY <1>5 DEF nxw_start_worker, DismissInv, Signalled, HandlerInv
  <2>2. GcInv' BY <1>5 DEF nxw_start_worker, GcInv, DismissInv, HandlerInv
  <2>3. CompletionInFlight' BY <1>5 DEF nxw_start_worker, CompletionInFlight, Active, Signalled, HandlerInv, SubscriptionInv
  <2> QED BY <2>1, <2>2, <2>3 DEF KeptParts
<1>6. CASE SpinUntilDone
  <2>1. DismissInv' BY <1>6 DEF SpinUntilDone, DismissInv
  <2>2. GcInv' BY <1>6 DEF SpinUntilDone, GcInv, DismissInv, EventsOf, GcEvent, nxweb_http_server_connection_finalize, HandlerInv
  <2>3. CompletionInFlight' BY <1>6 DEF SpinUntilDone, CompletionInFlight, Active, EventsOf, HandlerInv
  <2> QED BY <2>1, <2>2, <2>3 DEF KeptParts
<1>7. CASE GcDelivered
  <2>1. DismissInv' BY <1>7 DEF GcDelivered, DismissInv
  <2>2. GcInv' BY <1>7 DEF GcDelivered, GcInv, DismissInv, GcEvent, ShutdownEvent, CompletionInFlight
  <2>3. CompletionInFlight' BY <1>7 DEF GcDelivered, CompletionInFlight, Active, GcEvent
  <2> QED BY <2>1, <2>2, <2>3 DEF KeptParts
<1>8. CASE GcExtra
  <2>1. DismissInv' BY <1>8 DEF GcExtra, DismissInv
  <2>2. GcInv' BY <1>8 DEF GcExtra, GcInv, DismissInv
  <2>3. CompletionInFlight' BY <1>8 DEF GcExtra, CompletionInFlight, Active
  <2> QED BY <2>1, <2>2, <2>3 DEF KeptParts
<1>9. CASE FinalizeFactory
  <2>1. DismissInv' BY <1>9 DEF FinalizeFactory, DismissInv
  <2>2. GcInv' BY <1>9 DEF FinalizeFactory, GcInv, DismissInv, GcEvent, ShutdownEvent, CompletionInFlight
  <2>3. CompletionInFlight' BY <1>9 DEF FinalizeFactory, CompletionInFlight, Active
  <2> QED BY <2>1, <2>2, <2>3 DEF KeptParts
<1>10. ASSUME NEW w \in Workers, eventfd_source_emit(w) PROVE KeptParts'
  <2>1. DismissInv' BY <1>10 DEF eventfd_source_emit, DismissInv
  <2>2. GcInv' BY <1>10 DEF eventfd_source_emit, GcInv, DismissInv, GcEvent
  <2>3. CompletionInFlight' BY <1>10 DEF eventfd_source_emit, CompletionInFlight, Active
  <2> QED BY <2>1, <2>2, <2>3 DEF KeptParts
<1>11. ASSUME NEW w \in Workers, GcVisit(w) PROVE KeptParts'
  <2>1. DismissInv' BY <1>11 DEF GcVisit, DismissInv, nxw_destroy_worker
  <2>2. GcInv' BY <1>11, PoolAssumption DEF GcVisit, GcInv, DismissInv, nxw_destroy_worker
  <2>3. CompletionInFlight' BY <1>11 DEF GcVisit, CompletionInFlight, Active, nxw_destroy_worker, DismissInv, GcInv, SubscriptionInv
  <2> QED BY <2>1, <2>2, <2>3 DEF KeptParts
<1>12. ASSUME NEW c \in Conns, nxw_get_worker_idle(c) PROVE KeptParts'
  <2>1. DismissInv' BY <1>12 DEF nxw_get_worker_idle, DismissInv
  <2>2. GcInv' BY <1>12 DEF nxw_get_worker_idle, GcInv, DismissInv, GcEvent
  <2>3. CompletionInFlight' BY <1>12 DEF nxw_get_worker_idle, CompletionInFlight, Active
  <2> QED BY <2>1, <2>2, <2>3 DEF KeptParts
<1>13. ASSUME NEW c \in Conns, nxw_get_worker_fails(c) PROVE KeptParts'
  <2>1. DismissInv' BY <1>13 DEF nxw_get_worker_fails, DismissInv
  <2>2. GcInv' BY <1>13 DEF nxw_get_worker_fails, GcInv, DismissInv, GcEvent
  <2>3. CompletionInFlight' BY <1>13 DEF nxw_get_worker_fails, CompletionInFlight, Active
  <2> QED BY <2>1, <2>2, <2>3 DEF KeptParts
<1>14. ASSUME NEW c \in Conns, WorkerComplete(c) PROVE KeptParts'
  <2>1. DismissInv' BY <1>14 DEF WorkerComplete, DismissInv
  <2>2. GcInv' BY <1>14 DEF WorkerComplete, GcInv, DismissInv, GcEvent
  <2>3. CompletionInFlight' BY <1>14 DEF WorkerComplete, CompletionInFlight, Active
  <2> QED BY <2>1, <2>2, <2>3 DEF KeptParts
<1>15. ASSUME NEW c \in Conns, ErrorDelivered(c) PROVE KeptParts'
  <2>1. DismissInv' BY <1>15 DEF ErrorDelivered, DismissInv
  <2>2. GcInv' BY <1>15 DEF ErrorDelivered, GcInv, DismissInv, GcEvent, EventsOf
  <2>3. CompletionInFlight' BY <1>15 DEF ErrorDelivered, CompletionInFlight, Active, EventsOf
  <2> QED BY <2>1, <2>2, <2>3 DEF KeptParts
<1>16. ASSUME NEW c \in Conns, NEW w \in Workers, nxw_get_worker_new(c, w) PROVE KeptParts'
  <2>1. DismissInv' BY <1>16 DEF nxw_get_worker_new, DismissInv, HandlerInv
  <2>2. GcInv' BY <1>16 DEF nxw_get_worker_new, GcInv, DismissInv, GcEvent
  <2>3. CompletionInFlight' BY <1>16 DEF nxw_get_worker_new, CompletionInFlight, Active
  <2> QED BY <2>1, <2>2, <2>3 DEF KeptParts
<1>17. CASE GcPop
  <2>1. DismissInv' BY <1>17, Pop DEF GcPop, DismissInv, QueueHoldsIdleWorkers, Signalled, HandlerInv
  <2>2. GcInv' BY <1>17, Pop DEF GcPop, GcInv, DismissInv, QueueHoldsIdleWorkers
  <2>3. CompletionInFlight' BY <1>17, Pop DEF GcPop, CompletionInFlight, Active, Signalled
  <2> QED BY <2>1, <2>2, <2>3 DEF KeptParts
<1>18. CASE FinalizePop
  <2>1. DismissInv' BY <1>18, Pop DEF FinalizePop, DismissInv, Signalled, HandlerInv
  <2>2. GcInv' BY <1>18, Pop DEF FinalizePop, GcInv, DismissInv, HandlerInv
  <2>3. CompletionInFlight' BY <1>18, Pop DEF FinalizePop, CompletionInFlight, Active, HandlerInv
  <2> QED BY <2>1, <2>2, <2>3 DEF KeptParts
<1>19. CASE FinalizeJoin
  <2>1. DismissInv' BY <1>19 DEF FinalizeJoin, DismissInv, nxw_destroy_worker, HandlerInv
  <2>2. GcInv' BY <1>19 DEF FinalizeJoin, GcInv, DismissInv, nxw_destroy_worker, HandlerInv
  <2>3. CompletionInFlight' BY <1>19 DEF FinalizeJoin, CompletionInFlight, Active, nxw_destroy_worker, HandlerInv
  <2> QED BY <2>1, <2>2, <2>3 DEF KeptParts
<1> QED BY <1>1, <1>2, <1>3, <1>4, <1>5, <1>6, <1>7, <1>8, <1>9, <1>10, <1>11, <1>12, <1>13, <1>14, <1>15, <1>16, <1>17, <1>18, <1>19 DEF NetStep

LEMMA KeptInit == Init => KeptInv
<1> SUFFICES ASSUME Init PROVE KeptInv OBVIOUS
<1>1. DismissInv BY DEF Init, DismissInv
<1>2. GcInv BY DEF Init, GcInv
<1>3. CompletionInFlight BY DEF Init, CompletionInFlight
<1> QED BY <1>1, <1>2, <1>3, InvInit, BoundInit DEF KeptInv

(* What one step preserves, from IInv being an invariant.                  *)
LEMMA KeptStep ==
  ASSUME KeptInv, IInv', [Next]_vars
  PROVE  KeptInv'
<1>1. IsFiniteSet(Allocated)' /\ WorkersBounded' BY BoundStep DEF KeptInv, IInv
<1>2. CASE UNCHANGED vars
  BY <1>1, <1>2 DEF KeptInv, DismissInv, GcInv, CompletionInFlight, Active, vars, threadVars,
                    loopVars, connVars
<1>3. CASE Next
  <2>1. KeptParts' \/ UNCHANGED vars
    BY <1>3, KeptNet, KeptEnvironment, KeptWorker DEF Next, Exited, Environment
  <2> QED BY <1>1, <1>2, <2>1 DEF KeptInv, KeptParts
<1> QED BY <1>2, <1>3

(* KeptInv holds in every state.                                           *)
LEMMA Kept == Spec => []KeptInv
<1>1. KeptInv /\ IInv' /\ [Next]_vars => KeptInv' BY KeptStep
<1> QED BY <1>1, KeptInit, Invariant, PTL DEF Spec

(* For every limit on workers and every size of the queue nxw_get_worker   *)
(* and nxw_worker_main keep the completion of a job on its way to its      *)
(* connection, until the factory is finalized or the worker destroyed:     *)
(* whatever the gc dismisses and however completions and jobs overlap.     *)
THEOREM CompletionsArrive == Spec => []JobsAndWorkersKept
<1>1. KeptInv => JobsAndWorkersKept BY DEF KeptInv, JobsAndWorkersKept
<1> QED BY <1>1, Kept, PTL

(* The subscription of a connection in a worker goes only with the worker. *)
LEMMA AbandonStep ==
  ASSUME KeptInv, [Next]_vars, NEW c \in Conns, Abandons(c)
  PROVE  LeftAlone(sub[c])
<1> USE DEF KeptInv, IInv, TypeOK, Abandons, threadVars, loopVars, connVars
<1>1. CASE UNCHANGED vars BY <1>1 DEF vars
<1>2. CASE Environment
  BY <1>2 DEF Environment, on_sigterm, accept_connection, RequestReceived, ErrorReceived,
              ResponseSent, SpuriousWakeup
<1>3. CASE \E w \in Workers : WorkerStep(w)
  BY <1>3 DEF WorkerStep, WorkerTest, WorkerBranch, WorkerRun, WorkerSetDone, WorkerTrigger,
              WorkerEnqueue, WorkerExit
<1>4. CASE NetStep
  <2>1. CASE \E w \in Workers : GcVisit(w)
    <3>1. PICK w \in Workers : GcVisit(w) BY <2>1
    <3>2. wpc[w] = "dead" /\ sub[c] = w /\ npc = "gc"
      BY <3>1 DEF GcVisit, nxw_destroy_worker
    <3> QED BY <3>2 DEF LeftAlone, GcInv
  <2>2. CASE nxw_start_worker BY <2>2, PoolAssumption DEF nxw_start_worker, HandlerInv
  <2>3. CASE FinalizeJoin BY <2>3 DEF FinalizeJoin, HandlerInv
  <2>4. CASE \E cc \in Conns : ErrorDelivered(cc) BY <2>4 DEF ErrorDelivered, SubscriptionInv
  <2>5. CASE \E cc \in Conns : WorkerComplete(cc) BY <2>5 DEF WorkerComplete
  <2>6. CASE SpinUntilDone BY <2>6 DEF SpinUntilDone
  <2>7. CASE \E cc \in Conns : \/ nxw_get_worker_idle(cc) \/ nxw_get_worker_fails(cc)
                              \/ \E w \in Workers : nxw_get_worker_new(cc, w)
    BY <2>7 DEF nxw_get_worker_idle, nxw_get_worker_fails, nxw_get_worker_new
  <2>8. CASE \/ LoopTop \/ LoopDrained \/ EpollWait \/ EmitDone \/ GcDelivered \/ GcExtra
             \/ GcPop \/ FinalizeFactory \/ FinalizePop
             \/ \E w \in Workers : eventfd_source_emit(w)
    BY <2>8 DEF LoopTop, LoopDrained, EpollWait, EmitDone, GcDelivered, GcExtra, GcPop,
                FinalizeFactory, FinalizePop, eventfd_source_emit
  <2> QED BY <1>4, <2>1, <2>2, <2>3, <2>4, <2>5, <2>6, <2>7, <2>8 DEF NetStep
<1> QED BY <1>1, <1>2, <1>3, <1>4 DEF Next, Exited

(* A worker that is not told to leave leaves only a full queue.            *)
LEMMA LeaveStep ==
  ASSUME KeptInv, [Next]_vars, NEW w \in Workers, Leaves(w)
  PROVE  Len(queue) >= QueueSize - 1
<1> USE DEF KeptInv, IInv, TypeOK, Leaves, threadVars, loopVars, connVars
<1>1. CASE UNCHANGED vars BY <1>1 DEF vars
<1>2. CASE Environment
  BY <1>2 DEF Environment, on_sigterm, accept_connection, RequestReceived, ErrorReceived,
              ResponseSent, SpuriousWakeup
<1>3. CASE \E v \in Workers : WorkerStep(v)
  <2>1. PICK v \in Workers : WorkerStep(v) BY <1>3
  <2>2. CASE WorkerEnqueue(v) BY <2>2 DEF WorkerEnqueue
  <2>3. CASE WorkerBranch(v) BY <2>3 DEF WorkerBranch, DismissInv
  <2>4. CASE WorkerTest(v) \/ WorkerRun(v) \/ WorkerSetDone(v) \/ WorkerTrigger(v) \/ WorkerExit(v)
    BY <2>4 DEF WorkerTest, WorkerRun, WorkerSetDone, WorkerTrigger, WorkerExit
  <2> QED BY <2>1, <2>2, <2>3, <2>4 DEF WorkerStep
<1>4. CASE NetStep
  BY <1>4 DEF NetStep, LoopTop, LoopDrained, EpollWait, EmitDone, GcDelivered, GcExtra, GcPop,
              FinalizeFactory, FinalizePop, FinalizeJoin, eventfd_source_emit, GcVisit,
              nxw_destroy_worker, nxw_get_worker_idle, nxw_get_worker_fails, nxw_get_worker_new,
              nxw_start_worker, SpinUntilDone, WorkerComplete, ErrorDelivered, Signalled
<1> QED BY <1>1, <1>2, <1>3, <1>4 DEF Next, Exited

(* The completion of a job is lost in one way only: the gc destroys a      *)
(* worker that has left a full idle queue (nxw_worker_main), which the     *)
(* code's sizes allow.  Dismissing idle workers and handing a worker out   *)
(* again before its last completion has been delivered lose none.          *)
THEOREM LossIsCrowding == Spec => LostOnlyIfCrowded
<1>1. KeptInv /\ [Next]_vars =>
        [/\ \A c \in Conns : Abandons(c) => LeftAlone(sub[c])
         /\ \A w \in Workers : Leaves(w) => Len(queue) >= QueueSize - 1]_vars
  BY AbandonStep, LeaveStep
<1> QED BY <1>1, Kept, PTL DEF Spec, LostOnlyIfCrowded

-----------------------------------------------------------------------------
(* The choice of the handler.                                              *)

DFields == {"config", "list", "pc", "orig", "req", "at", "handler", "fdata", "idx", "from", "ran",
            "stored", "started", "declined", "failed"}

DispatchOK(s) == DOMAIN s = DFields /\ ListInv(s) /\ TriedInv(s) /\ ChosenInv(s) /\ RanInv(s)

LEMMA ConfigIs ==
  ASSUME NEW cf \in Configs
  PROVE  /\ Len(cf) \in Nat /\ DOMAIN cf = 1 .. Len(cf)
         /\ \A h \in 1 .. Len(cf) : cf[h].priority \in Nat /\ IsSequence(cf[h].filters)
BY DispatchAssumption DEF IsSequence

-----------------------------------------------------------------------------
(* Registration.                                                           *)

LEMMA BeforeOrders ==
  ASSUME NEW cf, NEW n \in Nat, \A h \in 1 .. n : cf[h].priority \in Nat,
         NEW g \in 1 .. n, NEW h \in 1 .. n
  PROVE  /\ ~ Before(cf, g, g)
         /\ Before(cf, g, h) => ~ Before(cf, h, g)
         /\ Before(cf, g, h) => cf[g].priority <= cf[h].priority
BY DEF Before

(* u is q with e put at place p.                                           *)
IsInserted(u, q, n, p, e) ==
  /\ u \in Seq(Nat) /\ Len(u) = n + 1 /\ u[p] = e
  /\ \A i \in 1 .. n : i < p => u[i] = q[i]
  /\ \A i \in 1 .. n : ~ (i < p) => u[i + 1] = q[i]

LEMMA Inserted ==
  ASSUME NEW q \in Seq(Nat), NEW n, n = Len(q), NEW p \in 1 .. n + 1, NEW e \in Nat
  PROVE  IsInserted(InsertAt(q, p, e), q, n, p, e)
<1> DEFINE a == SubSeq(q, 1, p - 1)
           b == SubSeq(q, p, n)
           m == a \o <<e>>
           r == m \o b
<1>1. n \in Nat /\ \A i \in 1 .. n : q[i] \in Nat BY LenProperties, ElementOfSeq
<1>2. a \in Seq(Nat) /\ Len(a) = p - 1 /\ \A i \in 1 .. p - 1 : a[i] = q[i]
  <2>1. 1 \in Int /\ p - 1 \in Int /\ \A i \in 1 .. p - 1 : q[i] \in Nat BY <1>1
  <2>2. /\ a \in Seq(Nat) /\ Len(a) = IF 1 <= p - 1 THEN p - 1 - 1 + 1 ELSE 0
        /\ \A i \in 1 .. p - 1 - 1 + 1 : a[i] = q[1 + i - 1]
    BY <2>1, SubSeqProperties, SMTT(30)
  <2> HIDE DEF a
  <2> QED BY <1>1, <2>2
<1>3. b \in Seq(Nat) /\ Len(b) = n + 1 - p /\ \A i \in 1 .. n + 1 - p : b[i] = q[p + i - 1]
  <2>1. p \in Int /\ n \in Int /\ \A i \in p .. n : q[i] \in Nat BY <1>1
  <2>2. /\ b \in Seq(Nat) /\ Len(b) = IF p <= n THEN n - p + 1 ELSE 0
        /\ \A i \in 1 .. n - p + 1 : b[i] = q[p + i - 1]
    BY <2>1, SubSeqProperties, SMTT(30)
  <2> HIDE DEF b
  <2> QED BY <1>1, <2>2
<1> HIDE DEF a, b
<1>4. m \in Seq(Nat) /\ Len(m) = p /\ m[p] = e /\ \A i \in 1 .. p - 1 : m[i] = a[i]
  <2>1. <<e>> \in Seq(Nat) /\ Len(<<e>>) = 1 /\ <<e>>[1] = e OBVIOUS
  <2> DEFINE c == <<e>>
  <2> HIDE DEF c
  <2>2. /\ a \o c \in Seq(Nat) /\ Len(a \o c) = Len(a) + Len(c)
        /\ \A i \in 1 .. Len(a) + Len(c) : (a \o c)[i] = IF i <= Len(a) THEN a[i] ELSE c[i - Len(a)]
    BY <1>2, <2>1, ConcatProperties DEF c
  <2>3. m = a \o c BY DEF c
  <2> HIDE DEF m
  <2>4. Len(c) = 1 /\ c[1] = e BY <2>1 DEF c
  <2>5. p - (p - 1) = 1 /\ p \in 1 .. p - 1 + 1 /\ ~ (p <= p - 1) /\ \A i \in 1 .. p - 1 : i \in 1 .. p - 1 + 1
    BY <1>1
  <2> QED BY <1>1, <1>2, <2>2, <2>3, <2>4, <2>5
<1> HIDE DEF m
<1>5. /\ r \in Seq(Nat) /\ Len(r) = p + (n + 1 - p)
      /\ \A i \in 1 .. p + (n + 1 - p) : r[i] = IF i <= p THEN m[i] ELSE b[i - p]
  <2>1. /\ r \in Seq(Nat) /\ Len(r) = Len(m) + Len(b)
        /\ \A i \in 1 .. Len(m) + Len(b) : r[i] = IF i <= Len(m) THEN m[i] ELSE b[i - Len(m)]
    <3>1. m \in Seq(Nat) /\ b \in Seq(Nat) BY <1>3, <1>4
    <3> QED BY ONLY <3>1, ConcatProperties DEF r
  <2> HIDE DEF r
  <2> QED BY <1>3, <1>4, <2>1
<1>6. InsertAt(q, p, e) = r BY DEF InsertAt, r, m, a, b
<1> HIDE DEF r
<1>7. p + (n + 1 - p) = n + 1 BY <1>1
<1>8. r[p] = e
  <2>1. p \in 1 .. p + (n + 1 - p) /\ p <= p BY <1>1
  <2> QED BY <1>4, <1>5, <2>1
<1>9. \A i \in 1 .. n : i < p => r[i] = q[i]
  <2> SUFFICES ASSUME NEW i \in 1 .. n, i < p PROVE r[i] = q[i] OBVIOUS
  <2>1. i \in 1 .. p + (n + 1 - p) /\ i <= p /\ i \in 1 .. p - 1 BY <1>1
  <2> QED BY <1>2, <1>4, <1>5, <2>1
<1>10. \A i \in 1 .. n : ~ (i < p) => r[i + 1] = q[i]
  <2> SUFFICES ASSUME NEW i \in 1 .. n, ~ (i < p) PROVE r[i + 1] = q[i] OBVIOUS
  <2> DEFINE j == i + 1
             k == j - p
  <2>1. /\ j \in 1 .. p + (n + 1 - p) /\ ~ (j <= p) /\ k \in 1 .. n + 1 - p /\ p + k - 1 = i
    BY <1>1
  <2>2. r[j] = b[k]
    <3> HIDE DEF j
    <3> QED BY <1>5, <2>1
  <2>3. b[k] = q[p + k - 1]
    <3> HIDE DEF k
    <3> QED BY <1>3, <2>1
  <2> QED BY <2>1, <2>2, <2>3
<1>11. IsInserted(r, q, n, p, e) BY <1>5, <1>7, <1>8, <1>9, <1>10 DEF IsInserted
<1> QED BY <1>6, <1>11

(* The smallest of a set of numbers.                                       *)
LEMMA MinIs ==
  ASSUME NEW S \in SUBSET Nat, S # {}
  PROVE  Min(S) \in S /\ \A y \in S : Min(S) <= y
<1>1. PICK x \in S : \A y \in S : ~ (<<y, x>> \in OpToRel(<, Nat))
  BY NatLessThanWellFounded, WFMin
<1>0. x \in Nat /\ \A y \in S : y \in Nat OBVIOUS
<1>2. \A y \in S : ~ (y < x) BY <1>0, <1>1 DEF OpToRel
<1>3. \E z \in S : \A y \in S : z =< y BY <1>0, <1>2
<1> QED BY <1>3 DEF Min

(* A handler goes after those of its priority or a smaller one, and before *)
(* the others.                                                             *)
LEMMA PlaceIs ==
  ASSUME NEW s, ListInv(s), NEW h \in 1 .. Len(s.config)
  PROVE  LET p == PlaceOf(s, h)
         IN  /\ p \in 1 .. Len(s.list) + 1
             /\ \A i \in 1 .. Len(s.list) :
                  /\ i < p => s.config[s.list[i]].priority <= s.config[h].priority
                  /\ ~ (i < p) => s.config[s.list[i]].priority > s.config[h].priority
<1> DEFINE n == Len(s.list)
           prio(i) == s.config[s.list[i]].priority
           v == s.config[h].priority
           later == {i \in 2 .. n : prio(i) > v}
           p == PlaceOf(s, h)
<1>1. n \in Nat /\ n <= Len(s.config) /\ Len(s.config) \in Nat BY ConfigIs, LenProperties DEF ListInv
<1>0. \A g \in 1 .. Len(s.config) : s.config[g].priority \in Nat
  <2>1. s.config \in Configs BY DEF ListInv
  <2> QED BY <2>1, ConfigIs
<1>2. v \in Nat /\ \A i \in 1 .. n : prio(i) \in Nat
  <2>1. \A i \in 1 .. n : s.list[i] \in 1 .. n BY DEF ListInv
  <2> QED BY <1>0, <1>1, <2>1
<1>3. \A i, j \in 1 .. n : i < j => prio(i) <= prio(j)
  <2> TAKE i, j \in 1 .. n
  <2> HAVE i < j
  <2>1. s.list[i] \in 1 .. n /\ s.list[j] \in 1 .. n /\ Before(s.config, s.list[i], s.list[j]) BY DEF ListInv
  <2>2. \A g \in 1 .. n : s.config[g].priority \in Nat BY <1>0, <1>1
  <2> QED BY <1>1, <2>1, <2>2, BeforeOrders
<1>4. p = IF s.list = <<>> \/ v < prio(1) THEN 1 ELSE IF later = {} THEN n + 1 ELSE Min(later)
  BY DEF PlaceOf
<1>5. s.list = <<>> <=> n = 0 BY EmptySeq, LenProperties DEF ListInv
<1> HIDE DEF n, p, v, prio
<1>6. CASE s.list = <<>> \/ v < prio(1)
  <2>1. p = 1 BY <1>4, <1>6
  <2>2. \A i \in 1 .. n : ~ (i < 1) /\ prio(i) > v
    <3> TAKE i \in 1 .. n
    <3>1. 1 \in 1 .. n /\ v < prio(1) BY <1>1, <1>5, <1>6
    <3>2. i = 1 \/ 1 < i BY <1>1
    <3>3. prio(1) <= prio(i) BY <1>2, <1>3, <3>1, <3>2
    <3> QED BY <1>1, <1>2, <3>1, <3>3
  <2> QED BY <1>1, <2>1, <2>2 DEF n, p, v, prio
<1>7. CASE ~ (s.list = <<>> \/ v < prio(1)) /\ later = {}
  <2>1. p = n + 1 BY <1>4, <1>7
  <2>2. \A i \in 1 .. n : i < n + 1 /\ prio(i) <= v
    <3> TAKE i \in 1 .. n
    <3>1. i = 1 \/ i \in 2 .. n BY <1>1
    <3>2. ~ (prio(i) > v)
      <4>1. CASE i = 1 BY <1>2, <1>7, <4>1
      <4>2. CASE i \in 2 .. n BY <1>7, <4>2
      <4> QED BY <3>1, <4>1, <4>2
    <3> QED BY <1>1, <1>2, <3>2
  <2> QED BY <1>1, <2>1, <2>2 DEF n, p, v, prio
<1>8. CASE ~ (s.list = <<>> \/ v < prio(1)) /\ later # {}
  <2>1. p = Min(later) BY <1>4, <1>8
  <2>2. later \in SUBSET Nat BY <1>1
  <2>3. p \in later /\ \A y \in later : p <= y
    <3> HIDE DEF later
    <3> QED BY <1>8, <2>1, <2>2, MinIs
  <2>4. p \in 2 .. n /\ prio(p) > v BY <2>3
  <2>5. \A i \in 1 .. n : (i < p => prio(i) <= v) /\ (~ (i < p) => prio(i) > v)
    <3> TAKE i \in 1 .. n
    <3>1. CASE i = 1
      <4>1. ~ (v < prio(1)) /\ 1 \in 1 .. n /\ 1 < p BY <1>1, <1>8, <2>4
      <4>2. prio(1) \in Nat BY <1>2, <4>1
      <4> QED BY <1>2, <3>1, <4>1, <4>2
    <3>2. CASE i # 1 /\ i < p
      <4>1. i \in 2 .. n BY <1>1, <3>2
      <4>2. i \notin later BY <1>1, <2>3, <2>4, <3>2
      <4> QED BY <1>2, <3>2, <4>1, <4>2
    <3>3. CASE ~ (i < p)
      <4>1. p \in 1 .. n /\ (i = p \/ p < i) BY <1>1, <2>4, <3>3
      <4>2. prio(p) <= prio(i) BY <1>2, <1>3, <4>1
      <4>3. prio(p) \in Nat /\ prio(i) \in Nat BY <1>2, <4>1
      <4> QED BY <1>2, <2>4, <3>3, <4>2, <4>3
    <3> QED BY <3>1, <3>2, <3>3
  <2> QED BY <1>1, <2>4, <2>5 DEF n, p, v, prio
<1> QED BY <1>6, <1>7, <1>8

LEMMA RegisterKeepsList ==
  ASSUME NEW s, ListInv(s), Len(s.list) < Len(s.config), NEW t,
         t.config = s.config, t.list = InsertAt(s.list, PlaceOf(s, Len(s.list) + 1), Len(s.list) + 1)
  PROVE  ListInv(t) /\ Len(t.list) = Len(s.list) + 1
<1> DEFINE cf == s.config
           q == s.list
           n == Len(q)
           h == n + 1
           p == PlaceOf(s, h)
           r == t.list
<1>1. /\ cf \in Configs /\ q \in Seq(Nat) /\ n \in Nat /\ Len(cf) \in Nat /\ n < Len(cf) /\ h \in 1 .. Len(cf)
      /\ \A i \in 1 .. n : q[i] \in 1 .. n
      /\ \A g \in 1 .. n : \E i \in 1 .. n : q[i] = g
      /\ \A i, j \in 1 .. n : i < j => Before(cf, q[i], q[j])
  <2>1. /\ cf \in Configs /\ q \in Seq(Nat)
        /\ \A i \in 1 .. n : q[i] \in 1 .. n
        /\ \A g \in 1 .. n : \E i \in 1 .. n : q[i] = g
        /\ \A i, j \in 1 .. n : i < j => Before(cf, q[i], q[j])
    BY DEF ListInv
  <2>2. Len(cf) \in Nat /\ n \in Nat BY <2>1, ConfigIs, LenProperties
  <2> QED BY <2>1, <2>2
<1>2. \A g \in 1 .. Len(cf) : cf[g].priority \in Nat BY <1>1, ConfigIs
<1>3. /\ p \in 1 .. n + 1
      /\ \A i \in 1 .. n : /\ i < p => cf[q[i]].priority <= cf[h].priority
                           /\ ~ (i < p) => cf[q[i]].priority > cf[h].priority
  <2> HIDE DEF h
  <2> QED BY <1>1, PlaceIs
<1>4. r = InsertAt(q, p, h) OBVIOUS
<1> HIDE DEF p, r, h, n, q, cf
<1>13. n \in Nat /\ p \in 1 .. n + 1 /\ Len(cf) \in Nat /\ n < Len(cf) BY <1>1, <1>3
<1>5. /\ r \in Seq(Nat) /\ Len(r) = n + 1 /\ r[p] = h
      /\ \A i \in 1 .. n : i < p => r[i] = q[i]
      /\ \A i \in 1 .. n : ~ (i < p) => r[i + 1] = q[i]
  <2>1. h \in Nat /\ q \in Seq(Nat) /\ n = Len(q) BY <1>1 DEF h, n
  <2>2. p \in 1 .. n + 1 BY <1>3
  <2>3. IsInserted(InsertAt(q, p, h), q, n, p, h) BY ONLY <2>1, <2>2, Inserted
  <2> QED BY <1>4, <2>3 DEF IsInserted
<1>6. \A i \in 1 .. n + 1 : \/ i < p /\ i \in 1 .. n /\ r[i] = q[i]
                            \/ i = p /\ r[i] = h
                            \/ i > p /\ i - 1 \in 1 .. n /\ ~ (i - 1 < p) /\ r[i] = q[i - 1]
  <2> TAKE i \in 1 .. n + 1
  <2>1. CASE i < p
    <3>1. i \in 1 .. n BY <1>13, <2>1
    <3> QED BY <1>5, <2>1, <3>1
  <2>2. CASE i = p BY <1>5, <2>2
  <2>3. CASE i > p
    <3>1. i - 1 \in 1 .. n /\ ~ (i - 1 < p) /\ i - 1 + 1 = i BY <1>1, <1>3, <2>3
    <3> QED BY <1>5, <2>3, <3>1
  <2> QED BY <1>1, <1>3, <2>1, <2>2, <2>3
<1>7. h = n + 1 /\ h \in Nat BY <1>1 DEF h
<1>8. \A i \in 1 .. n + 1 : r[i] \in 1 .. n + 1
  <2> TAKE i \in 1 .. n + 1
  <2>0. \A k \in 1 .. n : q[k] \in 1 .. n BY <1>1
  <2>1. \A k \in 1 .. n : q[k] \in 1 .. n + 1 BY <1>13, <2>0
  <2>2. h \in 1 .. n + 1 BY <1>7, <1>13
  <2> QED BY <1>6, <2>1, <2>2
<1>9. \A g \in 1 .. n + 1 : \E i \in 1 .. n + 1 : r[i] = g
  <2> TAKE g \in 1 .. n + 1
  <2>1. CASE g = h BY <1>3, <1>5, <2>1
  <2>2. CASE g # h
    <3>1. g \in 1 .. n BY <1>1, <1>7, <2>2
    <3>2. PICK i \in 1 .. n : q[i] = g BY <1>1, <3>1
    <3>3. CASE i < p
      <4>1. i \in 1 .. n + 1 /\ r[i] = q[i] BY <1>1, <1>5, <3>3
      <4> QED BY <3>2, <4>1
    <3>4. CASE ~ (i < p)
      <4>1. i + 1 \in 1 .. n + 1 /\ r[i + 1] = q[i] BY <1>1, <1>5, <3>4
      <4> QED BY <3>2, <4>1
    <3> QED BY <3>3, <3>4
  <2> QED BY <2>1, <2>2
<1>10. \A i, j \in 1 .. n + 1 : i < j => Before(cf, r[i], r[j])
  <2> TAKE i, j \in 1 .. n + 1
  <2> HAVE i < j
  <2>1. cf[h].priority \in Nat /\ \A k \in 1 .. n : cf[q[k]].priority \in Nat /\ q[k] \in Nat /\ q[k] < h
    <3>1. h \in 1 .. Len(cf) BY <1>1 DEF h
    <3>2. \A k \in 1 .. n : q[k] \in 1 .. n BY <1>1
    <3>3. \A k \in 1 .. n : q[k] \in 1 .. Len(cf) /\ q[k] \in Nat /\ q[k] < h BY <1>7, <1>13, <3>2
    <3> QED BY <1>2, <3>1, <3>3
  <2>2. CASE i < p /\ j < p BY <1>1, <1>3, <1>6, <2>2
  <2>3. CASE i < p /\ j = p
    <3>1. i \in 1 .. n /\ r[i] = q[i] /\ r[j] = h BY <1>6, <1>13, <2>3
    <3> QED BY <1>3, <1>7, <2>1, <2>3, <3>1 DEF Before
  <2>4. CASE i < p /\ j > p
    <3>1. i \in 1 .. n /\ j - 1 \in 1 .. n /\ r[i] = q[i] /\ r[j] = q[j - 1] /\ i < j - 1
      BY <1>6, <1>13, <2>4
    <3> QED BY <1>1, <3>1
  <2>5. CASE i = p /\ j > p
    <3>1. r[i] = h /\ j - 1 \in 1 .. n /\ ~ (j - 1 < p) /\ r[j] = q[j - 1] BY <1>6, <1>13, <2>5
    <3> QED BY <1>3, <2>1, <3>1 DEF Before
  <2>6. CASE i > p /\ j > p
    <3>1. i - 1 \in 1 .. n /\ j - 1 \in 1 .. n /\ r[i] = q[i - 1] /\ r[j] = q[j - 1] /\ i - 1 < j - 1
      BY <1>6, <1>13, <2>6
    <3> QED BY <1>1, <3>1
  <2>7. \/ i < p /\ (j < p \/ j = p \/ j > p)
        \/ i = p /\ j > p
        \/ i > p /\ j > p
    BY <1>13
  <2> QED BY <2>2, <2>3, <2>4, <2>5, <2>6, <2>7
<1>11. t.config = cf /\ n + 1 <= Len(cf) BY <1>1 DEF cf
<1>12. ListInv(t) BY <1>1, <1>5, <1>8, <1>9, <1>10, <1>11 DEF ListInv, r
<1> QED BY <1>5, <1>12 DEF r, n, q

-----------------------------------------------------------------------------
(* Filters run in order.                                                   *)

(* Induction over 0 .. n, for a set of numbers.                            *)
LEMMA SetInduction ==
  ASSUME NEW n \in Nat, NEW T, 0 \in T, \A i \in 1 .. n : i - 1 \in T => i \in T
  PROVE  \A i \in 0 .. n : i \in T
<1> DEFINE left == {i \in 0 .. n : i \notin T}
<1> SUFFICES ASSUME left # {} PROVE FALSE OBVIOUS
<1>1. left \subseteq Nat OBVIOUS
<1>2. PICK x \in left : \A y \in left : ~ (<<y, x>> \in OpToRel(<, Nat))
  BY <1>1, NatLessThanWellFounded, WFMin
<1>3. x \in 0 .. n /\ x \notin T /\ \A y \in left : y \in Nat /\ ~ (y < x)
  BY <1>1, <1>2 DEF OpToRel
<1>4. x \in 1 .. n BY <1>3
<1>5. x - 1 \notin left BY <1>3, <1>4
<1>6. x - 1 \in T BY <1>4, <1>5
<1> QED BY <1>3, <1>4, <1>6

Sorted(q, S) == q \in [1 .. Cardinality(S) -> S] /\ Increasing(q) /\ Range(q) = S

(* The numbers up to n that are in S can be put in order, by induction.    *)
LEMMA CanSort ==
  ASSUME NEW n \in Nat, NEW S \in SUBSET (1 .. n)
  PROVE  IsFiniteSet(S) /\ \E q : Sorted(q, S)
<1> DEFINE P(m) == {i \in S : i <= m}
           T == {m \in 0 .. n : IsFiniteSet(P(m)) /\ \E q : Sorted(q, P(m))}
<1>0. \A i \in S : i \in Nat /\ i >= 1 /\ i <= n OBVIOUS
<1>1. 0 \in T
  <2>1. P(0) = {}
    <3>1. \A i \in S : ~ (i <= 0) BY <1>0
    <3> QED BY <3>1
  <2>2. IsFiniteSet({}) /\ Cardinality({}) = 0 BY FS_EmptySet
  <2> DEFINE q == [i \in 1 .. 0 |-> i]
  <2>3. q \in [1 .. 0 -> {}] /\ \A i \in DOMAIN q : FALSE OBVIOUS
  <2> HIDE DEF q
  <2>4. Sorted(q, {}) BY <2>2, <2>3 DEF Sorted, Increasing, Range
  <2> QED BY <2>1, <2>2, <2>4
<1>2. ASSUME NEW m \in 1 .. n, m - 1 \in T PROVE m \in T
  <2> DEFINE A == P(m - 1)
             B == P(m)
             k == Cardinality(A)
  <2>1. IsFiniteSet(A) /\ \E q : Sorted(q, A) BY <1>2
  <2>2. PICK q : Sorted(q, A) BY <2>1
  <2>3. \A i \in A : i \in Nat /\ i < m BY <1>0
  <2>7. \A i \in S : (i <= m) <=> (i <= m - 1 \/ i = m) BY <1>0
  <2>4. k \in Nat BY <2>1, FS_CardinalityType
  <2>5. CASE m \notin S
    <3>1. A = B BY <2>5, <2>7
    <3>2. IsFiniteSet(B) /\ \E f : Sorted(f, B) BY <2>1, <3>1
    <3> QED BY <3>2
  <2>6. CASE m \in S
    <3>1. B = A \cup {m} /\ m \notin A
      <4>1. m \notin A /\ m \in B BY <2>6, <1>0
      <4> QED BY <2>6, <2>7, <4>1
    <3> HIDE DEF A, B
    <3>2. IsFiniteSet(B) /\ Cardinality(B) = k + 1 BY <2>1, <3>1, FS_AddElement
    <3> HIDE DEF k
    <3> DEFINE r == [i \in 1 .. k + 1 |-> IF i = k + 1 THEN m ELSE q[i]]
    <3>3. q \in [1 .. k -> A] /\ (\A i, j \in 1 .. k : i < j => q[i] < q[j]) /\ Range(q) = A
      BY <2>2 DEF Sorted, Increasing, k
    <3>4. DOMAIN r = 1 .. k + 1 /\ r[k + 1] = m /\ \A i \in 1 .. k : r[i] = q[i] BY <2>4
    <3>5. \A i \in 1 .. k + 1 : i = k + 1 \/ i \in 1 .. k BY <2>4
    <3>6. r \in [1 .. k + 1 -> B] BY <3>1, <3>3, <3>5
    <3> HIDE DEF r
    <3>7. Increasing(r)
      <4> SUFFICES ASSUME NEW i \in 1 .. k + 1, NEW j \in 1 .. k + 1, i < j PROVE r[i] < r[j]
        BY <3>4 DEF Increasing
      <4>1. i \in 1 .. k BY <2>4
      <4>2. CASE j = k + 1
        <5>1. q[i] \in A /\ r[i] = q[i] BY <3>3, <3>4, <4>1
        <5> QED BY <2>3, <3>4, <4>2, <5>1
      <4>3. CASE j \in 1 .. k BY <3>3, <3>4, <4>1, <4>3
      <4> QED BY <3>5, <4>2, <4>3
    <3>8. Range(r) = B
      <4>1. \A x \in B : \E i \in 1 .. k + 1 : r[i] = x
        <5> TAKE x \in B
        <5>1. CASE x = m BY <2>4, <3>4, <5>1
        <5>2. CASE x # m
          <6>1. x \in Range(q) BY <3>1, <3>3, <5>2
          <6>2. PICK i \in 1 .. k : q[i] = x BY <3>3, <6>1 DEF Range
          <6>3. i \in 1 .. k + 1 /\ r[i] = x BY <2>4, <3>4, <6>2
          <6> QED BY <6>3
        <5> QED BY <5>1, <5>2
      <4> QED BY <3>4, <3>6, <4>1 DEF Range
    <3>9. Sorted(r, B) BY <3>2, <3>6, <3>7, <3>8 DEF Sorted
    <3> QED BY <3>2, <3>9 DEF B
  <2> QED BY <2>5, <2>6
<1>3. \A i \in 0 .. n : i \in T
  <2> HIDE DEF T
  <2> QED BY <1>1, <1>2, SetInduction
<1>4. n \in T /\ P(n) = S
  <2>1. n \in 0 .. n OBVIOUS
  <2>2. n \in T
    <3> HIDE DEF T
    <3> QED BY <1>3, <2>1
  <2> QED BY <1>0, <2>2
<1> QED BY <1>4

LEMMA InOrderIs ==
  ASSUME NEW n \in Nat, NEW S \in SUBSET (1 .. n)
  PROVE  InOrder(S) \in Seq(S) /\ Increasing(InOrder(S)) /\ Range(InOrder(S)) = S
<1>1. PICK q : Sorted(q, S) BY CanSort
<1>2. \E r \in [1 .. Cardinality(S) -> S] : Increasing(r) /\ Range(r) = S BY <1>1 DEF Sorted
<1>3. InOrder(S) \in [1 .. Cardinality(S) -> S] /\ Increasing(InOrder(S)) /\ Range(InOrder(S)) = S
  BY <1>2 DEF InOrder
<1>4. Cardinality(S) \in Nat BY CanSort, FS_CardinalityType
<1> DEFINE m == Cardinality(S)
<1>5. InOrder(S) \in Seq(S)
  <2> HIDE DEF m
  <2>1. m \in Nat /\ InOrder(S) \in [1 .. m -> S] BY <1>3, <1>4 DEF m
  <2> QED BY <2>1, SeqDef
<1> QED BY <1>3, <1>5

(* What runs later comes after what has run.                               *)
LEMMA RunOn ==
  ASSUME NEW q \in Seq(Nat), NEW r \in Seq(Nat), Increasing(q), Increasing(r),
         \A x \in Range(q) : \A y \in Range(r) : x < y
  PROVE  q \o r \in Seq(Nat) /\ Increasing(q \o r) /\ Range(q \o r) = Range(q) \cup Range(r)
<1> DEFINE m == Len(q)
           n == Len(r)
           z == q \o r
<1>1. m \in Nat /\ n \in Nat /\ DOMAIN q = 1 .. m /\ DOMAIN r = 1 .. n BY LenProperties
<1>2. z \in Seq(Nat) /\ Len(z) = m + n /\ \A i \in 1 .. m + n : z[i] = IF i <= m THEN q[i] ELSE r[i - m]
  BY ConcatProperties
<1> HIDE DEF z
<1>3. DOMAIN z = 1 .. m + n BY <1>2, LenProperties
<1> HIDE DEF m, n
<1>4. \A i \in 1 .. m + n : \/ i <= m /\ i \in 1 .. m /\ z[i] = q[i]
                            \/ i > m /\ i - m \in 1 .. n /\ z[i] = r[i - m]
  BY <1>1, <1>2
<1>5. Increasing(z)
  <2> SUFFICES ASSUME NEW i \in 1 .. m + n, NEW j \in 1 .. m + n, i < j PROVE z[i] < z[j]
    BY <1>3 DEF Increasing
  <2>1. CASE i <= m /\ j <= m
    <3>1. i \in 1 .. m /\ j \in 1 .. m /\ z[i] = q[i] /\ z[j] = q[j] BY <1>1, <1>4, <2>1
    <3> QED BY <1>1, <3>1 DEF Increasing
  <2>2. CASE i <= m /\ j > m
    <3>1. i \in 1 .. m /\ j - m \in 1 .. n /\ z[i] = q[i] /\ z[j] = r[j - m] BY <1>1, <1>4, <2>2
    <3>2. q[i] \in Range(q) /\ r[j - m] \in Range(r) BY <1>1, <3>1 DEF Range
    <3> QED BY <3>1, <3>2
  <2>3. CASE i > m /\ j > m
    <3>1. i - m \in 1 .. n /\ j - m \in 1 .. n /\ z[i] = r[i - m] /\ z[j] = r[j - m] /\ i - m < j - m
      BY <1>1, <1>4, <2>3
    <3> QED BY <1>1, <3>1 DEF Increasing
  <2> QED BY <1>1, <2>1, <2>2, <2>3
<1>6. \A x : x \in Range(z) => x \in Range(q) \cup Range(r)
  <2> SUFFICES ASSUME NEW i \in 1 .. m + n PROVE z[i] \in Range(q) \cup Range(r) BY <1>3 DEF Range
  <2> QED BY <1>1, <1>4 DEF Range
<1>7. \A i \in 1 .. m : q[i] \in Range(z)
  <2> TAKE i \in 1 .. m
  <2>1. i \in 1 .. m + n /\ z[i] = q[i] BY <1>1, <1>2
  <2> QED BY <1>3, <2>1 DEF Range
<1>8. \A i \in 1 .. n : r[i] \in Range(z)
  <2> TAKE i \in 1 .. n
  <2> DEFINE k == m + i
  <2>1. k \in 1 .. m + n /\ ~ (k <= m) /\ k - m = i BY <1>1
  <2> HIDE DEF k
  <2>2. z[k] = r[i] BY <1>2, <2>1
  <2> QED BY <1>3, <2>1, <2>2 DEF Range
<1>9. Range(z) = Range(q) \cup Range(r)
  <2>1. \A x \in Range(q) : x \in Range(z) BY <1>1, <1>7 DEF Range
  <2>2. \A x \in Range(r) : x \in Range(z) BY <1>1, <1>8 DEF Range
  <2> QED BY <1>6, <2>1, <2>2
<1> QED BY <1>2, <1>5, <1>9 DEF z

(* The fields that running the filters may change.                         *)
RunFields == {"ran", "stored", "started", "pc", "idx"}

LEMMA SameFilters ==
  ASSUME NEW s, NEW t, t.handler = s.handler, t.config = s.config
  PROVE  Filters(t) = Filters(s) /\ Memcached(t) = Memcached(s)
BY DEF Filters, Memcached, HandlerOf

(* The filters between the first n and the m-th are run, in order, after   *)
(* those that have run.                                                    *)
LEMMA RanThen ==
  ASSUME NEW s, NEW n \in Nat, NEW m \in Nat, IsSequence(s.fdata), s.from \in Nat, s.from <= n,
         s.ran \in Seq(Nat), Increasing(s.ran), Range(s.ran) = RunUpTo(s, n), n <= m \/ m = Len(s.fdata),
         m <= Len(s.fdata)
  PROVE  LET S == {i \in {i \in n + 1 .. Len(s.fdata) : s.fdata[i] = "on"} : i <= m}
             r == s.ran \o InOrder(S)
         IN  r \in Seq(Nat) /\ Increasing(r) /\ Range(r) = RunUpTo(s, m)
<1> DEFINE L == Len(s.fdata)
           S == {i \in {i \in n + 1 .. L : s.fdata[i] = "on"} : i <= m}
           q == InOrder(S)
<1>1. L \in Nat BY DEF IsSequence
<1>2. S \in SUBSET (1 .. L) BY <1>1
<1>3. q \in Seq(S) /\ Increasing(q) /\ Range(q) = S
  <2> HIDE DEF S, L
  <2> QED BY <1>1, <1>2, InOrderIs
<1>4. q \in Seq(Nat)
  <2>1. S \subseteq Nat BY <1>1
  <2> HIDE DEF q, S
  <2>2. \A i \in 1 .. Len(q) : q[i] \in Nat BY <1>3, <2>1, ElementOfSeq
  <2>3. q \in [1 .. Len(q) -> Nat] /\ Len(q) \in Nat BY <1>3, <2>2, LenProperties
  <2> QED BY <2>3, SeqDef
<1>5. \A x \in RunUpTo(s, n) : \A y \in S : x < y BY <1>1 DEF RunUpTo
<1>6. RunUpTo(s, n) \cup S = RunUpTo(s, m)
  <2>1. \A i \in 1 .. L : i \in RunUpTo(s, n) \cup S <=> i \in RunUpTo(s, m) BY <1>1 DEF RunUpTo
  <2>2. RunUpTo(s, n) \subseteq 1 .. L /\ RunUpTo(s, m) \subseteq 1 .. L BY DEF RunUpTo
  <2> HIDE DEF S, L
  <2> QED BY <1>2, <2>1, <2>2
<1> HIDE DEF q
<1>7. s.ran \o q \in Seq(Nat) /\ Increasing(s.ran \o q) /\ Range(s.ran \o q) = Range(s.ran) \cup Range(q)
  <2> HIDE DEF S
  <2>1. \A x \in Range(s.ran) : \A y \in Range(q) : x < y BY <1>3, <1>5
  <2> QED BY <1>3, <1>4, <2>1, RunOn
<1> QED BY <1>3, <1>6, <1>7 DEF q

LEMMA RunKeeps ==
  ASSUME NEW s, DOMAIN s = DFields, IsSequence(s.fdata), Len(s.fdata) = Len(Filters(s)),
         s.ran \in Seq(Nat), Increasing(s.ran), s.from \in Nat, s.idx \in Nat, s.started = 0, s.stored = 0,
         NEW n \in Nat, s.from <= n, Range(s.ran) = RunUpTo(s, n), NEW error,
         NEW t \in RunFilters(s, n, error)
  PROVE  /\ DOMAIN t = DFields /\ \A f \in DFields \ RunFields : t[f] = s[f]
         /\ t.pc \in {"sending", "delayed"} /\ RanInv(t)
<1> DEFINE L == Len(s.fdata)
           on == {i \in n + 1 .. L : s.fdata[i] = "on"}
           Ran(m) == s.ran \o InOrder({i \in on : i <= m})
           after(m) == [s EXCEPT !.ran = @ \o InOrder({i \in on : i <= m})]
<1>1. L \in Nat BY DEF IsSequence
<1>2. ASSUME NEW m \in Nat, n <= m \/ m = L, m <= L
      PROVE  Ran(m) \in Seq(Nat) /\ Increasing(Ran(m)) /\ Range(Ran(m)) = RunUpTo(s, m)
  BY <1>2, RanThen
<1>3. \/ t = StartSending(Store(after(L)))
      \/ \E i \in on : t = DelayedAt(after(i), i)
  BY DEF RunFilters
<1>4. \A m : /\ DOMAIN after(m) = DFields /\ after(m).ran = Ran(m)
             /\ \A f \in DFields \ {"ran"} : after(m)[f] = s[f]
  BY DEF DFields
<1> HIDE DEF after, Ran
<1>5. CASE t = StartSending(Store(after(L)))
  <2> DEFINE a == after(L)
             b == Store(a)
  <2>1. DOMAIN a = DFields /\ a.ran = Ran(L) /\ \A f \in DFields \ {"ran"} : a[f] = s[f] BY <1>4
  <2> HIDE DEF a
  <2>2. a.stored = 0 BY <2>1 DEF DFields
  <2>3. DOMAIN b = DFields /\ b.stored \in {0, 1} /\ \A f \in DFields \ {"stored"} : b[f] = a[f]
    <3>1. CASE Memcached(a)
      <4>1. b = [a EXCEPT !.stored = @ + 1] BY <3>1 DEF Store
      <4> QED BY <2>1, <2>2, <4>1 DEF DFields
    <3>2. CASE ~ Memcached(a)
      <4>1. b = a BY <3>2 DEF Store
      <4> QED BY <2>1, <2>2, <4>1
    <3> QED BY <3>1, <3>2
  <2>4. t = [b EXCEPT !.started = @ + 1, !.pc = "sending"] BY <1>5 DEF StartSending, a
  <2> HIDE DEF b
  <2>5. /\ DOMAIN t = DFields /\ t.started = b.started + 1 /\ t.pc = "sending"
        /\ \A f \in DFields \ {"started", "pc"} : t[f] = b[f]
    BY <2>3, <2>4 DEF DFields
  <2>6. /\ t.ran = Ran(L) /\ t.stored \in {0, 1} /\ t.started = 1 /\ t.fdata = s.fdata /\ t.from = s.from
        /\ t.idx = s.idx /\ t.handler = s.handler /\ t.config = s.config
    BY <2>1, <2>3, <2>5 DEF DFields
  <2>7. \A f \in DFields \ RunFields : t[f] = s[f] BY <2>1, <2>3, <2>5 DEF RunFields
  <2>8. RunUpTo(t, Len(t.fdata)) = RunUpTo(s, L) BY <2>6 DEF RunUpTo
  <2>9. Ran(L) \in Seq(Nat) /\ Increasing(Ran(L)) /\ Range(Ran(L)) = RunUpTo(s, L)
    <3>1. L <= L BY <1>1
    <3> QED BY <1>1, <1>2, <3>1
  <2>10. Filters(t) = Filters(s) BY <2>6, SameFilters
  <2>11. RanInv(t) BY <2>5, <2>6, <2>8, <2>9, <2>10 DEF RanInv
  <2> QED BY <2>5, <2>7, <2>11
<1>6. CASE \E i \in on : t = DelayedAt(after(i), i)
  <2>1. PICK i \in on : t = DelayedAt(after(i), i) BY <1>6
  <2> DEFINE a == after(i)
  <2>2. DOMAIN a = DFields /\ a.ran = Ran(i) /\ \A f \in DFields \ {"ran"} : a[f] = s[f] BY <1>4
  <2>3. t = [a EXCEPT !.idx = i, !.pc = "delayed"] BY <2>1 DEF DelayedAt
  <2> HIDE DEF a
  <2>4. /\ DOMAIN t = DFields /\ t.idx = i /\ t.pc = "delayed"
        /\ \A f \in DFields \ {"idx", "pc"} : t[f] = a[f]
    BY <2>2, <2>3 DEF DFields
  <2>5. i \in Nat /\ n <= i /\ i <= L /\ s.from <= i BY <1>1
  <2>6. /\ t.ran = Ran(i) /\ t.stored = 0 /\ t.started = 0 /\ t.fdata = s.fdata /\ t.from = s.from
        /\ t.handler = s.handler /\ t.config = s.config
    BY <2>2, <2>4 DEF DFields
  <2>7. \A f \in DFields \ RunFields : t[f] = s[f] BY <2>2, <2>4 DEF RunFields
  <2>8. RunUpTo(t, t.idx) = RunUpTo(s, i) BY <2>4, <2>6 DEF RunUpTo
  <2>9. Ran(i) \in Seq(Nat) /\ Increasing(Ran(i)) /\ Range(Ran(i)) = RunUpTo(s, i) BY <1>2, <2>5
  <2>10. Filters(t) = Filters(s) BY <2>6, SameFilters
  <2>11. RanInv(t) BY <2>4, <2>5, <2>6, <2>8, <2>9, <2>10 DEF RanInv
  <2> QED BY <2>4, <2>7, <2>11
<1> QED BY <1>3, <1>5, <1>6

-----------------------------------------------------------------------------
(* nxweb_select_handler.                                                   *)

(* t is s with handler h selected and its filters initialised.             *)
Selecting(s, h, t) ==
  /\ DOMAIN t = DFields /\ \A f \in DFields \ {"handler", "fdata", "req"} : t[f] = s[f]
  /\ t.handler = h /\ IsSequence(t.fdata) /\ Len(t.fdata) = Len(s.config[h].filters)

(* The dispatcher is at handler h, which suits.                            *)
AtHandler(s, h) ==
  /\ DispatchOK(s) /\ s.pc = "dispatch" /\ s.at <= Len(s.list) /\ h = s.list[s.at]
  /\ Suits(s.orig, s.config[h])

LEMMA AtHandlerIs ==
  ASSUME NEW s, NEW h, AtHandler(s, h)
  PROVE  /\ h \in 1 .. Len(s.config) /\ h # Default /\ h # NoHandler /\ IsSequence(s.config[h].filters)
         /\ s.at \in 1 .. Len(s.list) /\ Len(s.list) \in Nat
<1>1. s.config \in Configs /\ Len(s.list) = Len(s.config) /\ s.list \in Seq(Nat) BY DEF AtHandler, DispatchOK, ListInv, TriedInv
<1>2. Len(s.config) \in Nat /\ \A g \in 1 .. Len(s.config) : IsSequence(s.config[g].filters) BY <1>1, ConfigIs
<1>3. s.at \in 1 .. Len(s.list) BY <1>1, <1>2 DEF AtHandler, DispatchOK, TriedInv
<1>4. h \in 1 .. Len(s.list) BY <1>3 DEF AtHandler, DispatchOK, ListInv
<1> QED BY <1>1, <1>2, <1>3, <1>4 DEF Default, NoHandler

LEMMA SelectingFilters ==
  ASSUME NEW s, NEW h, AtHandler(s, h), NEW t, Selecting(s, h, t)
  PROVE  /\ Len(t.fdata) = Len(Filters(t)) /\ IsSequence(t.fdata)
         /\ t.config = s.config /\ t.list = s.list /\ t.pc = "dispatch" /\ t.orig = s.orig /\ t.at = s.at
         /\ t.idx = 0 /\ t.from = 0 /\ t.ran = <<>> /\ t.stored = 0 /\ t.started = 0
         /\ t.declined = s.declined /\ ~ t.failed
         /\ t.handler = h /\ Filters(t) = s.config[h].filters
<1>1. /\ t.config = s.config /\ t.list = s.list /\ t.pc = s.pc /\ t.orig = s.orig /\ t.at = s.at
      /\ t.idx = s.idx /\ t.from = s.from /\ t.ran = s.ran /\ t.stored = s.stored /\ t.started = s.started
      /\ t.declined = s.declined /\ t.failed = s.failed /\ t.handler = h
  BY DEF Selecting, DFields
<1>2. s.pc = "dispatch" BY DEF AtHandler
<1>3. s.idx = 0 /\ s.from = 0 /\ s.ran = <<>> /\ s.stored = 0 /\ s.started = 0 BY <1>2 DEF AtHandler, DispatchOK, RanInv
<1>4. ~ s.failed BY <1>2 DEF AtHandler, DispatchOK, ChosenInv, Dispatching
<1>5. h # Default /\ h # NoHandler BY AtHandlerIs
<1>6. Filters(t) = s.config[h].filters BY <1>1, <1>5 DEF Filters, HandlerOf
<1> QED BY <1>1, <1>2, <1>3, <1>4, <1>6 DEF Selecting

LEMMA InitFiltersSelects ==
  ASSUME NEW s, NEW h, AtHandler(s, h), NEW t \in InitFilters(s, h)
  PROVE  Selecting(s, h, t)
<1> DEFINE fs == s.config[h].filters
<1>1. DOMAIN fs = 1 .. Len(fs) /\ Len(fs) \in Nat BY AtHandlerIs DEF IsSequence
<1>2. DOMAIN s = DFields BY DEF AtHandler, DispatchOK
<1>8. PICK fd \in [DOMAIN fs -> {"none", "on", "bypass"}] :
        \E uri : t = [s EXCEPT !.handler = h, !.fdata = fd, !.req.uri = uri]
  BY ZenonT(60) DEF InitFilters
<1>3. PICK uri : t = [s EXCEPT !.handler = h, !.fdata = fd, !.req.uri = uri] BY <1>8
<1>4. DOMAIN t = DFields /\ t.handler = h /\ t.fdata = fd /\ \A f \in DFields \ {"handler", "fdata", "req"} : t[f] = s[f]
  BY <1>2, <1>3 DEF DFields
<1>5. fd \in [1 .. Len(fs) -> {"none", "on", "bypass"}] BY <1>1
<1>6. fd \in Seq({"none", "on", "bypass"}) /\ Len(fd) = Len(fs)
  <2> DEFINE n == Len(fs)
  <2>1. n \in Nat /\ fd \in [1 .. n -> {"none", "on", "bypass"}] BY <1>1, <1>5
  <2> HIDE DEF n
  <2>2. fd \in Seq({"none", "on", "bypass"}) BY <2>1, SeqDef
  <2>3. Len(fd) = n BY <2>1, <2>2, LenProperties
  <2> QED BY <2>2, <2>3 DEF n
<1>7. IsSequence(fd) BY <1>6, LenProperties DEF IsSequence
<1> QED BY <1>4, <1>6, <1>7 DEF Selecting

(* What a selected state becomes, once the stages have decided.            *)
LEMMA ChosenOK ==
  ASSUME NEW s, NEW h, AtHandler(s, h), NEW t, DOMAIN t = DFields,
         t.config = s.config, t.list = s.list, t.orig = s.orig, t.at = s.at, t.declined = s.declined,
         t.pc \notin Dispatching, t.failed \/ t.handler = h, RanInv(t)
  PROVE  DispatchOK(t)
<1>1. ListInv(t) BY DEF AtHandler, DispatchOK, ListInv
<1>2. s.pc = "dispatch" BY DEF AtHandler
<1>3. TriedInv(t) BY <1>2 DEF AtHandler, DispatchOK, TriedInv, Dispatching
<1>4. ChosenInv(t) BY AtHandlerIs DEF AtHandler, ChosenInv
<1> QED BY <1>1, <1>3, <1>4 DEF DispatchOK

(* A handler that passes the request on has been tried.                    *)
LEMMA PassedOK ==
  ASSUME NEW s, NEW h, AtHandler(s, h), NEW t, DOMAIN t = DFields,
         t.config = s.config, t.list = s.list, t.orig = s.orig, t.at = s.at + 1,
         t.declined = s.declined \cup {h}, t.pc = "dispatch", ~ t.failed, RanInv(t)
  PROVE  DispatchOK(t)
<1>1. ListInv(t) BY DEF AtHandler, DispatchOK, ListInv
<1>2. s.pc = "dispatch" /\ h = s.list[s.at] /\ s.at \in 1 .. Len(s.list) /\ Len(s.list) \in Nat
  BY AtHandlerIs DEF AtHandler
<1>3. TriedInv(t)
  <2>1. t.at \in 1 .. Len(t.list) + 1 BY <1>2
  <2>2. Len(t.list) = Len(t.config) BY <1>2 DEF AtHandler, DispatchOK, TriedInv
  <2>3. ASSUME NEW i \in 1 .. Len(t.list), i < t.at, Suits(t.orig, t.config[t.list[i]])
        PROVE  t.list[i] \in t.declined
    <3>1. i = s.at \/ i < s.at BY <1>2, <2>3
    <3>2. CASE i = s.at BY <1>2, <3>2
    <3>3. CASE i < s.at BY <2>3, <3>3 DEF AtHandler, DispatchOK, TriedInv
    <3> QED BY <3>1, <3>2, <3>3
  <2>4. ASSUME NEW g \in t.declined PROVE \E i \in 1 .. Len(t.list) : i < t.at /\ t.list[i] = g
    <3>1. CASE g = h
      <4>1. s.at \in 1 .. Len(t.list) /\ s.at < t.at /\ t.list[s.at] = g BY <1>2, <3>1
      <4> QED BY <4>1
    <3>2. CASE g \in s.declined
      <4>1. PICK i \in 1 .. Len(s.list) : i < s.at /\ s.list[i] = g
        BY <3>2 DEF AtHandler, DispatchOK, TriedInv
      <4>2. i < t.at BY <1>2, <4>1
      <4> QED BY <4>1, <4>2
    <3> QED BY <2>4, <3>1, <3>2
  <2> QED BY <2>1, <2>2, <2>3, <2>4 DEF TriedInv
<1>4. ChosenInv(t) BY DEF ChosenInv, Dispatching
<1> QED BY <1>1, <1>3, <1>4 DEF DispatchOK

(* Nothing has run for x yet.                                              *)
Fresh(s, x) ==
  /\ DOMAIN x = DFields /\ x.config = s.config /\ x.list = s.list /\ x.orig = s.orig
  /\ x.at = s.at /\ x.declined = s.declined
  /\ x.idx = 0 /\ x.from \in Nat /\ x.ran = <<>> /\ x.stored = 0 /\ x.started = 0
  /\ IsSequence(x.fdata) /\ Len(x.fdata) = Len(Filters(x))

(* The dispatcher goes on after a handler that has passed the request on.  *)
Settled(r) == [r EXCEPT !.pc = IF @ = "next" THEN "dispatch" ELSE @]

LEMMA NothingRan ==
  /\ <<>> \in Seq(Nat) /\ Increasing(<<>>) /\ Range(<<>>) = {}
  /\ \A x, n : IsSequence(x.fdata) /\ n \in Nat /\ x.from = n => RunUpTo(x, n) = {}
<1>1. <<>> \in Seq(Nat) /\ DOMAIN <<>> = {} OBVIOUS
<1>2. ASSUME NEW x, NEW n, IsSequence(x.fdata), n \in Nat, x.from = n PROVE RunUpTo(x, n) = {}
  BY <1>2 DEF RunUpTo, IsSequence
<1> QED BY <1>1, <1>2 DEF Increasing, Range

LEMMA SelectingFresh ==
  ASSUME NEW s, NEW h, AtHandler(s, h), NEW t, Selecting(s, h, t)
  PROVE  Fresh(s, t) /\ t.from = 0
BY SelectingFilters DEF Fresh, Selecting

LEMMA RunOK ==
  ASSUME NEW s, NEW h, AtHandler(s, h), NEW x, Fresh(s, x), x.failed \/ x.handler = h,
         NEW n \in Nat, x.from = n, NEW e, NEW r \in RunFilters(x, n, e)
  PROVE  DispatchOK(Settled(r))
<1> DEFINE w == Settled(r)
<1>1. /\ DOMAIN x = DFields /\ IsSequence(x.fdata) /\ Len(x.fdata) = Len(Filters(x))
      /\ x.ran \in Seq(Nat) /\ Increasing(x.ran) /\ x.from \in Nat /\ x.idx \in Nat /\ x.started = 0 /\ x.stored = 0
      /\ x.from <= n /\ Range(x.ran) = RunUpTo(x, n)
  <2>1. IsSequence(x.fdata) /\ x.ran = <<>> BY DEF Fresh
  <2>2. RunUpTo(x, n) = {} BY <2>1, NothingRan
  <2>3. x.ran \in Seq(Nat) /\ Increasing(x.ran) /\ Range(x.ran) = {} BY <2>1, NothingRan
  <2> QED BY <2>2, <2>3 DEF Fresh
<1>2. /\ DOMAIN r = DFields /\ (\A f \in DFields \ RunFields : r[f] = x[f])
      /\ r.pc \in {"sending", "delayed"} /\ RanInv(r)
  BY <1>1, RunKeeps
<1>3. DOMAIN w = DFields /\ w.pc = r.pc /\ \A f \in DFields \ {"pc"} : w[f] = r[f]
  BY <1>2 DEF Settled, DFields
<1> HIDE DEF w
<1>4. /\ w.config = r.config /\ w.handler = r.handler /\ w.fdata = r.fdata /\ w.idx = r.idx /\ w.from = r.from
      /\ w.ran = r.ran /\ w.stored = r.stored /\ w.started = r.started
  BY <1>3 DEF DFields
<1>5. RanInv(w)
  <2>1. Filters(w) = Filters(r) /\ Memcached(w) = Memcached(r) BY <1>4, SameFilters
  <2>2. RunUpTo(w, w.idx) = RunUpTo(r, r.idx) /\ RunUpTo(w, Len(w.fdata)) = RunUpTo(r, Len(r.fdata))
    BY <1>4 DEF RunUpTo
  <2> QED BY <1>2, <1>3, <1>4, <2>1, <2>2 DEF RanInv
<1>6. /\ w.config = x.config /\ w.list = x.list /\ w.orig = x.orig /\ w.at = x.at /\ w.declined = x.declined
      /\ w.failed = x.failed /\ w.handler = x.handler
  BY <1>2, <1>3 DEF DFields, RunFields
<1>7. w.pc \notin Dispatching BY <1>2, <1>3 DEF Dispatching
<1>8. DispatchOK(w) BY <1>3, <1>5, <1>6, <1>7, ChosenOK DEF Fresh
<1> QED BY <1>8 DEF w

LEMMA PassOnOK ==
  ASSUME NEW s, NEW h, AtHandler(s, h), NEW x, Fresh(s, x), ~ x.failed, x.from = 0
  PROVE  DispatchOK(Settled(PassOn(x, h)))
<1> DEFINE r == PassOn(x, h)
           w == Settled(r)
<1>1. DOMAIN x = DFields BY DEF Fresh
<1>2. /\ DOMAIN r = DFields /\ r.pc = "next" /\ r.at = x.at + 1 /\ r.declined = x.declined \cup {h}
      /\ \A f \in DFields \ {"pc", "at", "declined"} : r[f] = x[f]
  BY <1>1 DEF PassOn, DFields
<1> HIDE DEF r
<1>3. DOMAIN w = DFields /\ w.pc = "dispatch" /\ \A f \in DFields \ {"pc"} : w[f] = r[f]
  BY <1>2 DEF Settled, DFields
<1> HIDE DEF w
<1>4. /\ w.config = x.config /\ w.list = x.list /\ w.orig = x.orig /\ w.at = x.at + 1
      /\ w.declined = x.declined \cup {h} /\ w.failed = x.failed /\ w.handler = x.handler /\ w.fdata = x.fdata
      /\ w.idx = x.idx /\ w.from = x.from /\ w.ran = x.ran /\ w.stored = x.stored /\ w.started = x.started
  BY <1>2, <1>3 DEF DFields
<1>5. RanInv(w)
  <2>1. Filters(w) = Filters(x) BY <1>4, SameFilters
  <2>2. RunUpTo(w, w.idx) = {}
    <3>1. w.idx \in Nat /\ w.from = w.idx /\ IsSequence(w.fdata) BY <1>4 DEF Fresh
    <3> QED BY <3>1, NothingRan
  <2>3. w.from <= w.idx BY <1>4 DEF Fresh
  <2> QED BY <1>3, <1>4, <2>1, <2>2, <2>3, NothingRan DEF RanInv, Fresh
<1>6. DispatchOK(w) BY <1>3, <1>4, <1>5, PassedOK DEF Fresh
<1> QED BY <1>6 DEF w, r

LEMMA CachedOK ==
  ASSUME NEW s, NEW h, AtHandler(s, h), NEW x, Fresh(s, x), x.handler = h, s.config[h].memcache
  PROVE  DispatchOK(Settled(StartSending(x)))
<1> DEFINE r == StartSending(x)
           w == Settled(r)
<1>1. DOMAIN x = DFields BY DEF Fresh
<1>2. /\ DOMAIN r = DFields /\ r.pc = "sending" /\ r.started = x.started + 1
      /\ \A f \in DFields \ {"pc", "started"} : r[f] = x[f]
  BY <1>1 DEF StartSending, DFields
<1> HIDE DEF r
<1>3. DOMAIN w = DFields /\ w.pc = "sending" /\ \A f \in DFields \ {"pc"} : w[f] = r[f]
  BY <1>2 DEF Settled, DFields
<1> HIDE DEF w
<1>4. /\ w.config = x.config /\ w.list = x.list /\ w.orig = x.orig /\ w.at = x.at
      /\ w.declined = x.declined /\ w.failed = x.failed /\ w.handler = x.handler /\ w.fdata = x.fdata
      /\ w.idx = x.idx /\ w.from = x.from /\ w.ran = x.ran /\ w.stored = x.stored /\ w.started = 1
  BY <1>2, <1>3 DEF DFields, Fresh
<1>5. RanInv(w)
  <2>1. Filters(w) = Filters(x) BY <1>4, SameFilters
  <2>2. Memcached(w) BY <1>4, AtHandlerIs DEF Memcached, HandlerOf, Fresh
  <2> QED BY <1>3, <1>4, <2>1, <2>2, NothingRan DEF RanInv, Fresh
<1>6. w.pc \notin Dispatching BY <1>3 DEF Dispatching
<1>7. DispatchOK(w) BY <1>3, <1>4, <1>5, <1>6, ChosenOK DEF Fresh
<1> QED BY <1>7 DEF w, r

LEMMA SelectedOK ==
  ASSUME NEW s, NEW h, AtHandler(s, h), NEW x, Fresh(s, x), x.handler = h, x.from = 0
  PROVE  DispatchOK(Settled([x EXCEPT !.pc = "chosen"]))
<1> DEFINE r == [x EXCEPT !.pc = "chosen"]
           w == Settled(r)
<1>1. DOMAIN x = DFields BY DEF Fresh
<1>2. DOMAIN r = DFields /\ r.pc = "chosen" /\ \A f \in DFields \ {"pc"} : r[f] = x[f]
  BY <1>1 DEF DFields
<1> HIDE DEF r
<1>3. DOMAIN w = DFields /\ w.pc = "chosen" /\ \A f \in DFields \ {"pc"} : w[f] = r[f]
  BY <1>2 DEF Settled, DFields
<1> HIDE DEF w
<1>4. /\ w.config = x.config /\ w.list = x.list /\ w.orig = x.orig /\ w.at = x.at
      /\ w.declined = x.declined /\ w.failed = x.failed /\ w.handler = x.handler /\ w.fdata = x.fdata
      /\ w.idx = x.idx /\ w.from = x.from /\ w.ran = x.ran /\ w.stored = x.stored /\ w.started = x.started
  BY <1>2, <1>3 DEF DFields
<1>5. RanInv(w)
  <2>1. Filters(w) = Filters(x) BY <1>4, SameFilters
  <2>2. RunUpTo(w, w.idx) = {}
    <3>1. w.idx \in Nat /\ w.from = w.idx /\ IsSequence(w.fdata) BY <1>4 DEF Fresh
    <3> QED BY <3>1, NothingRan
  <2>3. w.from <= w.idx BY <1>4 DEF Fresh
  <2> QED BY <1>3, <1>4, <2>1, <2>2, <2>3, NothingRan DEF RanInv, Fresh
<1>6. w.pc \notin Dispatching BY <1>3 DEF Dispatching
<1>7. DispatchOK(w) BY <1>3, <1>4, <1>5, <1>6, ChosenOK DEF Fresh
<1> QED BY <1>7 DEF w, r

(* Running the filters ends with a response that is sent or delayed.       *)
LEMMA RunEnds ==
  ASSUME NEW s, DOMAIN s = DFields, NEW n, NEW error, NEW t \in RunFilters(s, n, error)
  PROVE  t.pc \in {"sending", "delayed"}
<1>1. PICK q, i : t = StartSending(Store([s EXCEPT !.ran = q])) \/ t = DelayedAt([s EXCEPT !.ran = q], i)
  BY DEF RunFilters
<1> DEFINE a == [s EXCEPT !.ran = q]
           b == Store(a)
<1>2. DOMAIN a = DFields OBVIOUS
<1> HIDE DEF a
<1>3. DOMAIN b = DFields BY <1>2 DEF Store
<1>4. t = StartSending(b) \/ t = DelayedAt(a, i) BY <1>1 DEF a
<1> HIDE DEF b
<1>5. StartSending(b).pc = "sending" BY <1>3 DEF StartSending, DFields
<1>6. DelayedAt(a, i).pc = "delayed" BY <1>2 DEF DelayedAt, DFields
<1> QED BY <1>4, <1>5, <1>6

(* A filter's cache serves the response.                                   *)
LEMMA ServedOK ==
  ASSUME NEW s, NEW h, AtHandler(s, h), NEW x, Selecting(s, h, x), NEW i \in Nat, NEW r \in Served(x, i)
  PROVE  DispatchOK(Settled(r))
<1> DEFINE y == [x EXCEPT !.from = i]
<1>1. Fresh(s, x) /\ x.handler = h BY SelectingFresh DEF Selecting
<1>2. DOMAIN x = DFields BY <1>1 DEF Fresh
<1>3. DOMAIN y = DFields /\ y.from = i /\ \A f \in DFields \ {"from"} : y[f] = x[f] BY <1>2 DEF DFields
<1>4. r \in RunFilters(y, i, FALSE) BY DEF Served
<1> HIDE DEF y
<1>5. /\ y.config = x.config /\ y.list = x.list /\ y.orig = x.orig /\ y.at = x.at
      /\ y.declined = x.declined /\ y.handler = x.handler /\ y.fdata = x.fdata
      /\ y.idx = x.idx /\ y.ran = x.ran /\ y.stored = x.stored /\ y.started = x.started
  BY <1>3 DEF DFields
<1>6. Fresh(s, y)
  <2>1. Filters(y) = Filters(x) BY <1>5, SameFilters
  <2> QED BY <1>1, <1>3, <1>5, <2>1 DEF Fresh
<1> QED BY <1>1, <1>3, <1>4, <1>5, <1>6, RunOK

(* A cache that has expired leaves a date of its own in the request.       *)
LEMMA ExpiredSelects ==
  ASSUME NEW s, NEW h, NEW x, Selecting(s, h, x)
  PROVE  Selecting(s, h, [x EXCEPT !.req.since = "cached"])
<1> DEFINE y == [x EXCEPT !.req.since = "cached"]
<1>1. DOMAIN x = DFields BY DEF Selecting
<1>2. DOMAIN y = DFields /\ \A f \in DFields \ {"req"} : y[f] = x[f] BY <1>1 DEF DFields
<1> HIDE DEF y
<1>3. y.handler = x.handler /\ y.fdata = x.fdata BY <1>2 DEF DFields
<1>4. Selecting(s, h, y) BY <1>2, <1>3 DEF Selecting
<1> QED BY <1>4 DEF y

(* After the caches the request goes on to on_select, or is settled.       *)
LEMMA TryCachesOK ==
  ASSUME NEW s, NEW h, AtHandler(s, h), NEW x, Selecting(s, h, x), NEW r \in TryCaches(x, h)
  PROVE  Selecting(s, h, r) \/ (~ GoesOn(r) /\ DispatchOK(Settled(r)))
<1> DEFINE hd == x.config[h]
           caching == {i \in DOMAIN hd.filters : hd.filters[i].caches /\ x.fdata[i] = "on"}
           z == [x EXCEPT !.req.since = "cached"]
<1>1. x.config = s.config /\ x.handler = h /\ ~ x.failed /\ x.from = 0 BY SelectingFilters
<1>2. caching \subseteq Nat
  <2>1. IsSequence(s.config[h].filters) BY AtHandlerIs
  <2> QED BY <1>1, <2>1 DEF IsSequence
<1>3. Selecting(s, h, z) BY ExpiredSelects
<1>4. \/ r = x \/ r = z
      \/ r = PassOn(x, h)
      \/ hd.memcache /\ r = StartSending(x)
      \/ \E i \in caching : r \in Served(x, i) \/ r \in Served(z, i)
  BY DEF TryCaches
<1> HIDE DEF caching, z
<1>5. Fresh(s, x) BY SelectingFresh
<1>6. CASE r = x \/ r = z BY <1>3, <1>6
<1>7. CASE r = PassOn(x, h)
  <2>1. DispatchOK(Settled(r)) BY <1>1, <1>5, <1>7, PassOnOK
  <2>2. ~ GoesOn(r)
    <3>1. DOMAIN x = DFields BY <1>5 DEF Fresh
    <3>2. r.pc = "next" BY <1>7, <3>1 DEF PassOn, DFields
    <3> QED BY <3>2 DEF GoesOn
  <2> QED BY <2>1, <2>2
<1>8. CASE hd.memcache /\ r = StartSending(x)
  <2>1. DispatchOK(Settled(r)) BY <1>1, <1>5, <1>8, CachedOK
  <2>2. ~ GoesOn(r)
    <3>1. DOMAIN x = DFields BY <1>5 DEF Fresh
    <3>2. r.pc = "sending" BY <1>8, <3>1 DEF StartSending, DFields
    <3> QED BY <3>2 DEF GoesOn
  <2> QED BY <2>1, <2>2
<1>9. ASSUME NEW i \in caching, NEW y, y = x \/ y = z, r \in Served(y, i)
      PROVE  ~ GoesOn(r) /\ DispatchOK(Settled(r))
  <2>1. Selecting(s, h, y) /\ i \in Nat BY <1>2, <1>3, <1>9
  <2>2. DispatchOK(Settled(r)) BY <1>9, <2>1, ServedOK
  <2>3. r.pc \in {"sending", "delayed"}
    <3> DEFINE v == [y EXCEPT !.from = i]
    <3>1. DOMAIN v = DFields BY <2>1 DEF Selecting
    <3>2. r \in RunFilters(v, i, FALSE) BY <1>9 DEF Served
    <3> HIDE DEF v
    <3> QED BY <3>1, <3>2, RunEnds
  <2> QED BY <2>2, <2>3 DEF GoesOn
<1> QED BY <1>4, <1>6, <1>7, <1>8, <1>9

LEMMA OnSelectOK ==
  ASSUME NEW s, NEW h, AtHandler(s, h), NEW x, Selecting(s, h, x), NEW r \in OnSelect(x, h, s.req)
  PROVE  DispatchOK(Settled(r))
<1> DEFINE y == Restored(x, s.req)
           z == [y EXCEPT !.failed = TRUE]
<1>1. /\ Fresh(s, x) /\ x.handler = h /\ ~ x.failed /\ x.from = 0 /\ x.idx = 0 /\ DOMAIN x = DFields
  BY SelectingFilters, SelectingFresh DEF Fresh
<1>2. /\ DOMAIN y = DFields /\ y.handler = NoHandler /\ y.fdata = <<>>
      /\ \A f \in DFields \ {"req", "handler", "fdata"} : y[f] = x[f]
  BY <1>1 DEF Restored, DFields
<1>3. \/ r = [x EXCEPT !.pc = "chosen"]
      \/ r \in RunFilters(x, x.idx, FALSE)
      \/ r = PassOn(y, h)
      \/ r \in RunFilters(z, z.idx, TRUE)
  BY DEF OnSelect, nxweb_start_sending_response
<1> HIDE DEF y
<1>4. DOMAIN z = DFields /\ z.failed = TRUE /\ \A f \in DFields \ {"failed"} : z[f] = y[f]
  BY <1>2 DEF DFields
<1> HIDE DEF z
<1>5. /\ y.config = x.config /\ y.list = x.list /\ y.orig = x.orig /\ y.at = x.at /\ y.from = x.from
      /\ y.declined = x.declined /\ y.failed = x.failed
      /\ y.idx = x.idx /\ y.ran = x.ran /\ y.stored = x.stored /\ y.started = x.started
  BY <1>2 DEF DFields
<1>6. /\ z.config = y.config /\ z.list = y.list /\ z.orig = y.orig /\ z.at = y.at /\ z.from = y.from
      /\ z.declined = y.declined /\ z.handler = y.handler /\ z.fdata = y.fdata
      /\ z.idx = y.idx /\ z.ran = y.ran /\ z.stored = y.stored /\ z.started = y.started
  BY <1>4 DEF DFields
<1>7. Filters(y) = <<>> /\ Filters(z) = <<>> BY <1>2, <1>6 DEF Filters
<1>8. Len(<<>>) = 0 /\ IsSequence(<<>>) BY DEF IsSequence
<1>9. Fresh(s, y) BY <1>1, <1>2, <1>5, <1>7, <1>8 DEF Fresh
<1>10. Fresh(s, z) BY <1>2, <1>4, <1>6, <1>7, <1>8, <1>9 DEF Fresh
<1>11. CASE r = [x EXCEPT !.pc = "chosen"] BY <1>1, <1>11, SelectedOK
<1>12. CASE r \in RunFilters(x, x.idx, FALSE)
  <2>1. x.idx \in Nat /\ x.from = x.idx BY <1>1
  <2> QED BY <1>1, <1>12, <2>1, RunOK
<1>13. CASE r = PassOn(y, h) BY <1>1, <1>5, <1>9, <1>13, PassOnOK
<1>14. CASE r \in RunFilters(z, z.idx, TRUE)
  <2>1. z.idx \in Nat /\ z.from = z.idx BY <1>1, <1>5, <1>6
  <2> QED BY <1>4, <1>10, <1>14, <2>1, RunOK
<1> QED BY <1>3, <1>11, <1>12, <1>13, <1>14

LEMMA SelectOK ==
  ASSUME NEW s, NEW h, AtHandler(s, h), NEW r \in nxweb_select_handler(s, h)
  PROVE  DispatchOK(Settled(r))
<1>0. PICK x \in InitFilters(s, h) :
        \E t \in TryCaches(x, h) : r \in IF GoesOn(t) THEN OnSelect(t, h, s.req) ELSE {t}
  BY DEF nxweb_select_handler
<1>1. PICK t \in TryCaches(x, h) : r \in IF GoesOn(t) THEN OnSelect(t, h, s.req) ELSE {t} BY <1>0
<1>2. Selecting(s, h, x) BY InitFiltersSelects
<1>3. Selecting(s, h, t) \/ (~ GoesOn(t) /\ DispatchOK(Settled(t))) BY <1>2, TryCachesOK
<1>4. CASE ~ GoesOn(t) /\ DispatchOK(Settled(t))
  <2>1. r = t BY <1>1, <1>4
  <2> QED BY <1>4, <2>1
<1>5. CASE Selecting(s, h, t)
  <2>1. GoesOn(t) BY <1>5, SelectingFilters DEF GoesOn
  <2>2. r \in OnSelect(t, h, s.req) BY <1>1, <2>1
  <2> QED BY <1>5, <2>2, OnSelectOK
<1> QED BY <1>3, <1>4, <1>5

-----------------------------------------------------------------------------
(* The steps.                                                              *)

(* Before the response is delayed or sent, nothing but the handler and the *)
(* filters' data matters to RanInv.                                        *)
LEMMA NotRunYet ==
  ASSUME NEW s, RanInv(s), s.pc \notin {"delayed", "sending"},
         NEW t, t.pc \notin {"delayed", "sending"},
         IsSequence(t.fdata), Len(t.fdata) = Len(Filters(t)),
         t.idx = s.idx, t.from = s.from, t.ran = s.ran, t.stored = s.stored, t.started = s.started
  PROVE  RanInv(t)
<1>1. t.ran = <<>> /\ t.from = 0 /\ t.idx = 0 /\ t.started = 0 /\ t.stored = 0 BY DEF RanInv
<1>2. RunUpTo(t, t.idx) = {} BY <1>1, NothingRan
<1>3. t.from <= t.idx BY <1>1
<1>4. t.ran \in Seq(Nat) /\ Increasing(t.ran) /\ Range(t.ran) = {} BY <1>1, NothingRan
<1> QED BY <1>1, <1>2, <1>3, <1>4 DEF RanInv

LEMMA RegisterHandlerOK ==
  ASSUME DispatchOK(d), RegisterHandler
  PROVE  DispatchOK(d')
<1> DEFINE l == InsertAt(d.list, PlaceOf(d, Len(d.list) + 1), Len(d.list) + 1)
<1>1. DOMAIN d = DFields /\ d.pc = "register" /\ Len(d.list) < Len(d.config) /\ d' = [d EXCEPT !.list = l]
  BY DEF DispatchOK, RegisterHandler
<1> HIDE DEF l
<1>2. DOMAIN d' = DFields /\ d'.list = l /\ \A f \in DFields \ {"list"} : d'[f] = d[f]
  BY <1>1 DEF DFields
<1>3. /\ d'.config = d.config /\ d'.orig = d.orig /\ d'.at = d.at /\ d'.pc = d.pc
      /\ d'.declined = d.declined /\ d'.failed = d.failed /\ d'.handler = d.handler /\ d'.fdata = d.fdata
      /\ d'.idx = d.idx /\ d'.from = d.from /\ d'.ran = d.ran /\ d'.stored = d.stored /\ d'.started = d.started
  BY <1>2 DEF DFields
<1>4. ListInv(d') /\ Len(d'.list) = Len(d.list) + 1
  BY <1>1, <1>2, <1>3, RegisterKeepsList DEF DispatchOK, l
<1>5. Len(d.list) \in Nat BY LenProperties DEF DispatchOK, ListInv
<1>6. d.at = 1 /\ d.declined = {}
  <2>1. d.at = 1 BY <1>1 DEF DispatchOK, TriedInv
  <2>2. \A h \in d.declined : \E i \in 1 .. Len(d.list) : i < 1 BY <2>1 DEF DispatchOK, TriedInv
  <2>3. \A i \in 1 .. Len(d.list) : ~ (i < 1) BY <1>5
  <2> QED BY <2>1, <2>2, <2>3
<1>7. TriedInv(d')
  <2>1. \A i \in 1 .. Len(d'.list) : ~ (i < 1) BY <1>4, <1>5
  <2>2. 1 \in 1 .. Len(d'.list) + 1 BY <1>4, <1>5
  <2> QED BY <1>1, <1>3, <1>6, <2>1, <2>2 DEF TriedInv
<1>8. ChosenInv(d') BY <1>1, <1>3 DEF DispatchOK, ChosenInv, Dispatching
<1>9. RanInv(d')
  <2>1. Filters(d') = Filters(d) BY <1>3, SameFilters
  <2>2. IsSequence(d'.fdata) /\ Len(d'.fdata) = Len(Filters(d')) BY <1>1, <1>3, <2>1 DEF DispatchOK, RanInv
  <2>3. RanInv(d) /\ d.pc \notin {"delayed", "sending"} /\ d'.pc \notin {"delayed", "sending"}
    BY <1>1, <1>3 DEF DispatchOK
  <2> QED BY <1>1, <1>3, <2>2, <2>3, NotRunYet
<1> QED BY <1>2, <1>4, <1>7, <1>8, <1>9 DEF DispatchOK

LEMMA ReceiveRequestOK ==
  ASSUME DispatchOK(d), ReceiveRequest
  PROVE  DispatchOK(d')
<1>1. PICK r : d' = [d EXCEPT !.pc = "dispatch", !.orig = r, !.req = r] BY DEF ReceiveRequest
<1>2. DOMAIN d = DFields /\ d.pc = "register" /\ Len(d.list) = Len(d.config) BY DEF DispatchOK, ReceiveRequest
<1>3. DOMAIN d' = DFields /\ d'.pc = "dispatch" /\ \A f \in DFields \ {"pc", "orig", "req"} : d'[f] = d[f]
  BY <1>1, <1>2 DEF DFields
<1>4. /\ d'.config = d.config /\ d'.list = d.list /\ d'.at = d.at
      /\ d'.declined = d.declined /\ d'.failed = d.failed /\ d'.handler = d.handler /\ d'.fdata = d.fdata
      /\ d'.idx = d.idx /\ d'.from = d.from /\ d'.ran = d.ran /\ d'.stored = d.stored /\ d'.started = d.started
  BY <1>3 DEF DFields
<1>5. ListInv(d') BY <1>4 DEF DispatchOK, ListInv
<1>6. TriedInv(d')
  <2>1. d.at = 1 /\ d.at \in 1 .. Len(d.list) + 1 BY <1>2 DEF DispatchOK, TriedInv
  <2>2. \A i \in 1 .. Len(d.list) : ~ (i < 1) BY LenProperties DEF DispatchOK, ListInv
  <2>3. \A h \in d.declined : \E i \in 1 .. Len(d.list) : i < d.at /\ d.list[i] = h BY DEF DispatchOK, TriedInv
  <2> QED BY <1>2, <1>3, <1>4, <2>1, <2>2, <2>3 DEF TriedInv
<1>7. ChosenInv(d') BY <1>2, <1>3, <1>4 DEF DispatchOK, ChosenInv, Dispatching
<1>8. RanInv(d')
  <2>1. Filters(d') = Filters(d) BY <1>4, SameFilters
  <2>2. IsSequence(d'.fdata) /\ Len(d'.fdata) = Len(Filters(d')) BY <1>2, <1>3, <1>4, <2>1 DEF DispatchOK, RanInv
  <2>3. RanInv(d) /\ d.pc \notin {"delayed", "sending"} /\ d'.pc \notin {"delayed", "sending"}
    BY <1>2, <1>3, <1>4 DEF DispatchOK
  <2> QED BY <1>2, <1>3, <1>4, <2>2, <2>3, NotRunYet
<1> QED BY <1>3, <1>5, <1>6, <1>7, <1>8 DEF DispatchOK

LEMMA TryHandlerOK ==
  ASSUME DispatchOK(d), TryHandler
  PROVE  DispatchOK(d')
<1> DEFINE h == d.list[d.at]
<1>1. DOMAIN d = DFields /\ d.pc = "dispatch" /\ d.at <= Len(d.list) BY DEF DispatchOK, TryHandler
<1>2. \/ ~ Suits(d.orig, d.config[h]) /\ d' = [d EXCEPT !.at = @ + 1]
      \/ Suits(d.orig, d.config[h]) /\ \E t \in nxweb_select_handler(d, h) : d' = Settled(t)
  BY DEF TryHandler, Settled
<1>3. CASE Suits(d.orig, d.config[h]) /\ \E t \in nxweb_select_handler(d, h) : d' = Settled(t)
  <2>1. AtHandler(d, h) BY <1>1, <1>3 DEF AtHandler
  <2> HIDE DEF h
  <2> QED BY <1>3, <2>1, SelectOK
<1>4. CASE ~ Suits(d.orig, d.config[h]) /\ d' = [d EXCEPT !.at = @ + 1]
  <2>1. DOMAIN d' = DFields /\ d'.at = d.at + 1 /\ \A f \in DFields \ {"at"} : d'[f] = d[f]
    BY <1>1, <1>4 DEF DFields
  <2>2. /\ d'.config = d.config /\ d'.list = d.list /\ d'.pc = d.pc /\ d'.orig = d.orig
        /\ d'.declined = d.declined /\ d'.failed = d.failed /\ d'.handler = d.handler /\ d'.fdata = d.fdata
        /\ d'.idx = d.idx /\ d'.from = d.from /\ d'.ran = d.ran /\ d'.stored = d.stored /\ d'.started = d.started
    BY <2>1 DEF DFields
  <2>3. ListInv(d') BY <2>2 DEF DispatchOK, ListInv
  <2>4. TriedInv(d')
    <3>1. Len(d.list) \in Nat /\ d.at \in 1 .. Len(d.list) /\ Len(d.list) = Len(d.config)
      <4>1. Len(d.list) \in Nat BY LenProperties DEF DispatchOK, ListInv
      <4> QED BY <1>1, <4>1 DEF DispatchOK, TriedInv
    <3>2. d'.at \in 1 .. Len(d.list) + 1 BY <2>1, <3>1
    <3>3. ASSUME NEW i \in 1 .. Len(d.list), i < d'.at, Suits(d.orig, d.config[d.list[i]])
          PROVE  d.list[i] \in d.declined
      <4>1. i < d.at \/ i = d.at BY <2>1, <3>1, <3>3
      <4>2. i # d.at BY <1>4, <3>3
      <4> QED BY <3>3, <4>1, <4>2 DEF DispatchOK, TriedInv
    <3>4. ASSUME NEW g \in d.declined PROVE \E i \in 1 .. Len(d.list) : i < d'.at /\ d.list[i] = g
      <4>1. PICK i \in 1 .. Len(d.list) : i < d.at /\ d.list[i] = g BY DEF DispatchOK, TriedInv
      <4>2. i < d'.at BY <2>1, <3>1, <4>1
      <4> QED BY <4>1, <4>2
    <3> QED BY <1>1, <2>2, <3>1, <3>2, <3>3, <3>4 DEF TriedInv
  <2>5. ChosenInv(d') BY <1>1, <2>2 DEF DispatchOK, ChosenInv, Dispatching
  <2>6. RanInv(d')
    <3>1. Filters(d') = Filters(d) BY <2>2, SameFilters
    <3>2. IsSequence(d'.fdata) /\ Len(d'.fdata) = Len(Filters(d')) BY <1>1, <2>2, <3>1 DEF DispatchOK, RanInv
    <3>3. RanInv(d) /\ d.pc \notin {"delayed", "sending"} /\ d'.pc \notin {"delayed", "sending"}
      BY <1>1, <2>2 DEF DispatchOK
    <3> QED BY <1>1, <2>2, <3>2, <3>3, NotRunYet
  <2> QED BY <2>1, <2>3, <2>4, <2>5, <2>6 DEF DispatchOK
<1> QED BY <1>2, <1>3, <1>4

LEMMA UseDefaultOK ==
  ASSUME DispatchOK(d), UseDefault
  PROVE  DispatchOK(d')
<1>1. /\ DOMAIN d = DFields /\ d.pc = "dispatch" /\ d.at > Len(d.list)
      /\ d' = [d EXCEPT !.handler = Default, !.fdata = <<>>, !.pc = "chosen"]
  BY DEF DispatchOK, UseDefault
<1>2. /\ DOMAIN d' = DFields /\ d'.pc = "chosen" /\ d'.handler = Default /\ d'.fdata = <<>>
      /\ \A f \in DFields \ {"pc", "handler", "fdata"} : d'[f] = d[f]
  BY <1>1 DEF DFields
<1>3. /\ d'.config = d.config /\ d'.list = d.list /\ d'.at = d.at /\ d'.orig = d.orig
      /\ d'.declined = d.declined /\ d'.failed = d.failed
      /\ d'.idx = d.idx /\ d'.from = d.from /\ d'.ran = d.ran /\ d'.stored = d.stored /\ d'.started = d.started
  BY <1>2 DEF DFields
<1>4. ListInv(d') BY <1>3 DEF DispatchOK, ListInv
<1>5. TriedInv(d') BY <1>1, <1>2, <1>3 DEF DispatchOK, TriedInv
<1>6. Len(d.list) \in Nat /\ d.at = Len(d.list) + 1
  <2>1. Len(d.list) \in Nat BY LenProperties DEF DispatchOK, ListInv
  <2>2. d.at \in 1 .. Len(d.list) + 1 BY DEF DispatchOK, TriedInv
  <2> QED BY <1>1, <2>1, <2>2
<1>7. ChosenInv(d') BY <1>2, <1>3, <1>6 DEF ChosenInv, Dispatching
<1>8. RanInv(d')
  <2>1. Filters(d') = <<>> BY <1>2 DEF Filters
  <2>2. IsSequence(<<>>) BY DEF IsSequence
  <2>3. IsSequence(d'.fdata) /\ Len(d'.fdata) = Len(Filters(d')) BY <1>2, <2>1, <2>2
  <2>4. RanInv(d) /\ d.pc \notin {"delayed", "sending"} /\ d'.pc \notin {"delayed", "sending"}
    BY <1>1, <1>2 DEF DispatchOK
  <2> QED BY <1>3, <2>3, <2>4, NotRunYet
<1> QED BY <1>2, <1>4, <1>5, <1>7, <1>8 DEF DispatchOK

(* Nothing but the running of filters happens after a handler is chosen.   *)
LEMMA AfterChoice ==
  ASSUME NEW s, DispatchOK(s), s.pc \notin Dispatching, NEW t, DOMAIN t = DFields,
         \A f \in DFields \ RunFields : t[f] = s[f], t.pc \notin Dispatching, RanInv(t)
  PROVE  DispatchOK(t)
<1>1. /\ t.config = s.config /\ t.list = s.list /\ t.at = s.at /\ t.orig = s.orig
      /\ t.declined = s.declined /\ t.failed = s.failed /\ t.handler = s.handler
  BY DEF DFields, RunFields
<1>2. ListInv(t) BY <1>1 DEF DispatchOK, ListInv
<1>3. TriedInv(t) BY <1>1 DEF DispatchOK, TriedInv, Dispatching
<1>4. ChosenInv(t) BY <1>1 DEF DispatchOK, ChosenInv
<1> QED BY <1>2, <1>3, <1>4 DEF DispatchOK

(* The response starts.                                                    *)
LEMMA StartOK ==
  ASSUME NEW s, DispatchOK(s), s.pc \notin Dispatching, s.pc # "sending", NEW error,
         NEW t \in nxweb_start_sending_response(s, error)
  PROVE  DispatchOK(t)
<1>1. t \in RunFilters(s, s.idx, error) BY DEF nxweb_start_sending_response
<1>2. /\ DOMAIN s = DFields /\ IsSequence(s.fdata) /\ Len(s.fdata) = Len(Filters(s))
      /\ s.ran \in Seq(Nat) /\ Increasing(s.ran) /\ s.from \in Nat /\ s.idx \in Nat /\ s.started = 0 /\ s.stored = 0
      /\ s.from <= s.idx /\ Range(s.ran) = RunUpTo(s, s.idx)
  BY DEF DispatchOK, RanInv
<1> DEFINE n == s.idx
<1>3. /\ DOMAIN t = DFields /\ (\A f \in DFields \ RunFields : t[f] = s[f])
      /\ t.pc \in {"sending", "delayed"} /\ RanInv(t)
  <2>1. n \in Nat /\ s.from <= n /\ Range(s.ran) = RunUpTo(s, n) /\ t \in RunFilters(s, n, error) BY <1>1, <1>2
  <2> HIDE DEF n
  <2> QED BY <1>2, <2>1, RunKeeps
<1>4. t.pc \notin Dispatching BY <1>3 DEF Dispatching
<1> QED BY <1>3, <1>4, AfterChoice

(* The request waits for its body, its handler, a worker or a backend.     *)
LEMMA WaitOK ==
  ASSUME NEW s, DispatchOK(s), s.pc \in {"chosen", "body", "invoke"}, NEW p \in {"body", "invoke", "busy"},
         NEW t, t = [s EXCEPT !.pc = p]
  PROVE  DispatchOK(t)
<1>1. DOMAIN s = DFields BY DEF DispatchOK
<1>2. DOMAIN t = DFields /\ t.pc = p /\ \A f \in DFields \ {"pc"} : t[f] = s[f] BY <1>1 DEF DFields
<1>3. /\ t.config = s.config /\ t.handler = s.handler /\ t.fdata = s.fdata
      /\ t.idx = s.idx /\ t.from = s.from /\ t.ran = s.ran /\ t.stored = s.stored /\ t.started = s.started
      /\ \A f \in DFields \ RunFields : t[f] = s[f]
  BY <1>2 DEF DFields, RunFields
<1>4. RanInv(t)
  <2>1. Filters(t) = Filters(s) BY <1>3, SameFilters
  <2>2. IsSequence(t.fdata) /\ Len(t.fdata) = Len(Filters(t)) BY <1>3, <2>1 DEF DispatchOK, RanInv
  <2>3. RanInv(s) /\ s.pc \notin {"delayed", "sending"} /\ t.pc \notin {"delayed", "sending"} BY <1>2 DEF DispatchOK
  <2> QED BY <1>3, <2>2, <2>3, NotRunYet
<1>5. s.pc \notin Dispatching /\ t.pc \notin Dispatching BY <1>2 DEF Dispatching
<1> QED BY <1>2, <1>3, <1>4, <1>5, AfterChoice

LEMMA DispatchInitOK ==
  ASSUME DispatchInit
  PROVE  DispatchOK(d)
<1>1. PICK cf \in Configs :
        d = [config |-> cf, list |-> <<>>, pc |-> "register", orig |-> NoRequest, req |-> NoRequest, at |-> 1,
             handler |-> NoHandler, fdata |-> <<>>, idx |-> 0, from |-> 0, ran |-> <<>>, stored |-> 0,
             started |-> 0, declined |-> {}, failed |-> FALSE]
  BY DEF DispatchInit
<1>2. DOMAIN d = DFields BY <1>1 DEF DFields
<1>3. /\ d.config = cf /\ d.list = <<>> /\ d.pc = "register" /\ d.at = 1 /\ d.handler = NoHandler
      /\ d.fdata = <<>> /\ d.idx = 0 /\ d.from = 0 /\ d.ran = <<>> /\ d.stored = 0 /\ d.started = 0
      /\ d.declined = {} /\ d.failed = FALSE
  BY <1>1
<1>4. Len(<<>>) = 0 /\ 1 .. 0 = {} /\ <<>> \in Seq(Nat) OBVIOUS
<1>5. ListInv(d)
  <2>1. Len(cf) \in Nat BY ConfigIs
  <2> QED BY <1>3, <1>4, <2>1 DEF ListInv
<1>6. TriedInv(d)
  <2>1. 1 \in 1 .. Len(<<>>) + 1 BY <1>4
  <2> QED BY <1>3, <1>4, <2>1 DEF TriedInv
<1>7. ChosenInv(d) BY <1>3 DEF ChosenInv, Dispatching
<1>8. RanInv(d)
  <2>1. Filters(d) = <<>> BY <1>3 DEF Filters
  <2>2. IsSequence(<<>>) BY DEF IsSequence
  <2>3. RunUpTo(d, d.idx) = {}
    <3>1. IsSequence(d.fdata) /\ d.idx \in Nat /\ d.from = d.idx BY <1>3, <2>2
    <3> QED BY <3>1, NothingRan
  <2>4. d.ran \in Seq(Nat) /\ Increasing(d.ran) /\ Range(d.ran) = {} BY <1>3, NothingRan
  <2>5. d.from <= d.idx /\ d.from \in Nat /\ d.idx \in Nat BY <1>3
  <2> QED BY <1>3, <2>1, <2>2, <2>3, <2>4, <2>5 DEF RanInv
<1> QED BY <1>2, <1>5, <1>6, <1>7, <1>8 DEF DispatchOK

LEMMA DispatchNextOK ==
  ASSUME DispatchOK(d), [DispatchNext]_d
  PROVE  DispatchOK(d')
<1>1. CASE RegisterHandler BY <1>1, RegisterHandlerOK
<1>2. CASE ReceiveRequest BY <1>2, ReceiveRequestOK
<1>3. CASE TryHandler BY <1>3, TryHandlerOK
<1>4. CASE UseDefault BY <1>4, UseDefaultOK
<1>5. CASE HandleRequest
  <2>1. d.pc = "chosen" /\ d.pc \notin Dispatching BY <1>5 DEF HandleRequest, Dispatching
  <2>2. \/ d' \in nxweb_start_sending_response(d, TRUE)
        \/ \E p \in {"body", "invoke", "busy"} : d' = [d EXCEPT !.pc = p]
    BY <1>5 DEF HandleRequest
  <2> QED BY <2>1, <2>2, StartOK, WaitOK
<1>6. CASE BodyReceived
  <2>1. d.pc = "body" /\ d' = [d EXCEPT !.pc = "invoke"] BY <1>6 DEF BodyReceived
  <2> QED BY <2>1, WaitOK
<1>7. CASE InvokeHandler
  <2>1. d.pc = "invoke" /\ d.pc \notin Dispatching BY <1>7 DEF InvokeHandler, Dispatching
  <2>2. d' \in nxweb_start_sending_response(d, FALSE) \/ d' = [d EXCEPT !.pc = "busy"]
    BY <1>7 DEF InvokeHandler
  <2> QED BY <2>1, <2>2, StartOK, WaitOK
<1>8. CASE AnswerArrives
  <2>1. d.pc = "busy" /\ d.pc \notin Dispatching BY <1>8 DEF AnswerArrives, Dispatching
  <2> QED BY <1>8, <2>1, StartOK DEF AnswerArrives
<1>9. CASE Resume
  <2>1. d.pc = "delayed" /\ d.pc \notin Dispatching BY <1>9 DEF Resume, Dispatching
  <2> QED BY <1>9, <2>1, StartOK DEF Resume
<1>10. CASE UNCHANGED d BY <1>10
<1> QED BY <1>1, <1>2, <1>3, <1>4, <1>5, <1>6, <1>7, <1>8, <1>9, <1>10 DEF DispatchNext

(* DispatchInv always holds: the list is in the order of the priorities,   *)
(* the dispatcher (_nxweb_default_request_dispatcher) has left behind only *)
(* handlers that do not suit or have passed the request on, and the        *)
(* filters that have run are those up to run_filter_idx.                   *)
THEOREM DispatchInvariant == DispatchSpec => []DispatchInv
<1>1. DispatchInit => DispatchOK(d) BY DispatchInitOK
<1>2. DispatchOK(d) /\ [DispatchNext]_d => DispatchOK(d)' BY DispatchNextOK
<1>3. DispatchOK(d) => DispatchInv BY DEF DispatchOK, DispatchInv
<1> QED BY <1>1, <1>2, <1>3, PTL DEF DispatchSpec

LEMMA FirstIsMatched ==
  ASSUME ListInv(d), TriedInv(d), ChosenInv(d)
  PROVE  FirstMatch
<1> DEFINE n == Len(d.list)
           cf == d.config
           suited == {h \in DOMAIN cf : Suits(d.orig, cf[h])}
           passed == IF d.handler = Default THEN suited ELSE {g \in suited : Before(cf, g, d.handler)}
<1> SUFFICES ASSUME d.pc \notin Dispatching, ~ d.failed
             PROVE  passed \subseteq d.declined /\ (d.handler # Default => d.handler \in suited \ d.declined)
  BY DEF FirstMatch, Dispatching
<1>1. cf \in Configs /\ n = Len(cf) BY DEF ListInv, TriedInv, Dispatching
<1>2. n \in Nat /\ DOMAIN cf = 1 .. n /\ \A h \in 1 .. n : cf[h].priority \in Nat BY <1>1, ConfigIs
<1>3. /\ \A i \in 1 .. n : d.list[i] \in 1 .. n
      /\ \A h \in 1 .. n : \E i \in 1 .. n : d.list[i] = h
      /\ \A i, j \in 1 .. n : i < j => Before(cf, d.list[i], d.list[j])
  BY DEF ListInv
<1>4. /\ d.at \in 1 .. n + 1
      /\ \A i \in 1 .. n : i < d.at /\ Suits(d.orig, cf[d.list[i]]) => d.list[i] \in d.declined
      /\ \A h \in d.declined : \E i \in 1 .. n : i < d.at /\ d.list[i] = h
  BY DEF TriedInv
<1>5. \/ d.handler = Default /\ d.at = n + 1
      \/ d.at <= n /\ d.handler = d.list[d.at] /\ Suits(d.orig, cf[d.handler])
  BY DEF ChosenInv
<1> HIDE DEF n, cf
<1>6. CASE d.handler = Default /\ d.at = n + 1
  <2>1. ASSUME NEW g \in suited PROVE g \in d.declined
    <3>1. g \in 1 .. n /\ Suits(d.orig, cf[g]) BY <1>2
    <3>2. PICK i \in 1 .. n : d.list[i] = g BY <1>3, <3>1
    <3>3. i < d.at BY <1>2, <1>6
    <3> QED BY <1>4, <3>1, <3>2, <3>3
  <2> QED BY <1>6, <2>1
<1>7. CASE d.at <= n /\ d.handler = d.list[d.at] /\ Suits(d.orig, cf[d.handler])
  <2>1. d.at \in 1 .. n BY <1>2, <1>4, <1>7
  <2>2. d.handler \in 1 .. n BY <1>3, <1>7, <2>1
  <2>3. d.handler # Default BY <1>2, <2>2 DEF Default
  <2>4. ASSUME NEW g \in suited, Before(cf, g, d.handler) PROVE g \in d.declined
    <3>1. g \in 1 .. n /\ Suits(d.orig, cf[g]) BY <1>2
    <3>2. PICK i \in 1 .. n : d.list[i] = g BY <1>3, <3>1
    <3>3. ~ Before(cf, d.handler, g) /\ d.handler # g
      BY <1>2, <2>2, <2>4, <3>1, BeforeOrders
    <3>4. ~ (d.at < i) /\ d.at # i BY <1>3, <1>7, <2>1, <3>2, <3>3
    <3>5. i < d.at BY <1>2, <2>1, <3>4
    <3> QED BY <1>4, <3>1, <3>2, <3>5
  <2>5. d.handler \notin d.declined
    <3> SUFFICES ASSUME d.handler \in d.declined PROVE FALSE OBVIOUS
    <3>1. PICK i \in 1 .. n : i < d.at /\ d.list[i] = d.handler BY <1>4
    <3>2. Before(cf, d.handler, d.handler) BY <1>3, <1>7, <2>1, <3>1
    <3> QED BY <1>2, <2>2, <3>2, BeforeOrders
  <2>6. d.handler \in suited BY <1>2, <1>7, <2>2
  <2> QED BY <2>3, <2>4, <2>5, <2>6
<1> QED BY <1>5, <1>6, <1>7

(* A request is handled by the first handler that suits it and does not    *)
(* pass it on, for any handlers with any priorities: the guarantee of      *)
(* _nxweb_register_handler and _nxweb_default_request_dispatcher together. *)
THEOREM FirstHandlerGets == DispatchSpec => []FirstMatch
<1>1. DispatchInv => FirstMatch BY FirstIsMatched DEF DispatchInv
<1> QED BY <1>1, DispatchInvariant, PTL

LEMMA OnceRun ==
  ASSUME RanInv(d)
  PROVE  FiltersOnce
<1> DEFINE L == Len(d.fdata)
           on == {i \in DOMAIN d.fdata : d.fdata[i] = "on" /\ i > d.from}
<1>1. L \in Nat /\ DOMAIN d.fdata = 1 .. L /\ d.from \in Nat BY DEF RanInv, IsSequence
<1>2. RunUpTo(d, L) = on
  <2>1. \A i \in 1 .. L : i \in Nat /\ i <= L /\ (i > d.from <=> d.from < i) BY <1>1
  <2> QED BY <1>1, <2>1 DEF RunUpTo
<1>3. Increasing(d.ran) BY DEF RanInv
<1>4. CASE d.pc = "sending"
  <2>1. /\ d.started = 1 /\ d.stored \in {0, 1}
        /\ \/ Range(d.ran) = on
           \/ Memcached(d) /\ d.ran = <<>> /\ d.stored = 0
    BY <1>2, <1>4 DEF RanInv
  <2>2. d.started <= 1 /\ d.stored <= d.started BY <2>1
  <2> QED BY <1>3, <2>1, <2>2 DEF FiltersOnce
<1>5. CASE d.pc # "sending"
  <2>1. d.started = 0 /\ d.stored = 0 BY <1>5 DEF RanInv
  <2>2. d.started <= 1 /\ d.stored <= d.started /\ d.started # 1 BY <2>1
  <2> QED BY <1>3, <2>2 DEF FiltersOnce
<1> QED BY <1>4, <1>5

(* Each filter of the handler runs once on a response, in order, and the   *)
(* response is stored and started once, however often                      *)
(* nxweb_start_sending_response is entered again after a filter's delay.   *)
THEOREM FiltersRunOnce == DispatchSpec => []FiltersOnce
<1>1. DispatchInv => FiltersOnce BY OnceRun DEF DispatchInv
<1> QED BY <1>1, DispatchInvariant, PTL
=============================================================================
