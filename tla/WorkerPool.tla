----------------------------- MODULE WorkerPool -----------------------------
(***************************************************************************)
(* One network thread of nxweb and its factory of worker threads           *)
(* (nx_workers.c), with the hand-off of requests to workers and the way    *)
(* back through the worker's eventfd (http_server.c, nx_event.c).          *)
(*                                                                         *)
(* The network thread runs nxe_run: deliver every queued event (or, when   *)
(* there is none, a gc event), epoll_wait, turn what epoll reports into    *)
(* events.  Every worker thread runs nxw_worker_main.  A step of this      *)
(* module is one stretch of code of one thread that makes at most one      *)
(* access to memory another thread writes.                                 *)
(*                                                                         *)
(* Abstractions.  The loop's event list is the set "pending": events are   *)
(* delivered in any order, a superset of the code's FIFO orders.  The idle *)
(* queue is a bounded FIFO; module RingQueue shows that the ring buffer of *)
(* nx_queue_tpl.h implements one.  A connection is what the hand-off needs *)
(* of it; its protocol states are in module HttpServerProto.               *)
(***************************************************************************)
EXTENDS Integers, Sequences, FiniteSets

CONSTANTS Workers,     \* addresses of nxw_worker structures
          Conns,       \* addresses of nxweb_http_server_connection structures
          None,        \* the null pointer
          MaxWorkers,  \* NXWEB_MAX_WORKERS
          QueueSize,   \* NXWEB_MAX_WORKERS_IN_QUEUE: slots of the ring
          MaxIdle,     \* NXWEB_MAX_IDLE_WORKERS_IN_QUEUE
          AllowShutdown \* whether SIGTERM may arrive

ASSUME PoolAssumption ==
  /\ None \notin Workers \cup Conns
  /\ MaxWorkers \in Nat
  /\ QueueSize \in Nat \ {0}
  /\ MaxIdle \in Nat
  /\ AllowShutdown \in BOOLEAN

VARIABLES
  \* written by the worker threads and the network thread
  wpc,        \* where the thread of each worker is; "none": not allocated
  do_job,     \* w->do_job # 0
  job_param,  \* w->job_param, the connection whose request the worker handles
  w_shutdown, \* w->shutdown_in_progress
  efd,        \* the counter of w->complete_efs is not zero
  queue,      \* factory->queue, the idle workers
  f_shutdown, \* factory->shutdown_in_progress
  job_done,   \* conn->worker_job_done
  \* written by the network thread only
  npc,        \* where the network thread is
  cur,        \* the connection the current handler works on
  curw,       \* the worker the current handler works on
  todo,       \* workers the gc has still to look at
  extra,      \* idle workers the gc has still to dismiss
  batch,      \* eventfd sources the last epoll_wait reported
  pending,    \* events linked in the loop
  st,         \* phase of each connection
  in_worker,  \* conn->in_worker
  closing,    \* conn->connection_closing
  sub,        \* conn->worker_complete.pub: the worker it is subscribed to
  sigterm     \* "no", "raised" (shutdown_efs triggered), "taken"

threadVars == <<wpc, do_job, job_param, w_shutdown, efd, queue, f_shutdown, job_done>>
loopVars == <<npc, cur, curw, todo, extra, batch, pending, sigterm>>
connVars == <<st, in_worker, closing, sub>>
vars == <<threadVars, loopVars, connVars>>

WorkerPC == {"none", "start", "wait", "woken", "run", "ran", "doneset",
             "triggered", "exit", "dead"}
NetPC == {"top", "process", "epoll", "emit", "got", "spin", "gc", "gcpop",
          "finpop", "join", "exited"}
ConnState == {"free", "idle", "busy", "responding"}
Event == {"request", "complete", "error", "gc", "shutdown"} \X (Conns \cup {None})

GcEvent == <<"gc", None>>
ShutdownEvent == <<"shutdown", None>>

Allocated == {w \in Workers : wpc[w] # "none"}   \* factory->list
worker_count == Cardinality(Allocated)

-----------------------------------------------------------------------------
(* No connection, no worker (NXWEB_START_WORKERS_IN_QUEUE is 0).           *)
Init ==
  /\ wpc = [w \in Workers |-> "none"]
  /\ do_job = [w \in Workers |-> FALSE]
  /\ job_param = [w \in Workers |-> None]
  /\ w_shutdown = [w \in Workers |-> FALSE]
  /\ efd = [w \in Workers |-> FALSE]
  /\ queue = <<>>
  /\ f_shutdown = FALSE
  /\ job_done = [c \in Conns |-> FALSE]
  /\ npc = "top"
  /\ cur = None /\ curw = None
  /\ todo = {} /\ extra = 0 /\ batch = {}
  /\ pending = {}
  /\ st = [c \in Conns |-> "free"]
  /\ in_worker = [c \in Conns |-> FALSE]
  /\ closing = [c \in Conns |-> FALSE]
  /\ sub = [c \in Conns |-> None]
  /\ sigterm = "no"

-----------------------------------------------------------------------------
(* Helpers of the handlers.                                                *)

(* Mutant of Signalled: the signal is forgotten.                           *)
SignalForgotten(pc, w) == pc

(* pthread_cond_signal(&w->start_cond) under w->start_mux: the worker, if  *)
(* it is in pthread_cond_wait, tests its condition again.                  *)
Signalled(pc, w) == [pc EXCEPT ![w] = IF @ = "wait" THEN "start" ELSE @]

(* Mutant of nxw_destroy_worker: subscribers are not unsubscribed.         *)
DestroyKeepsSubscribers(w) ==
  /\ wpc' = [wpc EXCEPT ![w] = "none"]
  /\ do_job' = [do_job EXCEPT ![w] = FALSE]
  /\ job_param' = [job_param EXCEPT ![w] = None]
  /\ w_shutdown' = [w_shutdown EXCEPT ![w] = FALSE]
  /\ efd' = [efd EXCEPT ![w] = FALSE]
  /\ UNCHANGED <<sub, pending>>

(* nxw_destroy_worker: the eventfd is unregistered, which unsubscribes     *)
(* every connection still subscribed to it and drops the events already    *)
(* queued for those subscribers; then the structure is freed.              *)
nxw_destroy_worker(w) ==
  /\ wpc' = [wpc EXCEPT ![w] = "none"]
  /\ do_job' = [do_job EXCEPT ![w] = FALSE]
  /\ job_param' = [job_param EXCEPT ![w] = None]
  /\ w_shutdown' = [w_shutdown EXCEPT ![w] = FALSE]
  /\ efd' = [efd EXCEPT ![w] = FALSE]
  /\ sub' = [c \in Conns |-> IF sub[c] = w THEN None ELSE sub[c]]
  /\ pending' = {e \in pending : ~ (e[1] = "complete" /\ e[2] \in Conns /\ sub[e[2]] = w)}

(* Mutant of nxweb_http_server_connection_finalize: in_worker not tested.  *)
FinalizeAlways(c, inw) ==
  /\ closing' = [closing EXCEPT ![c] = FALSE]
  /\ st' = [st EXCEPT ![c] = "free"]
  /\ job_done' = [job_done EXCEPT ![c] = FALSE]

(* nxweb_http_server_connection_finalize of a connection without           *)
(* subrequests: mark it; release it unless a worker still runs for it.     *)
nxweb_http_server_connection_finalize(c, inw) ==
  IF inw
    THEN /\ closing' = [closing EXCEPT ![c] = TRUE]
         /\ UNCHANGED <<st, job_done>>
    ELSE /\ closing' = [closing EXCEPT ![c] = FALSE]
         /\ st' = [st EXCEPT ![c] = "free"]
         /\ job_done' = [job_done EXCEPT ![c] = FALSE]

EventsOf(c) == {e \in pending : e[2] = c}

-----------------------------------------------------------------------------
(* Worker threads: nxw_worker_main.                                        *)

(* Mutant of WorkerTest: factory->shutdown_in_progress is not tested.      *)
TestIgnoresShutdown(w) ==
  /\ wpc[w] = "start"
  /\ wpc' = [wpc EXCEPT ![w] = IF do_job[w] \/ w_shutdown[w] THEN "woken" ELSE "wait"]
  /\ UNCHANGED <<do_job, job_param, w_shutdown, efd, queue, f_shutdown, job_done,
                 loopVars, connVars>>

(* Under start_mux: test the condition of the wait loop.                   *)
WorkerTest(w) ==
  /\ wpc[w] = "start"
  /\ wpc' = [wpc EXCEPT ![w] =
               IF do_job[w] \/ w_shutdown[w] \/ f_shutdown THEN "woken" ELSE "wait"]
  /\ UNCHANGED <<do_job, job_param, w_shutdown, efd, queue, f_shutdown, job_done,
                 loopVars, connVars>>

(* pthread_cond_wait may return although nobody signalled.                 *)
SpuriousWakeup(w) ==
  /\ wpc[w] = "wait"
  /\ wpc' = [wpc EXCEPT ![w] = "start"]
  /\ UNCHANGED <<do_job, job_param, w_shutdown, efd, queue, f_shutdown, job_done,
                 loopVars, connVars>>

(* start_mux released: no job means the worker was woken to exit.          *)
WorkerBranch(w) ==
  /\ wpc[w] = "woken"
  /\ wpc' = [wpc EXCEPT ![w] = IF do_job[w] THEN "run" ELSE "exit"]
  /\ UNCHANGED <<do_job, job_param, w_shutdown, efd, queue, f_shutdown, job_done,
                 loopVars, connVars>>

(* The job function returns and do_job is cleared.                         *)
WorkerRun(w) ==
  /\ wpc[w] = "run"
  /\ wpc' = [wpc EXCEPT ![w] = "ran"]
  /\ do_job' = [do_job EXCEPT ![w] = FALSE]
  /\ UNCHANGED <<job_param, w_shutdown, efd, queue, f_shutdown, job_done,
                 loopVars, connVars>>

(* *w->job_done=1: the last access to the connection.                      *)
WorkerSetDone(w) ==
  /\ wpc[w] = "ran"
  /\ wpc' = [wpc EXCEPT ![w] = "doneset"]
  /\ job_done' = [job_done EXCEPT ![job_param[w]] = TRUE]
  /\ UNCHANGED <<do_job, job_param, w_shutdown, efd, queue, f_shutdown,
                 loopVars, connVars>>

(* nxe_trigger_eventfd(&w->complete_efs).                                  *)
WorkerTrigger(w) ==
  /\ wpc[w] = "doneset"
  /\ wpc' = [wpc EXCEPT ![w] = "triggered"]
  /\ efd' = [efd EXCEPT ![w] = TRUE]
  /\ UNCHANGED <<do_job, job_param, w_shutdown, queue, f_shutdown, job_done,
                 loopVars, connVars>>

(* Under queue_mux: leave on shutdown, else enter the idle queue; a full   *)
(* queue makes the worker leave too.                                       *)
WorkerEnqueue(w) ==
  /\ wpc[w] = "triggered"
  /\ \/ /\ w_shutdown[w] \/ f_shutdown \/ Len(queue) >= QueueSize - 1
        /\ wpc' = [wpc EXCEPT ![w] = "exit"]
        /\ UNCHANGED queue
     \/ /\ ~ w_shutdown[w] /\ ~ f_shutdown /\ Len(queue) < QueueSize - 1
        /\ wpc' = [wpc EXCEPT ![w] = "start"]
        /\ queue' = Append(queue, w)
  /\ UNCHANGED <<do_job, job_param, w_shutdown, efd, f_shutdown, job_done,
                 loopVars, connVars>>

(* w->dead=1; the thread returns.                                          *)
WorkerExit(w) ==
  /\ wpc[w] = "exit"
  /\ wpc' = [wpc EXCEPT ![w] = "dead"]
  /\ UNCHANGED <<do_job, job_param, w_shutdown, efd, queue, f_shutdown, job_done,
                 loopVars, connVars>>

WorkerStep(w) ==
  \/ WorkerTest(w)
  \/ WorkerBranch(w)
  \/ WorkerRun(w)
  \/ WorkerSetDone(w)
  \/ WorkerTrigger(w)
  \/ WorkerEnqueue(w)
  \/ WorkerExit(w)

-----------------------------------------------------------------------------
(* The network thread: nxe_run.                                            *)

(* Mutant of LoopTop: a gc event is published in every turn.               *)
LoopTopAlwaysGc ==
  /\ npc = "top"
  /\ npc' = "process"
  /\ pending' = pending \cup {GcEvent}
  /\ UNCHANGED <<threadVars, cur, curw, todo, extra, batch, sigterm, connVars>>

(* Queued events are processed; an idle loop publishes a gc event first.   *)
LoopTop ==
  /\ npc = "top"
  /\ npc' = "process"
  /\ pending' = IF pending = {} THEN {GcEvent} ELSE pending
  /\ UNCHANGED <<threadVars, cur, curw, todo, extra, batch, sigterm, connVars>>

(* nxe_process_loop has drained the list.  The loop ends when no source is *)
(* registered any more: listening sockets gone, no connection, no worker.  *)
LoopDrained ==
  /\ npc = "process" /\ pending = {}
  /\ npc' = IF /\ sigterm = "taken"
               /\ Allocated = {}
               /\ \A c \in Conns : st[c] = "free"
            THEN "exited" ELSE "epoll"
  /\ UNCHANGED <<threadVars, cur, curw, todo, extra, batch, pending, sigterm, connVars>>

(* epoll_wait returns: every triggered eventfd is reported.                *)
EpollWait ==
  /\ npc = "epoll"
  /\ npc' = "emit"
  /\ batch' = {w \in Workers : efd[w]}
  /\ pending' = IF sigterm = "raised" THEN pending \cup {ShutdownEvent} ELSE pending
  /\ sigterm' = IF sigterm = "raised" THEN "taken" ELSE sigterm
  /\ UNCHANGED <<threadVars, cur, curw, todo, extra, connVars>>

(* eventfd_source_emit: read the counter back to zero and publish to the   *)
(* connections that are subscribed now.                                    *)
eventfd_source_emit(w) ==
  /\ npc = "emit" /\ w \in batch
  /\ batch' = batch \ {w}
  /\ efd' = [efd EXCEPT ![w] = FALSE]
  /\ pending' = pending \cup {<<"complete", c>> : c \in {d \in Conns : sub[d] = w}}
  /\ UNCHANGED <<wpc, do_job, job_param, w_shutdown, queue, f_shutdown, job_done,
                 npc, cur, curw, todo, extra, sigterm, connVars>>

(* accept_connection: a new connection takes a free structure.             *)
accept_connection(c) ==
  /\ npc = "emit" /\ sigterm = "no" /\ st[c] = "free"
  /\ st' = [st EXCEPT ![c] = "idle"]
  /\ UNCHANGED <<threadVars, loopVars, in_worker, closing, sub>>

(* A request for an NXWEB_INWORKER handler has been received: the protocol *)
(* publishes NXD_HSP_REQUEST_RECEIVED and handles nothing else meanwhile.  *)
RequestReceived(c) ==
  /\ npc = "emit" /\ st[c] = "idle" /\ ~ closing[c]
  /\ st' = [st EXCEPT ![c] = "busy"]
  /\ pending' = pending \cup {<<"request", c>>}
  /\ UNCHANGED <<threadVars, npc, cur, curw, todo, extra, batch, sigterm,
                 in_worker, closing, sub>>

(* The peer hangs up, the socket fails, or a timer of the protocol expires *)
(* (no timer runs while a worker has the request).                         *)
ErrorReceived(c) ==
  /\ npc = "emit" /\ st[c] # "free"
  /\ <<"error", c>> \notin pending
  /\ pending' = pending \cup {<<"error", c>>}
  /\ UNCHANGED <<threadVars, npc, cur, curw, todo, extra, batch, sigterm, connVars>>

(* The response has been sent; the connection waits for the next request.  *)
ResponseSent(c) ==
  /\ npc = "emit" /\ st[c] = "responding"
  /\ st' = [st EXCEPT ![c] = "idle"]
  /\ UNCHANGED <<threadVars, loopVars, in_worker, closing, sub>>

EmitDone ==
  /\ npc = "emit" /\ batch = {}
  /\ npc' = "top"
  /\ UNCHANGED <<threadVars, cur, curw, todo, extra, batch, pending, sigterm, connVars>>

-----------------------------------------------------------------------------
(* Delivery of a request: invoke_request_handler.  Its early return, when  *)
(* the connection is closing already, is the guard ~ closing[c]: without   *)
(* subrequests a connection is marked only while a worker has its request, *)
(* when no other request of it is queued.                                  *)

(* nxw_get_worker pops an idle worker.                                     *)
nxw_get_worker_idle(c) ==
  /\ npc = "process" /\ <<"request", c>> \in pending /\ ~ closing[c]
  /\ ~ f_shutdown /\ queue # <<>>
  /\ pending' = pending \ {<<"request", c>>}
  /\ npc' = "got" /\ cur' = c /\ curw' = Head(queue)
  /\ queue' = Tail(queue)
  /\ UNCHANGED <<wpc, do_job, job_param, w_shutdown, efd, f_shutdown, job_done,
                 todo, extra, batch, sigterm, connVars>>

(* nxw_get_worker creates a worker: nothing idle, and worker_count does    *)
(* not exceed NXWEB_MAX_WORKERS.                                           *)
nxw_get_worker_new(c, w) ==
  /\ npc = "process" /\ <<"request", c>> \in pending /\ ~ closing[c]
  /\ ~ f_shutdown /\ queue = <<>>
  /\ ~ (worker_count > MaxWorkers)
  /\ wpc[w] = "none"
  /\ pending' = pending \ {<<"request", c>>}
  /\ npc' = "got" /\ cur' = c /\ curw' = w
  /\ wpc' = [wpc EXCEPT ![w] = "start"]
  /\ UNCHANGED <<do_job, job_param, w_shutdown, efd, queue, f_shutdown, job_done,
                 todo, extra, batch, sigterm, connVars>>

(* No worker (shutting down, limit reached, or pthread_create failed):     *)
(* the response 503 is sent.                                               *)
nxw_get_worker_fails(c) ==
  /\ npc = "process" /\ <<"request", c>> \in pending /\ ~ closing[c]
  /\ f_shutdown \/ queue = <<>>
  /\ pending' = pending \ {<<"request", c>>}
  /\ st' = [st EXCEPT ![c] = "responding"]
  /\ UNCHANGED <<threadVars, npc, cur, curw, todo, extra, batch, sigterm,
                 in_worker, closing, sub>>

(* Mutant of nxw_start_worker: a completion that is left from the last job *)
(* is thrown away.                                                         *)
StartClearsEventfd ==
  /\ npc = "got"
  /\ sub' = [sub EXCEPT ![cur] = curw]
  /\ do_job' = [do_job EXCEPT ![curw] = TRUE]
  /\ job_param' = [job_param EXCEPT ![curw] = cur]
  /\ job_done' = [job_done EXCEPT ![cur] = FALSE]
  /\ efd' = [efd EXCEPT ![curw] = FALSE]
  /\ wpc' = Signalled(wpc, curw)
  /\ in_worker' = [in_worker EXCEPT ![cur] = TRUE]
  /\ npc' = "process" /\ cur' = None /\ curw' = None
  /\ UNCHANGED <<w_shutdown, queue, f_shutdown, todo, extra, batch, pending,
                 sigterm, st, closing>>

(* nxe_subscribe, then nxw_start_worker under start_mux, then in_worker=1. *)
nxw_start_worker ==
  /\ npc = "got"
  /\ sub' = [sub EXCEPT ![cur] = curw]
  /\ do_job' = [do_job EXCEPT ![curw] = TRUE]
  /\ job_param' = [job_param EXCEPT ![curw] = cur]
  /\ job_done' = [job_done EXCEPT ![cur] = FALSE]
  /\ wpc' = Signalled(wpc, curw)
  /\ in_worker' = [in_worker EXCEPT ![cur] = TRUE]
  /\ npc' = "process" /\ cur' = None /\ curw' = None
  /\ UNCHANGED <<w_shutdown, efd, queue, f_shutdown, todo, extra, batch, pending,
                 sigterm, st, closing>>

-----------------------------------------------------------------------------
(* Delivery of a completion: worker_complete_on_message.  The subscription *)
(* may have brought the completion of an earlier job of the same worker:   *)
(* hence the busy wait for worker_job_done.                                *)
WorkerComplete(c) ==
  /\ npc = "process" /\ <<"complete", c>> \in pending
  /\ pending' = pending \ {<<"complete", c>>}
  /\ sub' = [sub EXCEPT ![c] = None]
  /\ in_worker' = [in_worker EXCEPT ![c] = FALSE]
  /\ npc' = "spin" /\ cur' = c
  /\ UNCHANGED <<threadVars, curw, todo, extra, batch, sigterm, st, closing>>

(* The busy wait ends; the connection is answered, or released if it has   *)
(* been marked meanwhile.                                                  *)
SpinUntilDone ==
  /\ npc = "spin" /\ job_done[cur]
  /\ npc' = "process" /\ cur' = None
  /\ \/ /\ closing[cur]
        /\ nxweb_http_server_connection_finalize(cur, FALSE)
        /\ pending' = pending \ EventsOf(cur)
     \/ /\ ~ closing[cur]
        /\ st' = [st EXCEPT ![cur] = "responding"]
        /\ UNCHANGED <<closing, pending, job_done>>
  /\ UNCHANGED <<wpc, do_job, job_param, w_shutdown, efd, queue, f_shutdown,
                 curw, todo, extra, batch, sigterm, in_worker, sub>>

(* Delivery of an error: the connection is finalized or marked.            *)
ErrorDelivered(c) ==
  /\ npc = "process" /\ <<"error", c>> \in pending
  /\ nxweb_http_server_connection_finalize(c, in_worker[c])
  /\ IF in_worker[c]
       THEN /\ pending' = pending \ {<<"error", c>>}
            /\ UNCHANGED sub
       ELSE /\ pending' = pending \ EventsOf(c)
            /\ sub' = [sub EXCEPT ![c] = None]
  /\ UNCHANGED <<wpc, do_job, job_param, w_shutdown, efd, queue, f_shutdown,
                 npc, cur, curw, todo, extra, batch, sigterm, in_worker>>

-----------------------------------------------------------------------------
(* Delivery of a gc event: nxw_gc_factory.                                 *)

GcDelivered ==
  /\ npc = "process" /\ GcEvent \in pending
  /\ pending' = pending \ {GcEvent}
  /\ npc' = "gc" /\ todo' = Allocated
  /\ UNCHANGED <<threadVars, cur, curw, extra, batch, sigterm, connVars>>

(* One worker of the list: pthread_join and nxw_destroy_worker if dead.    *)
GcVisit(w) ==
  /\ npc = "gc" /\ w \in todo
  /\ todo' = todo \ {w}
  /\ \/ wpc[w] = "dead" /\ nxw_destroy_worker(w)
     \/ /\ wpc[w] # "dead"
        /\ UNCHANGED <<wpc, do_job, job_param, w_shutdown, efd, sub, pending>>
  /\ UNCHANGED <<queue, f_shutdown, job_done, npc, cur, curw, extra, batch, sigterm,
                 st, in_worker, closing>>

(* Half of the idle workers above the limit are to go (C division).        *)
GcExtra ==
  /\ npc = "gc" /\ todo = {}
  /\ LET surplus == Len(queue) - MaxIdle + 1
     IN  extra' = IF surplus > 0 THEN surplus \div 2 ELSE 0
  /\ npc' = "gcpop"
  /\ UNCHANGED <<threadVars, cur, curw, todo, batch, pending, sigterm, connVars>>

(* Mutant of GcPop: the loop runs once too often.                          *)
GcPopOneMore ==
  /\ npc = "gcpop"
  /\ \/ /\ extra >= 0 /\ queue # <<>>
        /\ extra' = extra - 1
        /\ queue' = Tail(queue)
        /\ w_shutdown' = [w_shutdown EXCEPT ![Head(queue)] = TRUE]
        /\ wpc' = Signalled(wpc, Head(queue))
        /\ UNCHANGED npc
     \/ /\ extra < 0 \/ queue = <<>>
        /\ extra' = 0
        /\ npc' = "process"
        /\ UNCHANGED <<queue, w_shutdown, wpc>>
  /\ UNCHANGED <<do_job, job_param, efd, f_shutdown, job_done,
                 cur, curw, todo, batch, pending, sigterm, connVars>>

(* Mutant of GcPop: the dismissed worker stays in the queue.               *)
GcDismissesQueued ==
  /\ npc = "gcpop"
  /\ \/ /\ extra > 0 /\ queue # <<>>
        /\ extra' = extra - 1
        /\ w_shutdown' = [w_shutdown EXCEPT ![Head(queue)] = TRUE]
        /\ wpc' = Signalled(wpc, Head(queue))
        /\ UNCHANGED <<npc, queue>>
     \/ /\ extra = 0 \/ queue = <<>>
        /\ extra' = 0
        /\ npc' = "process"
        /\ UNCHANGED <<queue, w_shutdown, wpc>>
  /\ UNCHANGED <<do_job, job_param, efd, f_shutdown, job_done,
                 cur, curw, todo, batch, pending, sigterm, connVars>>

(* Pop one of them, mark it and wake it up.                                *)
GcPop ==
  /\ npc = "gcpop"
  /\ \/ /\ extra > 0 /\ queue # <<>>
        /\ extra' = extra - 1
        /\ queue' = Tail(queue)
        /\ w_shutdown' = [w_shutdown EXCEPT ![Head(queue)] = TRUE]
        /\ wpc' = Signalled(wpc, Head(queue))
        /\ UNCHANGED npc
     \/ /\ extra = 0 \/ queue = <<>>
        /\ extra' = 0
        /\ npc' = "process"
        /\ UNCHANGED <<queue, w_shutdown, wpc>>
  /\ UNCHANGED <<do_job, job_param, efd, f_shutdown, job_done,
                 cur, curw, todo, batch, pending, sigterm, connVars>>

-----------------------------------------------------------------------------
(* Shutdown: on_sigterm triggers shutdown_efs, on_net_thread_shutdown runs *)
(* nxw_finalize_factory.                                                   *)

on_sigterm ==
  /\ AllowShutdown /\ sigterm = "no"
  /\ sigterm' = "raised"
  /\ UNCHANGED <<threadVars, npc, cur, curw, todo, extra, batch, pending, connVars>>

(* Under queue_mux: no worker enters the queue any more.                   *)
FinalizeFactory ==
  /\ npc = "process" /\ ShutdownEvent \in pending
  /\ pending' = pending \ {ShutdownEvent}
  /\ f_shutdown' = TRUE
  /\ npc' = "finpop"
  /\ UNCHANGED <<wpc, do_job, job_param, w_shutdown, efd, queue, job_done,
                 cur, curw, todo, extra, batch, sigterm, connVars>>

FinalizePop ==
  /\ npc = "finpop"
  /\ \/ /\ queue # <<>>
        /\ queue' = Tail(queue)
        /\ wpc' = Signalled(wpc, Head(queue))
        /\ UNCHANGED npc
     \/ /\ queue = <<>>
        /\ npc' = "join"
        /\ UNCHANGED <<queue, wpc>>
  /\ UNCHANGED <<do_job, job_param, w_shutdown, efd, f_shutdown, job_done,
                 cur, curw, todo, extra, batch, pending, sigterm, connVars>>

(* Join and destroy every worker of the list.                              *)
FinalizeJoin ==
  /\ npc = "join"
  /\ \/ /\ \E w \in Workers : wpc[w] = "dead" /\ nxw_destroy_worker(w)
        /\ UNCHANGED npc
     \/ /\ Allocated = {}
        /\ npc' = "process"
        /\ UNCHANGED <<wpc, do_job, job_param, w_shutdown, efd, sub, pending>>
  /\ UNCHANGED <<queue, f_shutdown, job_done, cur, curw, todo, extra, batch, sigterm,
                 st, in_worker, closing>>

(* The network thread has left nxe_run.                                    *)
Exited == npc = "exited" /\ UNCHANGED vars

-----------------------------------------------------------------------------
NetStep ==
  \/ LoopTop \/ LoopDrained \/ EpollWait \/ EmitDone
  \/ \E w \in Workers : eventfd_source_emit(w) \/ GcVisit(w)
  \/ \E c \in Conns :
       \/ nxw_get_worker_idle(c)
       \/ \E w \in Workers : nxw_get_worker_new(c, w)
       \/ nxw_get_worker_fails(c)
       \/ WorkerComplete(c)
       \/ ErrorDelivered(c)
  \/ nxw_start_worker \/ SpinUntilDone
  \/ GcDelivered \/ GcExtra \/ GcPop
  \/ FinalizeFactory \/ FinalizePop \/ FinalizeJoin

Environment ==
  \/ on_sigterm
  \/ \E c \in Conns :
       accept_connection(c) \/ RequestReceived(c) \/ ErrorReceived(c) \/ ResponseSent(c)
  \/ \E w \in Workers : SpuriousWakeup(w)

Next ==
  \/ NetStep
  \/ Environment
  \/ \E w \in Workers : WorkerStep(w)
  \/ Exited

Spec == Init /\ [][Next]_vars

(* Threads that can run do run, and job functions return.  Nothing is      *)
(* assumed of clients, of signals or of spurious wake-ups.                 *)
Fairness == WF_vars(NetStep) /\ \A w \in Workers : WF_vars(WorkerStep(w))

FairSpec == Spec /\ Fairness

-----------------------------------------------------------------------------
(* Properties.                                                             *)

(* The fields of workers, connections and loop hold what the code gives    *)
(* them; in particular the gc dismisses no more workers than it counted.   *)
TypeOK ==
  /\ wpc \in [Workers -> WorkerPC]
  /\ do_job \in [Workers -> BOOLEAN]
  /\ job_param \in [Workers -> Conns \cup {None}]
  /\ w_shutdown \in [Workers -> BOOLEAN]
  /\ efd \in [Workers -> BOOLEAN]
  /\ queue \in Seq(Workers)
  /\ f_shutdown \in BOOLEAN
  /\ job_done \in [Conns -> BOOLEAN]
  /\ npc \in NetPC
  /\ cur \in Conns \cup {None}
  /\ curw \in Workers \cup {None}
  /\ todo \in SUBSET Workers
  /\ extra \in Nat
  /\ batch \in SUBSET Workers
  /\ pending \in SUBSET Event
  /\ st \in [Conns -> ConnState]
  /\ in_worker \in [Conns -> BOOLEAN]
  /\ closing \in [Conns -> BOOLEAN]
  /\ sub \in [Conns -> Workers \cup {None}]
  /\ sigterm \in {"no", "raised", "taken"}

(* The worker has a job whose connection it may still read or write: from  *)
(* nxw_start_worker to "*w->job_done=1" in nxw_worker_main.                *)
Active(w) == do_job[w] \/ wpc[w] = "ran"

(* No use after free, no response before the job is done, one worker per   *)
(* request: the connection of an active worker is held in the phase "busy" *)
(* (it is neither released nor answered, whatever errors arrive), and no   *)
(* other worker has it.  This is what in_worker, connection_closing and    *)
(* the busy wait on worker_job_done in http_server.c are there for.        *)
JobOwnsConnection ==
  \A w \in Workers : Active(w) =>
    /\ job_param[w] \in Conns
    /\ st[job_param[w]] = "busy"
    /\ \A v \in Workers \ {w} : Active(v) => job_param[v] # job_param[w]

(* What the idle queue may hold, although workers enter it by themselves   *)
(* and the network thread removes them without taking queue_mux: workers   *)
(* that exist, wait for a job and have none, each once.                    *)
QueueHoldsIdleWorkers ==
  /\ \A i \in 1 .. Len(queue) :
       /\ wpc[queue[i]] \in {"start", "wait", "woken", "exit", "dead"}
       /\ wpc[queue[i]] \in {"woken", "exit", "dead"} => f_shutdown
       /\ ~ do_job[queue[i]] /\ ~ w_shutdown[queue[i]]
  /\ \A i, j \in 1 .. Len(queue) : queue[i] = queue[j] => i = j

(* A connection is subscribed to a worker's eventfd only while that worker *)
(* exists: nxw_destroy_worker leaves no dangling worker_complete.pub, and  *)
(* a released connection leaves no subscription behind.                    *)
NoDanglingSubscription ==
  \A c \in Conns : sub[c] # None =>
    wpc[sub[c]] # "none" /\ st[c] = "busy"

(* Until the server shuts down, the completion of a job is on its way: the *)
(* worker is still at it, the eventfd is triggered, or the message is      *)
(* queued; or its worker has been destroyed (see LostOnlyIfCrowded).       *)
CompletionInFlight ==
  \A c \in Conns : in_worker[c] /\ ~ f_shutdown /\ sub[c] # None =>
    \/ job_param[sub[c]] = c /\ (Active(sub[c]) \/ wpc[sub[c]] = "doneset")
    \/ efd[sub[c]]
    \/ <<"complete", c>> \in pending

(* Every request given to a worker is taken back from it, unless the       *)
(* factory is finalized, which abandons what is still in workers.          *)
JobAnswered == \A c \in Conns : in_worker[c] ~> (~ in_worker[c] \/ f_shutdown)

(* nxw_finalize_factory returns: no worker misses the wake-up, so that     *)
(* pthread_join never waits for ever.                                      *)
ShutdownJoinsWorkers == (npc = "finpop") ~> (npc \notin {"finpop", "join"})

(* NXWEB_MAX_WORKERS bounds the workers of a network thread, those that    *)
(* have exited and wait for the gc included, up to the one worker that the *)
(* comparison in nxw_get_worker lets through.                              *)
WorkersBounded == worker_count <= MaxWorkers + 1

(* nxw_get_worker and nxw_worker_main lose neither jobs nor workers: the   *)
(* completion of every job is on its way, within the limit on workers.     *)
JobsAndWorkersKept == CompletionInFlight /\ WorkersBounded

(* A worker that has left by itself, neither dismissed by the gc nor       *)
(* because of a shutdown; and its way out, under queue_mux.                *)
LeftAlone(w) == wpc[w] = "dead" /\ ~ w_shutdown[w]
Leaves(w) == wpc[w] # "exit" /\ wpc'[w] = "exit" /\ ~ w_shutdown[w] /\ ~ f_shutdown

(* The request of c stays in a worker, but nothing will tell so any more.  *)
Abandons(c) == in_worker[c] /\ in_worker'[c] /\ sub[c] # None /\ sub'[c] = None /\ ~ f_shutdown

(* The only way to lose the completion of a job, whatever the sizes of     *)
(* pool and queue: nxw_gc_factory destroys a worker that left by itself,   *)
(* and a worker does so only when it finds the idle queue full.  Neither   *)
(* the dismissal of idle workers nor the reuse of one loses a completion.  *)
LostOnlyIfCrowded ==
  [][/\ \A c \in Conns : Abandons(c) => LeftAlone(sub[c])
     /\ \A w \in Workers : Leaves(w) => Len(queue) >= QueueSize - 1]_vars

(* "otherwise it is marked for closing immediately after worker thread     *)
(* completes" (http_server.c): a connection that fails while a worker has  *)
(* its request is released when the worker is done.                        *)
ClosedAfterWorker == \A c \in Conns : (closing[c] /\ in_worker[c]) ~> (st[c] = "free")

-----------------------------------------------------------------------------
(* The strengthening of JobOwnsConnection, QueueHoldsIdleWorkers and       *)
(* NoDanglingSubscription that every step preserves.                       *)

(* An active worker belongs to a connection that waits for it: in_worker   *)
(* is set, or the network thread spins on its worker_job_done.             *)
ActiveInv ==
  \A w \in Workers :
    /\ do_job[w] => wpc[w] \in {"start", "woken", "run"}
    /\ wpc[w] = "run" => do_job[w]
    /\ Active(w) =>
         /\ job_param[w] \in Conns
         /\ ~ job_done[job_param[w]]
         /\ in_worker[job_param[w]] \/ (npc = "spin" /\ cur = job_param[w])
         /\ \A v \in Workers \ {w} : Active(v) => job_param[v] # job_param[w]

(* A connection has been given to a worker only while it is busy; then it  *)
(* is subscribed to an existing worker or has lost its subscription.       *)
SubscriptionInv ==
  \A c \in Conns :
    /\ in_worker[c] => st[c] = "busy"
    /\ sub[c] # None => in_worker[c] /\ wpc[sub[c]] # "none"

(* The queued events belong to the phase of their connection.              *)
EventInv ==
  \A c \in Conns :
    /\ <<"complete", c>> \in pending => in_worker[c]
    /\ <<"request", c>> \in pending =>
         st[c] = "busy" /\ ~ in_worker[c] /\ ~ (npc \in {"got", "spin"} /\ cur = c)

(* What the handlers that span several steps hold in their locals.         *)
HandlerInv ==
  /\ npc \in {"got", "spin"} =>
       cur \in Conns /\ st[cur] = "busy" /\ ~ in_worker[cur]
  /\ npc = "got" =>
       /\ curw \in Workers
       /\ wpc[curw] \in {"start", "wait"}
       /\ ~ do_job[curw] /\ ~ w_shutdown[curw]
       /\ \A i \in 1 .. Len(queue) : queue[i] # curw
       /\ ~ f_shutdown
  /\ npc \in {"finpop", "join"} => f_shutdown
  /\ f_shutdown /\ npc # "finpop" => queue = <<>>
  /\ \A w \in Workers : wpc[w] = "none" => ~ w_shutdown[w]

(* The inductive invariant: every step of every thread preserves it.       *)
IInv ==
  /\ TypeOK
  /\ ActiveInv
  /\ SubscriptionInv
  /\ EventInv
  /\ HandlerInv
  /\ QueueHoldsIdleWorkers

-----------------------------------------------------------------------------
(* The strengthening of JobsAndWorkersKept and LostOnlyIfCrowded.          *)

(* A dismissed worker has no job, and only a worker with a job or dismissed*)
(* is woken up.                                                            *)
DismissInv ==
  \A w \in Workers :
    /\ w_shutdown[w] => ~ do_job[w] /\ wpc[w] \in {"start", "woken", "exit", "dead"}
    /\ ~ f_shutdown /\ wpc[w] = "woken" => do_job[w] \/ w_shutdown[w]

(* A worker may be dismissed before its last completion has been consumed. *)
(* Its eventfd is then read before the next gc: the loop publishes a gc    *)
(* event only when epoll has reported nothing, so that no worker with such *)
(* a completion is destroyed.                                              *)
GcInv ==
  /\ GcEvent \in pending => npc \in {"process", "got", "spin", "finpop", "join"}
  /\ \A c \in Conns :
       ~ f_shutdown /\ in_worker[c] /\ sub[c] \in Workers /\ w_shutdown[sub[c]] =>
         /\ npc # "gc" /\ GcEvent \notin pending
         /\ npc = "emit" /\ efd[sub[c]] => sub[c] \in batch
         /\ npc = "top" => <<"complete", c>> \in pending

KeptInv ==
  /\ IInv /\ DismissInv /\ GcInv /\ CompletionInFlight
  /\ IsFiniteSet(Allocated) /\ WorkersBounded
=============================================================================
