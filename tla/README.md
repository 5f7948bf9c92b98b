# A verification project for nxweb

TLA+ modules that model the core of nxweb, TLC configurations that check them on
small instances, and TLAPS proofs. Source paths are relative to the root of the
repository.

## The system and its parts

nxweb is an HTTP server. A few **network threads** each run an epoll **event
loop** (`src/lib/nx_event.c`) and serve their own connections; handlers run in
the network thread, or in **worker threads** that belong to the network thread
(`src/lib/nx_workers.c`). Everything in a network thread is a device with
*streams* (an istream feeds an ostream when both are ready), *publishers* and
*subscribers* (messages through the loop) and *timers*.

| part | state it keeps | operations | interacts with |
|---|---|---|---|
| event loop (`nx_event.c`, `nx_event.h`) | list of linked events, ready flags and pairs of streams, subscriber lists, timer queues, epoll set | link/unlink, set/unset ready, connect/disconnect, publish, (un)subscribe, set/unset timer, `nxe_run` | calls back every device |
| worker pool (`nx_workers.c`) | list of workers, idle queue, `do_job`, shutdown flags, eventfd per worker | get, start, create, destroy, gc, finalize; `nxw_worker_main` | loop (eventfd, gc), connections (`worker_job_done`) |
| idle queue (`nx_queue_tpl.h`) | ring of slots, head, tail | push (under a mutex), pop and length (without) | worker pool |
| HTTP server protocol (`nxd_http_server_proto.c`) | state of the connection, request, response, three timers | read headers, read body, send headers, send body, complete, cleanup, finalize | socket, buffers, `http_server.c` |
| connections and dispatch (`http_server.c`) | `in_worker`, `connection_closing`, handler, subrequests | accept, dispatch, hand-off to a worker, completion, finalize, shutdown, gc | all of the above |
| sockets (`nxd_socket.c`, `nxd_ssl_socket.c`) | fd, ready flags | read, write, sendfile, shutdown | loop, protocol |
| buffers (`nxd_buffer.c`) | memory or file regions as streams | `do_read`, `do_write` of ibuffer, obuffer, rbuffer, fbuffer, fwbuffer | protocol, proxy |
| memory cache (`cache.c`) | hash table, LRU list, reference counts, shared by all network threads | try, store, unref, make room | connections |
| proxy (`modules/http_proxy.c`, `nxd_http_proxy.c`, `nxd_http_client_proto.c`) | backend connections in a pool, retry count, backend timer | start, retry, fail, backend messages | client connection, loop |
| subrequests, streamer, SSI, templates | tree of connections, list of stream nodes | start, response ready, finalize with the parent | connections, filters |
| object pool, byte buffers | free lists; blocks | alloc, free, gc; append, finish | everywhere |
| filters, file cache | files on disk | translate key, serve from cache, do_filter | dispatch |
| daemon, access log, configuration | child process; log blocks; tables | respawn; flush; load | main |

**What is hard in this code.** (1) The hand-off to a worker and back: two
threads share a connection, the way back goes through an eventfd and the loop,
and meanwhile the client may hang up, the gc may destroy workers and SIGTERM
may arrive. (2) Readiness is edge-triggered and cached in flags; a flag that is
not looked at again is a connection that hangs. (3) Timers must be unset before
they are set, in every path. (4) Connections, requests and events are recycled;
an event left behind is delivered to somebody else. (5) The cache is shared
between threads while records expire, are evicted and are being sent. The list
of hazards, each with its line and the properties that watch it, is in
`PROJECT.json`.

## Modules

| module | models | kind |
|---|---|---|
| `WorkerPool` | `nx_workers.c`, and what it needs of `http_server.c` and `nx_event.c` | state machine |
| `ServerProofs` | | proofs about `WorkerPool` and `Dispatch` |
| `RingQueue` | `nx_queue_tpl.h` | state machine |
| `BoundedFifo` | what users of the queue rely on | abstract specification |
| `MemCache` | `cache.c` | state machine |
| `EventOps` | the calls of `nx_event.[ch]` that protocol code makes | operators on a record |
| `HttpServerProto` | `nxd_http_server_proto.c` with socket, buffers, dispatch, proxy handler and loop | state machine |
| `Socket` | the reads, writes and ready flags of `nxd_socket.c` | operators on a record |
| `HttpProxy` | `modules/http_proxy.c`, `nxd_http_proxy.c`, `nxd_http_client_proto.c` with socket, ring buffers and loop | state machine |
| `SsiPage` | `ssi_filter.c`, `http_subrequest.c`, `nxd_http_server_proto_subrequest.c`, `nxd_streamer.c`, the release of a tree of connections in `http_server.c` | state machine |
| `SslSocket` | `nxd_ssl_socket.c` | state machine |
| `FileCache` | `file_cache_filter.c` | state machine |
| `Templates` | `templates.c`, `templates_filter.c` | state machine around a parser |
| `Dispatch` | registration, selection, filters and caches of `http_server.c`, the matching of hosts and prefixes in `nxweb.h` | state machine |
| `ChunkedCodec` | the chunked encoder and decoders of `http_utils.c` | state machine and pure operators |
| `ObjectPool` | `nx_pool.c` | state machine |
| `AccessLog` | `access_log.c` | state machine |
| `MCWorkerPool` | | symmetry for TLC |
| `MCParts` | `RingQueue`, `MemCache`, `ObjectPool`, `ChunkedCodec`, `FileCache`, `Templates`, `Dispatch`, `AccessLog` | instances for TLC, one at a time |
| `MCLive` | `HttpServerProto`, `HttpProxy`, `SsiPage`, `SslSocket` | instances for TLC, one at a time |

`MCParts` and `MCLive` put modules that share no state into one specification: a
variable `part` is chosen at the beginning and only that module takes steps, while
the others rest in an initial state. The states are the sum, not the product, of
the modules' states, and each module's properties are those of its own
behaviours.

Definitions carry the names of the functions they translate where one action is
one function; `PROJECT.json` maps every definition to its lines. A definition
whose comment starts with "Mutant of" is a plausible bug, used to show that a
property can fail; no specification uses it.

### WorkerPool

One network thread (`npc` is its place in `nxe_run` and in the handlers that
have several steps) and any number of workers (`wpc` is the place of each in
`nxw_worker_main`). A step makes at most one access to memory another thread
writes, so the interleavings are those of the machine; the full barriers of the
code justify sequential consistency. `Signalled` is the condition variable:
a worker in `pthread_cond_wait` tests its condition again, and it may also wake
up spuriously. `nxw_get_worker` is three actions, one for each outcome.

Abstractions: the list of events is the set `pending`, so events are delivered
in any order (a superset of the code's orders); epoll reports every eventfd
that is triggered; the phases of a connection are free, idle, busy, responding;
`NXWEB_START_WORKERS_IN_QUEUE` is 0 as in `nx_workers.h`; subrequests are left
out. The idle queue is an atomic bounded FIFO of `QueueSize - 1` places, which
is what `RingQueue` shows of the ring.

### RingQueue and BoundedFifo

Producers push under `queue_mux`, the network thread pops and measures without
it. Every access to `head`, `tail` or a slot is a step. The refinement maps the
ring to the sequence of its occupied slots: a push takes effect when the tail
moves, a pop when the head moves, and the result each caller sees is that of the
abstract operation.

### MemCache

A thread carries one request from `nxweb_select_handler` to the finalizer of
the request. Sections under `_nxweb_cache_mutex` are one step, the size test of
`nxweb_cache_store_response` is a step outside of it. Every thread has its own
cached clock, as in the code, and clocks drift. `cache_check_size` is given by
its result: the unreferenced records nearest to the tail, as many as there are
too many. Files may change at any time. Memory is never exhausted.

### EventOps and HttpServerProto

`EventOps` holds the operators on events, streams and timers; the assertions of
`nx_event.c` set the flag `tripped`. `HttpServerProto` is one connection. Its
four streams are: in (socket to `data_in`), out (`data_out` to socket), rb
(`req_body_out` to the receiver of the body) and cb (`content_out` to
`resp_body_in`). The loop delivers events in the order of its list; delivery of
a stream event is broken into the rounds of `stream_event_deliver`, with
`LoopGuard` for its 50, because client, timers and other threads act between
rounds. Functions of the protocol are operators from record to record, composed
as the calls are.

The data are pieces: a request is its first part, its end (which tells size and
kind) and the pieces of its body; a response is a piece of headers and pieces of
content. The kinds are plain, close (no keep-alive), expect (100-continue),
chunked, broken (a chunked body that cannot be decoded), malformed and
oversized. The client sends and reads pieces, closes at any time and does not
pipeline. Handlers are synchronous, in a worker (its completion is
`JobAnswered` of `WorkerPool`), or the proxy. `EarlyResponse` says whether a
backend's answer (or the 504 after the last retry) may come before the body of
the request has been received. `Retries` is how often the proxy connects the
receiver of the body again (`BackendRetries`), which it does until the backend has
taken something of the body; a retry that gets no connection leaves the request to
nobody (`handler` is `lost`). Edges are reported as epoll does: what has been read
since it arrived is not reported. A read that fills the proxy's buffer is not short
and leaves the socket ready.

### Socket and HttpProxy

One proxied request at a time, so the pool holds at most one backend connection:
in use, in the pool, or not there. Its four streams are in (socket to `data_in`),
out (`data_out` to socket), req (`rb_req` to `req_body_in`) and resp
(`resp_body_out` to `rb_resp`). The handler's retries, its backend timer, the
four timers of the client protocol, the queued error message, 100-continue and
the return to the pool are modelled function by function; as in
`HttpServerProto`, the loop delivers events in list order and a stream event is
broken into its rounds. What the client's own connection does is given by the
steps `Client...`; its protocol is `HttpServerProto`.

Backends accept, read, answer at any time after the headers of the request (also
before its body), send in any portions, close in the middle of a response, fail,
or do nothing. Framings: length and final (a content length, with and without
keep-alive), chunked, broken (a chunked body that cannot be decoded), close (the
body ends with the connection) and bad (headers that cannot be parsed).
`HeadParts` is how many pieces come before the end of the headers.

What `resp_body_out_read` may write at a time is exact (`Offered`): what is free in
the ring, up to its end (`nxd_rbuffer_get_write_ptr`). It matters. What came with the
end of the head is written first, and when it is the end of the response too,
`resp_body_out_read` reports the end with whatever part of it the ring has taken
(`Finished`). The unused ring takes all of it, by `RoomAssumption`; if it
offered any number of pieces, `WholeResponse` would not hold.

One assumption is stated and matters. `RoomAssumption`: what the header buffer
holds behind the headers fits into the response's ring (16384 bytes against some
10000, `nxweb_config.h`); otherwise content read along with the headers is
completed too early.

A retry may fail to get a connection (`made`), and `retry_proxy_request` ignores the
result of `start_proxy_request`: the client's request then waits for nobody. That
state is `Abandoned`, and `NeverStalls` names it as its one exception: it does not
refute this hazard, it says that there is no other.

Observed while modelling, without a property of its own: a retry initialises
`rb_req` again and loses what it held; an answer other than 100-continue to an
expecting request is retried and ends in a 504; data behind a 100-continue in
the same read is dropped; the read timer is not renewed while a body arrives.

### SsiPage

A client's request for a page whose content goes through the SSI filter. The
source brings the document in pieces (`Cuts` are the places where a read may
end: inside the opening mark of a directive, at its end, and behind it), the scanner cuts it into text and directives and appends nodes to the
composite stream: text, the value of a variable, or a subrequest. A subrequest
is answered at once, by a worker or by a backend, or it fails. The streamer
reads the nodes in turn and the protocol sends them with short writes. The four
kinds of streams and the order of events in the loop are those of `EventOps`.
The client may read at any pace and may fail; then the tree of connections is
closed unless one of it is in a worker. Subrequests do not have includes of
their own. The end of a chunked response is the flag `ended`.

### SslSocket

The handshake borrows the streams of the socket: `do_handshake` disconnects the
protocol's, connects two stubs, and puts the protocol's back when GnuTLS is done,
from whichever callback got there. GnuTLS is given by how the code uses it: a
script of flights to read and to write; a write that does not fit returns
GNUTLS_E_AGAIN and keeps the record, whose size the next call must repeat. The
socket's readiness is reported by edges, as epoll does. An error is a message that
waits in the loop's list, and the protocol answers it with another, on which the
connection is finalized; the events that are in the list before them are delivered,
so that the stubs are called after the handshake has failed (`handshake_failed`).

### FileCache

Requests for one key, in any number of threads, at the granularity of system
calls: open with O_EXCL, writes, unlink, link, unlink. A file is an inode with
the version it holds and the pieces written so far; a descriptor keeps it alive.
The backend has versions, answers 200 or 304 and may modify the content at any
time; entries expire and are revalidated; a write may fail; the process may die
between any two calls and start again with the files it left.

### Templates

A site is a set of files of tokens; text is white space or not. Loading a file
is a subrequest that is answered in any order, in pieces, or fails before or
after its first piece; parsing it may load more. Parsing, merging and
serializing follow the functions of `templates.c`. The buffers of all loads of a
page share the stream of one `nxb_buffer`, as in the code: what one collects is
thrown away when another starts (`overlap`).

### Dispatch

Handlers are registered in any order of the configurations, then a request
arrives. `nxweb_select_handler` is a function from a state to the set of states
its callbacks may lead to: the filters are initialised, one may rewrite the uri,
the cache key is made, caches are tried, `on_select` accepts, answers, passes on
or fails. The filters run when the response is started, and one may delay it.
A uri is a sequence of segments and a host one of labels.

### ChunkedCodec, ObjectPool, AccessLog

`ChunkedCodec` is the encoder of a response, called with whatever the source has
and a socket that takes any number of bytes, and the decoder that reads the bytes
in any portions; chunk sizes are at most 9, so that they have one digit that is
not 0. `nxweb_decode_chunked`, which decodes a whole buffer, serves as the
reference of the incremental one. `ObjectPool` is the free list that runs through
the chunks. `AccessLog` is the blocks of network threads, the mutex, and the
main thread that closes and opens the file on a signal. The requests of a thread
overlap and are logged in the order in which they complete. A write may fail or fall
short: what is in the file then ends with a torn record, and the rest of the block is
lost; a torn record counts as lost.

## Runs

| run | bounds | shows |
|---|---|---|
| pool_safety | 2 workers (and an address for a third), 2 connections, a queue of 1, shutdown | a job owns its connection (`JobOwnsConnection`); the idle queue holds idle workers (`QueueHoldsIdleWorkers`); no dangling subscription; a completion is always on its way and there are never more than `NXWEB_MAX_WORKERS + 1` workers (`JobsAndWorkersKept`; the comparison in `nxw_get_worker` lets one more through than the constant says); one is lost only with a worker that found the queue full (`LostOnlyIfCrowded`) |
| pool_live | at most 1 worker, 2 connections, a queue with room, shutdown | every request given to a worker comes back (`JobAnswered`; when the queue is full it may not: pool_closed); `nxw_finalize_factory` terminates (`ShutdownJoinsWorkers`) |
| pool_closed | a queue of 1 | **violated**: a completion is lost when the queue is full, and the connection stays for ever |
| parts | ring: 2 producers, 3 slots. Memory cache: 2 threads, 2 keys, room for 1 record. Pool: 3 chunks. Codec: bodies of up to 4 bytes, chunks of 2, up to 6 bytes a write. File cache: 3 requests, 2 versions of 2 pieces, one expiry, one failed write or crash. Templates: 7 sites. Dispatch: 4 handlers in two orders, 72 requests. Log: a thread with 2 requests that overlap and one with 1, blocks of one or two records, a record larger than a block, one restart, writes that fail or fall short | the ring is a bounded FIFO, exact in length, without races on slots (`NoSlotRace`, `LengthExact`, `IsFifo`); the memory cache's counts are exact, its list and table agree, nothing leaks, only used records exceed the limit (`RefCountExact`, `CacheConsistent`); an object of the pool is free or in use, and the free list is what it should be (`PoolSound`); what is decoded is what was encoded (`CodecSound`); what the cache's name leads to is always a whole response (`CachedWhole`), what is served is one version (`ServedWhole`), and no descriptor or temporary file is left over unless a crash left it (`NothingLeft`); a page of templates starts exactly when all its parts are read or have failed (`StartsWhenRead`) and is the page the sources say (`PageMerged`); the first handler that suits gets the request (`FirstMatch`), filters run once and in order (`FiltersOnce`); every completed request is logged once, whole and in the order of its thread, or was given up (`LogExact`) |
| dispatch | the same configurations | **violated**: a request that is passed on while the cache key is made keeps the uri a filter has decoded |
| proto_safety | 2 requests, bodies of 0 to 2 pieces, limit 1, send buffer of 1, 1 retry, early answers | no assertion fails, no lost wake-up, always a timer, completion once, nothing left of a released connection, body bytes never parsed as a request unless a backend answered early |
| proto_buffered | chunked body over the limit | **violated**: the assertion on `content_received` |
| proto_spin | an early answer of a backend | **violated**: the loop spins for ever |
| proxy_safety | 2 requests, bodies of 0 or 2 pieces (one may be sent while the other is still to come), responses of 2, 1 retry, rings of 1, send buffer of 1; all framings but those that exclude keep-alive | no assertion fails, always a timer while somebody waits, no lost wake-up, the pool is clean, the client gets its own response, and all of it, and the body of a request goes to one backend only |
| proxy_close | a response of 3 pieces that ends with the connection | **violated**: when the close is noticed before all has been read, the rest is dropped and the response is reported as complete |
| live | protocol: 1 request of every kind, no early answers (which proto_spin refutes) and no retries (see what is observed below); proxy: 1 request, 1 retry, a response that ends with the connection; page: 3 documents, reads cut at 5 places, includes answered in 3 ways, a send buffer of 1 piece, 1 failure of the client; TLS: a handshake of 3 flights, a send buffer smaller than a flight | every request, proxied request, page and TLS connection ends (`RequestEnds`); the page is cut into the nodes its document says whatever the reads (`NodesMatchDocument`), its pieces go out in order and it ends when all have (`PageInOrder`), no node waits for nobody (`PageFlows`); no handshake is tried after it has ended or failed and records are neither lost nor repeated (`TlsSound`) |
| page_worker | a HEAD request for a page with two includes | **violated**: the connection of an include is freed while its worker runs |

**Bounds.** Two workers and two connections are enough for a worker to be reused
before its completion is consumed and for two jobs to run at once; queue sizes
are chosen so that the queue is full, empty and above the idle limit. The code allows
more workers (512) than the queue takes (128), so all safety properties are checked
with a queue that is too small for the workers. Three
slots make the ring wrap. In the cache, room for one record with two keys and
two threads makes eviction meet referenced records and two threads store the
same key. Two requests on a connection show what the first leaves to the second;
a send buffer of one piece makes every write short at some time. In the
protocol a bound of 2 on the rounds is enough to relink a stream; in the proxy
the rings fill or drain first, whatever the bound. In the proxy two requests show
what the first exchange leaves on a pooled connection; one retry shows the second
attempt and its failure.

`RequestEnds` counts a request that is `Abandoned`, by the proxy or in
`HttpServerProto`, as over: it ends with the client's patience.

In the file cache three requests are a writer, one that meets the temporary file
and one that serves the old file while it is replaced. The bodies of the codec
hold CR, LF and digits, the bytes of the framing. The sites of the templates are
two levels of inheritance, two parents, self-inheritance, nesting that is too
deep, and a file that is too large. The documents of the page have adjacent
includes, a directive nobody knows, a `<` that opens nothing, a variable echoed
before and after it is set, and a directive the size limit cuts off.

**Fairness.** Threads that can run do run (weak fairness of the network thread
and of each worker); job functions return; time passes, so that a timer that
stays set expires; a backend answers or its timeouts end the request. In the proxy
the client reads what it is sent (its own timers are in `HttpServerProto`) and
nothing is assumed of backends; weak fairness of `NetStep` is written out with
`NetReady`, its enabling condition. In the
page and in TLS the client reads and goes on unless it fails; this is weak
fairness of all steps but failures, also written out with its enabling
condition (`CanProgress`, `SslCanProgress`), since in `MCLive` one formula
serves for the part that runs. Nothing is
assumed of clients, signals or spurious wake-ups otherwise: `RequestEnds` holds for a
client that stops at any point, because a timer runs.

**Deadlock** is checked in the runs of the worker pool, the protocol and the
proxy, where the end of the network thread and of a connection are stuttering
actions. In `MCParts` and `MCLive` every part may really come to its end (a body
has been decoded, all records are logged), and `CHECK_DEADLOCK` is off; there the
liveness property or the invariants say that the end is the right one.

## Proofs

TLC shows a property on a small instance, TLAPS proves it for every value of the
constants that the `ASSUME`s of the modules admit. Each proof module extends the
module it is about (`ServerProofs`, `StructuresProofs` and `CachesProofs`: two or three) and has the same shape:
lemmas about the operators, one lemma for each action with one step for each
conjunct it can disturb, the inductive invariant as a theorem, and the properties
of the runs as its consequences.

| module | theorems | property of the runs |
|---|---|---|
| `ServerProofs` | `TypeCorrect`, `Invariant`, `JobSafe`, `QueueSafe`, `SubscriptionSafe` | `TypeOK`, `JobOwnsConnection`, `QueueHoldsIdleWorkers`, `NoDanglingSubscription` |
| | `WorkerLimit`, `CompletionsArrive`, `LossIsCrowding` | `JobsAndWorkersKept`, `LostOnlyIfCrowded` |
| | `DispatchInvariant`, `FirstHandlerGets`, `FiltersRunOnce` | `FirstMatch`, `FiltersOnce` |
| `StructuresProofs` | `RingInvariant`, `SlotsNotShared`, `LengthIsExact`, `RingImplementsFifo` | `NoSlotRace`, `LengthExact`, `IsFifo` |
| | `PoolInvariant`, `PoolTypeCorrect`, `PoolIsSound` | `PoolSound` |
| | `LogInvariant`, `LogIsExact` | `LogExact` |
| `CachesProofs` | `MemInvariant`, `ReferencesCounted`, `CacheAgrees` | `RefCountExact`, `CacheConsistent` |
| | `FileInvariant`, `CacheHoldsWholeFiles`, `ClientsGetWholeVersions`, `RequestsLeaveNothing` | `CachedWhole`, `ServedWhole`, `NothingLeft` |
| `EventOpsProofs` | lemmas about the operators of the loop | |
| `SslSocketProofs` | `SslInvariant`, `TlsIsSound` | `TlsSound` |
| `HttpServerProtoProofs` | `LoopInvariant`, `RulesHold`, `NothingStalls` | `LoopRulesHold`, `NeverStalls` |
| `HttpProxyProofs` | `ProxyInvariant`, `BodyGoesOnce`, `NoWakeUpLost`, `RequestNeverStalls` | `BodySentOnce`, `NeverStalls` |
| `HttpProxyWireProofs` | `WireInvariant`, `ReuseIsClean`, `ResponseIsWhole`, `BuffersHold` | `CleanReuse`, `WholeResponse`, `TypeOK` |

**Worker pool.** `JobOwnsConnection` is not inductive: that a busy connection is not released
depends on `in_worker`, which the network thread sets after it has started the
worker and clears before the job may be done. `IInv` adds: an active worker's
connection has `in_worker`, or the network thread spins on its `worker_job_done`
(`ActiveInv`); a subscription implies `in_worker` and an existing worker
(`SubscriptionInv`); queued events fit the phase of their connection
(`EventInv`); and what the handlers of several steps hold between the steps
(`HandlerInv`), in particular that a worker popped from the queue is idle and
nowhere in the queue until it is started. TLC has checked it under the constants of
`MCWorkerPool_safety.cfg`; the run states what follows from it.

`JobsAndWorkersKept` needs more (`KeptInv`). A worker returns to the queue before
the network thread has consumed its completion, so the collection of idle
workers may dismiss it first; its eventfd is nevertheless read before the next
collection destroys it, since the loop publishes `GcEvent` only when `epoll_wait`
has reported nothing (`GcInv`). `CompletionsArrive` is for every limit on workers and
every size of the queue: `NXWEB_MAX_WORKERS` (512) exceeds what the queue (128)
takes, and a worker that finds it full leaves, whereupon the collection may destroy it
before its completion has been read. `LossIsCrowding` proves that a completion is
lost in no other way: the subscription of a connection in a worker goes only with
a worker that left by itself, and a worker leaves by itself only when it finds the
queue full. `WorkerLimit` bounds the workers by `MaxWorkers + 1`, because the code
refuses one only when `worker_count` exceeds `NXWEB_MAX_WORKERS`.

**Ring.** `RingInv` holds at every interleaving of one consumer with producers
that share a mutex. A producer that has tested for room keeps it, because only it
moves the tail; likewise the consumer. Arithmetic modulo `max_items` is done once,
in the lemmas about `Occupied`; `RingImplementsFifo` maps each step to a step
of `BoundedFifo` or to a stutter.

**Memory cache.** `MemInv` adds to the two properties that a record that is being
made is alive, unlinked, unreferenced and known to one thread (`RequestInv`), and
that a record is found under its own key. `Threads` is assumed to be finite: a
reference count is the number of threads that hold a record.

**Object pool.** The list of free objects is a chain (`IsList`): a sequence
without repetition whose neighbours are those of `next` and `prev`. Each
operation on the list, at its beginning, its end or inside it, is a lemma about
chains, for any objects and pointers. `nxp_gc` unlinks every object of the last
chunk in a loop; that, and that the walk of `ListAt` yields the chain, is
proved by induction over a set of numbers.

**Access log.** `LogInv` follows a record from the request that completes, through the
block of its thread (`BlockInv`: records end to end, `ptr` and `avail` agree) and the block
being flushed, into the file that is open, which is always the last one (`FilesInv`).
Records are numbered as their requests complete, whichever began first. `OrderInv` says
that each stage holds older records of the thread than the next, and
`NumbersInv` that they are all there but for those given up; what a short write has cut
off, and the record it has torn, are given up. That threads share the
files does not matter, since a flush only adds records of its own thread (`OtherThread`).

**File cache.** `FileInv` says which request owns the temporary name (`TmpInv`),
that nobody else can reach a file before it is linked (`HiddenInv`), that what can
be reached is whole (`WholeInv`), what each client has got (`OutInv`) and which
descriptors are open (`FdInv`), with failures and a crash at any step. The versions
and the number of pieces are arbitrary; time is bounded by `MaxTime > 0`.

**Dispatch.** `DispatchInv` relates three places of the code. Registration keeps
the list in the order of `Before` and complete (`ListInv`), whichever place
`PlaceOf` finds. The dispatcher has left behind only handlers that do not suit the
request *as it came*, or that have passed it on (`TriedInv`); `FirstMatch` follows,
since the list is a permutation in order. The filters that have run are those
between the cache that served the response and `run_filter_idx` (`RanInv`), so that
a resumed run neither repeats nor skips one. The lemmas about
`nxweb_select_handler` follow its stages: each way out of it passes the request on,
chooses the handler, or ends the dispatching with a response or an error. That the
request is then as it came is not among them: `FieldsRestored` is refuted by TLC,
and `FirstMatch` holds all the same.

**Event operators and TLS.** `EventOpsProofs` shows that each operator of the loop
(ready and not ready, connect, disconnect) keeps `LoopOK`: the events of a
stream are in the loop's list once, only connected streams have one there, and no
assertion is tripped. `SslInv` adds which streams are connected in which phase
of the handshake (`HandshakeInv`), and that the record kept for resumption, the
offset and what is on the wire agree (`SendInv`): after `GNUTLS_E_AGAIN`, the
same bytes are sent again before any other. It holds from a failure to the moment the
connection is finalized, whatever is delivered between: the invariant knows that
`handshake_failed` keeps the stubs connected. Scripts of the handshake and sizes are
arbitrary.

**HTTP server protocol.** `LoopRulesHold` and `NeverStalls` are both consequences of
one inductive invariant, `LoopInv` (at the end of `HttpServerProto`). Neither can be
proved from the other's facts alone: that no timer is set twice needs to know which
timer belongs to which state, that a connection is watched needs to know which
message is still in the list, and what a message means depends on the handler. So
`Connected(c, cur)` says what fits together, and is the conjunction of

- `ListInv`: a stream's event is in the list once, and only while the stream is
  connected; `received`, `body` and `complete` are in the list in this order,
  each once. Without the order, `body` could be delivered before `received` has
  chosen a handler, and `complete` before either.
- `MessagesInv`: a message in the list fits the state until it is delivered. After
  `request_complete` nothing may make the output ready again, or the response
  would be completed twice.
- `HandlerInv`: what the handler has begun (worker, proxy, receiver of the body,
  source of the content) fits the state.
- `TimersFit`: a timer that is set is the one of the state. This is what the
  assertion of `nxe_set_timer` rests on.
- `OutputInv`: the output waits for the socket or for the content, never for both.
- `Woken(c, cur)`: a stream whose two ends are ready has its event in the list,
  except the one whose event is being delivered: its round ends by testing both
  flags again.

`Attended` is the other half: the timer of the state is set, or its end is in the
list, or a worker or the proxy has the request. The lemmas go from the operators
of the loop (`EventOpsProofs`) over the callbacks of the protocol
(`ContentWritten`, `BodyRead`, `HeadersRead`, `RequestIsReceived`, `CleanedUp`...)
to one lemma for each action; a callback that calls another one cites its lemma,
as the code calls the function. Sizes, numbers of requests and pieces, limits,
kinds, retries and `LoopGuard` are arbitrary; a request whose handler is `lost` is the
proxy's `Abandoned`. TLC has checked `LoopInv` as an invariant
under the constants of `MCHttpServerProto_safety.cfg` (5.3 million states); the run
leaves it out, since it takes half as long again.

**HTTP proxy.** `BodySentOnce` and `NeverStalls` follow from one inductive invariant,
`ProxyInv` (at the beginning of `HttpProxyProofs`). It distinguishes the two lives of the
backend connection:

- `NoneInv`, while there is none: no stream is connected, no timer runs, epoll has
  nothing to report and the backend nothing to send, and no message of the old
  connection is in the loop's list. Without it, an `error` of the connection that
  failed could be delivered to the one that replaces it.
- `WatchInv`, while there is one: the timer of its state is set, or an error is in
  the list, or the handler has all it wants. The second half is about the pool: a
  connection in use that is idle without its keep-alive timer has failed, and the
  handler is told (`error`) *before* the end of the request can return the
  connection (`Sure`: in the list, the error is not behind the client's end).
- `StateInv`: the flags that tell the states of the client protocol apart.
- `FlowInv`: every stream whose two ends are ready is in the list, except the one that
  is being delivered. There is one more exception, from `data_out_do_write`: it makes
  `req_body_in` ready without linking it, because it reads the ring itself; so `req`
  may be carried by `out` as long as `out` can move. When `out` stops, the flag is
  taken back. This is the part that `NoLostReadiness` alone does not say, and that every
  callback of the sending side has to restore.
- `PlaceInv`: which phases of the request and places of the connection go together.
- `BodyInv`: a connection that has got a piece of the body is this one, and
  `req_body_sending_started` is set, so that `retry_proxy_request` is not reached.

`RequestNeverStalls` has no hypothesis on retries. In the code, a retry for which
`nxd_http_proxy_pool_connect` fails returns without an answer to the client;
`PlaceInv` and `NoneInv` say what is then left: no stream, no timer and no message, which
is `Abandoned`. A request that waits without a backend connection is always such a
one. The lemmas follow the call graph of
`nxd_http_client_proto.c`: operators of the loop, then what a callback leaves
alone (`Calm`, `Quiet`, `Round`, three degrees of it), the callbacks of
sending, of receiving, the messages to the handler, timers, the pool and the retry,
and one lemma for each group of actions. All sizes, counts and framings are arbitrary. TLC has
checked `ProxyInv` as an invariant under the constants of both configurations.

`ProxyInv` is about who waits for whom. `CleanReuse`, `WholeResponse` and the
counts in `TypeOK` follow from a second invariant, `WireInv` (at the beginning of
`HttpProxyWireProofs`), inductive together with `ProxyInv`. It is about what the backend
has said and nobody has read, whether it is in the buffer for the head, on the
wire or still to be sent (`Unread`):

- `UnreadInv`: while an answer is awaited, `Unread` is *announced*: the head of a
  response answers the request that was sent last, what is behind it is the body
  its framing announces (`Behind`), and "100 Continue" comes first or not at all, and
  only if it is waited for. While the body is received, what is on the wire is the rest
  of it, counted from the pieces received and those that came with the head
  (`first_body_chunk`). When a response is complete, nothing is left on the wire, which is
  why a connection may be returned to the pool.
- `OweInv`: a backend that has still to answer has said nothing but "100 Continue",
  and it does so only after the head of the request.
- `BufferInv`: what has been read of a head has no end yet, and what came behind a
  head is the first that goes into the ring, which is empty.
- `ResponseInv`: the response belongs to the request, its end is reported on an idle
  connection only, and what the pool has is keep-alive, with its buffer returned.
- `ClockInv` and `NewsInv`: the timers that run are those of the state, and the news of
  a response is delivered before its connection can be used again.
- `BoundInv`, `CountInv`: the limits and the types.

No induction over the pieces is needed: `Announced` and `Behind` speak of positions
in a sequence, and a read or a step of the backend shifts or cuts it
(`BehindMoves`, `BehindCut`, `AnnouncedMoves`, `AnswerAnnounced`). Every call of the
protocol keeps the invariant (lemmas `Sound...`, along the call graph), and so every
action (lemmas `Wire...`). TLC has checked `WireInv` as an invariant under the
constants of both configurations, also with rings of 2 pieces.

Some definitions are written so that they can be reasoned about: removal from a
list (`ListWithout`, `nxe_unlink`, `nxe_unsubscribe`), the order in which filters run (`InOrder`)
and the steps of the handshake are no recursive operators, but sets, `CHOOSE` and
functions; where a proof has to follow a loop, it uses `SetInduction`, which is
derived from the well-foundedness of `<` on numbers.

**Only model-checked.** Liveness (`JobAnswered`, `ShutdownJoinsWorkers`,
`RequestEnds` and the ends of `MCLive`), which rests on fairness. What
recursive definitions and folds compute: `CodecSound`, `StartsWhenRead`, `PageMerged`
and `NodesMatchDocument`. Of `HttpServerProto`, `Framed` and the parts of
`TypeOK` that count (the room of the socket, the requests answered, the rounds).
Of `HttpProxy`, `AssertionsHold`, which depends on the sizes: the ring must be full before the rounds of a delivery reach
`LoopGuard`, as 16384 bytes and 50 rounds are. The SSI page, whose invariants (`PageFlows`,
`PageInOrder`) compare the nodes of the streamer with the document. The bounds
in `SslTypeOK` on what has been received.

## Observed while modelling

Three formulas of the modules that the code does not satisfy. No run is devoted to
them; TLC refutes each within seconds when it is added to the configuration named.

- `FramedAlways` of `HttpServerProto` (added to `MCHttpServerProto_spin.cfg`): when a
  backend answers before it has the body, or `fail_proxy_request` answers 504
  (`http_proxy.c:182`), the connection is kept alive and the rest of the body is
  parsed as the client's next request. `http_server.c:465` and `474` close the connection
  in this case "if there is body pending", but only for answers given before the body
  is awaited. `Framed`, which is checked, is `FramedAlways` without such answers.
- `RefusedByWriter` of `FileCache` (added to `MCParts.cfg`, with `Running = {"files"}`):
  what a crash leaves is a temporary file, which keeps its key from being cached for ever,
  though no request has it open (`file_cache_filter.c:106`). `NothingLeft`, which is
  checked, leaves the crash out.
- `RequestEnds` of `HttpServerProto` (`MCHttpServerProto_spin.cfg` with
  `EarlyResponse = FALSE`, `Retries = 1`, `BodySizes = {2}`): a retry after the whole
  body has come, with a body that has just filled the proxy's buffer, makes `data_in`
  ready again in the state that handles the request (`http_proxy.c:141`,
  `nxd_http_server_proto.c:646`), where nobody reads it, and the loop spins as in
  `proto_spin`.

What has no formula:

- `_nxweb_call_request_finalizers` clears `on_complete` in the handler, which all
  requests share, not in the request.
- A connection that could not be closed because a *subrequest* was in a worker is
  not closed when that worker completes: `ClosedAfterWorkers` of `SsiPage` fails
  with one failure of the client. It is the comment of `http_server.c:660` again,
  which `pool_closed` refutes for connections without subrequests.
- A slower, older response may replace a
  newer cached one, and the `utime` after a 304 goes by name and may touch
  another version than the one revalidated.
- Two template parts that are collected at once share a stream: one throws away
  what the other has (`PageMerged` holds for pages where this has not happened).
  The time of a part that failed does not count in `last_modified`.
- An SSI page without content does not pass on its end.
- The prefix `/` matches nothing but the root.
- While the log is restarted, a thread that looks at the descriptor without the
  mutex sees it closed and omits the fragment of that request; the signal handler
  takes a mutex that the interrupted main thread may hold.
- `http_server.c:158-165` cannot be reached.

## Not modelled

- Byte buffers and the file reader: sequential, without waiting; what they promise
  is assumed.
- The retry of `accept` by a timer, listening sockets, start-up, diagnostics,
  configuration, daemon, MIME types and other helpers: straight-line code or
  system calls in a row.
- What image, gzip, CORS and draw filters do to the content, the Python module,
  GnuTLS: external libraries do the work. Their place in the chain of filters is
  in `Dispatch`.
- Parsing of headers, parameters and cookies; formatting: string processing.
- Pipelined requests, subrequests of subrequests, more than one proxied request
  at a time; which fields a late response overwrites.
- The event loop by itself: publish and unsubscribe with events pending are
  modelled only as its users meet them.

## Plan

1. `HttpServerProto`: `Framed` and `TypeOK` on top of `LoopInv`. `Framed` adds what the
   pieces that are still to be read belong to: the head of a request, the body that
   is awaited (`chunk`, `received`), or the rest of one that nobody reads, as
   `WireInv` does for the responses of backends.
2. `HttpProxy`: `AssertionsHold` on top of `WireInv`, under an assumption that relates
   `RbufSize` and `LoopGuard`.

Out of the prover's reach and left to TLC: liveness under fairness
(`JobAnswered`, `ShutdownJoinsWorkers`, `RequestEnds`), and what recursive
definitions compute for every input (`CodecSound`, `PageMerged`,
`NodesMatchDocument`).
