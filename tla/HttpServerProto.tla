--------------------------- MODULE HttpServerProto ---------------------------
(***************************************************************************)
(* One client connection: the HTTP server protocol of                      *)
(* nxd_http_server_proto.c between its socket (nxd_socket.c), the          *)
(* dispatcher and the handlers (http_server.c), the buffers for bodies     *)
(* (nxd_buffer.c) and the event loop (nx_event.c, module EventOps).        *)
(*                                                                         *)
(* Four streams: "in" from the socket to hsp.data_in, "out" from           *)
(* hsp.data_out to the socket, "rb" from hsp.req_body_out to the receiver  *)
(* of the request body, "cb" from resp.content_out to hsp.resp_body_in.    *)
(* A handler is one of three kinds: "sync" answers in the network thread,  *)
(* "worker" in a worker thread (module WorkerPool), "proxy" streams the    *)
(* body to a backend and the response from it.                             *)
(*                                                                         *)
(* Data.  What the client sends is a sequence of pieces: the first part of *)
(* the headers, their end, pieces of the body.  A response is one piece of *)
(* headers and a number of pieces of content.  The client does not         *)
(* pipeline: it starts a request when it has the last response.            *)
(***************************************************************************)
EXTENDS Socket

CONSTANTS MaxRequests,   \* requests the client makes
          MaxBody,       \* NXWEB_MAX_REQUEST_BODY_SIZE, in pieces
          BodySizes,     \* sizes of request bodies the client sends
          Kinds,         \* kinds of requests the client sends
          MaxHeaders,    \* NXWEB_MAX_REQUEST_HEADERS_SIZE, in pieces
          TxRoom,        \* pieces the socket's send buffer holds
          LoopGuard,     \* the 50 of stream_event_deliver
          EarlyResponse, \* whether a backend may answer before it has the body
          Retries        \* NXWEB_PROXY_RETRY_COUNT

ASSUME ProtoAssumption ==
  /\ MaxRequests \in Nat /\ MaxBody \in Nat /\ MaxHeaders \in Nat /\ TxRoom \in Nat
  /\ LoopGuard \in Nat /\ Retries \in Nat
  /\ BodySizes \subseteq Nat
  /\ Kinds \subseteq {"plain", "close", "expect", "chunked", "broken", "malformed", "oversized"}
  /\ EarlyResponse \in BOOLEAN

VARIABLES
  c,       \* the connection and its share of the event loop
  cur,     \* the stream whose event is being delivered, or "none"
  rounds,  \* rounds of the loop in stream_event_deliver
  edge,    \* what epoll has to report of the socket
  pend,    \* pieces the client has still to send
  begun    \* requests the client has begun

vars == <<c, cur, rounds, edge, pend, begun>>

Streams == {"in", "out", "rb", "cb"}
Timers == {"keep_alive", "read", "write"}
Messages == {"data_error", "error", "received", "body", "complete"}
Sending == {"SENDING_HEADERS", "SENDING_BODY"}
MaxRead == 16   \* more than there is to read

(* Pieces.  The end of the headers tells the size and kind of the request. *)
First == [piece |-> "first", size |-> 0, kind |-> "plain"]
Last(n, k) == [piece |-> "last", size |-> n, kind |-> k]
Body == [piece |-> "body", size |-> 0, kind |-> "plain"]
NoRequest == [size |-> 0, kind |-> "plain"]

(* nxweb_http_server_connection_init and _connect.                         *)
Init ==
  /\ c = [state |-> "WAITING_FOR_REQUEST",
          timers |-> {"keep_alive"}, expired |-> {}, events |-> <<>>,
          is |-> [x \in Streams |-> FALSE],
          os |-> [x \in Streams |-> x \in {"in", "cb"}],
          pair |-> {"in", "out"},
          tripped |-> FALSE, freed |-> FALSE,
          wire |-> <<>>,         \* received by the kernel, not yet read
          rdclosed |-> FALSE,    \* the client has closed its end
          room |-> TxRoom,       \* free pieces of the send buffer
          nxb |-> FALSE,         \* hsp->nxb # 0
          head |-> <<>>,         \* the headers read so far
          chunk |-> 0,           \* pieces from first_body_chunk to its end
          req |-> NoRequest,
          received |-> 0,        \* req.content_received
          sink |-> "none",       \* who reads the body: "ibuf" or "proxy"
          stored |-> 0,          \* ib->data_size
          handler |-> "none",
          retry |-> 0,           \* rdata->retry_count of the proxy; Retries when it may not retry
          continue |-> FALSE,    \* req.sending_100_continue
          headers |-> FALSE,     \* resp_headers_ptr: there is something to send
          keep_alive |-> TRUE,   \* resp->keep_alive, kept until the next request
          has_body |-> FALSE,    \* a body follows the response headers
          avail |-> 0,           \* pieces of content the source has
          eof |-> FALSE,         \* the source will have no more
          rest |-> 0,            \* pieces the backend will still send
          in_worker |-> FALSE, closing |-> FALSE,
          early |-> FALSE,       \* a backend has answered before it had the body
          answered |-> 0]        \* responses sent completely
  /\ cur = "none" /\ rounds = 0 /\ edge = {"out"}
  /\ pend = <<>> /\ begun = 0

HasBody(s) == s.req.size # 0

-----------------------------------------------------------------------------
(* Sending the response.                                                   *)

(* Mutant of request_complete: the write timer is left running.            *)
CompleteKeepsTimer(s) ==
  LET u == nxe_disconnect_streams(nxe_disconnect_streams(nxe_istream_unset_ready(s, "out"), "cb"), "rb")
  IN  nxe_publish([u EXCEPT !.answered = @ + 1], "complete")

(* request_complete                                                        *)
request_complete(s) ==
  LET t == nxe_unset_timer(nxe_istream_unset_ready(s, "out"), "write")
      u == nxe_disconnect_streams(nxe_disconnect_streams(t, "cb"), "rb")
  IN  nxe_publish([u EXCEPT !.answered = @ + 1], "complete")

(* Mutant of resp_body_in_write: the write timer is not set again.         *)
WriteWithoutTimer(s) ==
  IF s.state # "SENDING_BODY"
  THEN nxe_istream_set_ready(nxe_ostream_unset_ready(s, "cb"), "out")
  ELSE
  LET n == Sent(s, s.avail)
      t == sock_data_send_write(nxe_unset_timer(s, "write"), s.avail)
      u == IF s.avail > 0 /\ ~ t.os["out"]
           THEN nxe_istream_set_ready(nxe_ostream_unset_ready(t, "cb"), "out") ELSE t
      v == IF s.eof /\ n = s.avail THEN request_complete(u) ELSE u
  IN  [v EXCEPT !.avail = @ - n, !.is["cb"] = @ /\ (s.avail > n \/ s.eof)]

(* resp_body_in_write_or_sendfile of what the source has; afterwards the   *)
(* source accounts for what was sent (obuffer_data_out_do_write,           *)
(* nxd_rbuffer_read).                                                      *)
resp_body_in_write(s) ==
  IF s.state # "SENDING_BODY"
  THEN nxe_istream_set_ready(nxe_ostream_unset_ready(s, "cb"), "out")
  ELSE
  LET n == Sent(s, s.avail)
      t == sock_data_send_write(nxe_unset_timer(s, "write"), s.avail)
      u == IF s.avail > 0 /\ ~ t.os["out"]
           THEN nxe_istream_set_ready(nxe_ostream_unset_ready(t, "cb"), "out") ELSE t
      v == IF s.eof /\ n = s.avail THEN request_complete(u) ELSE nxe_set_timer(u, "write")
  IN  [v EXCEPT !.avail = @ - n, !.is["cb"] = @ /\ (s.avail > n \/ s.eof)]

(* The source of a response: none, a buffer, or the backend's response, of *)
(* which the proxy has "ready" pieces.                                     *)
NoSource == [content |-> FALSE, ready |-> 0, eof |-> TRUE, rest |-> 0]
Buffer == [content |-> TRUE, ready |-> 1, eof |-> TRUE, rest |-> 0]
Backend(ready) == [content |-> TRUE, ready |-> ready, eof |-> FALSE, rest |-> 2 - ready]

(* nxd_http_server_proto_start_sending_response.  body: the response has a *)
(* content length and the method is not HEAD.                              *)
start_sending_response(s, src, body) ==
  IF s.state \notin {"RECEIVING_HEADERS", "RECEIVING_BODY", "HANDLING"} THEN s ELSE
  LET t == nxe_unset_timer(s, "read")
      u == [t EXCEPT !.has_body = body, !.avail = src.ready, !.eof = src.eof,
                     !.rest = src.rest, !.is["cb"] = src.ready > 0, !.headers = TRUE]
      v == IF src.content THEN nxe_connect_streams(u, "cb") ELSE u
      w == IF s.continue THEN v ELSE nxe_istream_set_ready(v, "out")
  IN  nxe_set_timer([w EXCEPT !.state = "SENDING_HEADERS"], "write")

(* nxweb_send_http_error gives the response a content.                     *)
SendError(s) == start_sending_response(s, Buffer, TRUE)

(* data_out_do_write in the state SENDING_BODY.                            *)
WriteBody(s) ==
  IF "cb" \notin s.pair THEN nxe_istream_unset_ready(s, "out") ELSE
  LET t == IF s.is["cb"] THEN resp_body_in_write([s EXCEPT !.os["cb"] = TRUE]) ELSE s
  IN  IF t.is["cb"] THEN t
      ELSE nxe_ostream_set_ready(nxe_istream_unset_ready(t, "out"), "cb")

(* data_out_do_write once "100 Continue" is out of the way.                *)
WriteResponse(s) ==
  LET t == nxe_set_timer(nxe_unset_timer(s, "write"), "write")
      size == IF t.headers THEN 1 ELSE 0
      u == [sock_data_send_write(t, size) EXCEPT !.headers = @ /\ Sent(t, size) # size]
  IN  CASE s.state = "SENDING_BODY" -> WriteBody(t)
        [] s.state = "SENDING_HEADERS" /\ u.headers -> u
        [] s.state = "SENDING_HEADERS" /\ ~ u.headers /\ ~ s.has_body -> request_complete(u)
        [] s.state = "SENDING_HEADERS" /\ ~ u.headers /\ s.has_body ->
             WriteBody([u EXCEPT !.state = "SENDING_BODY"])
        [] OTHER -> nxe_istream_unset_ready(t, "out")

data_out_do_write(s) ==
  IF ~ s.continue THEN WriteResponse(s) ELSE
  LET t == sock_data_send_write(s, 1)
      u == [t EXCEPT !.continue = FALSE]
  IN  CASE Sent(s, 1) = 0 -> t
        [] Sent(s, 1) # 0 /\ s.state = "SENDING_HEADERS" -> WriteResponse(u)
        [] OTHER -> nxe_istream_unset_ready(u, "out")

-----------------------------------------------------------------------------
(* Receiving the body of the request.                                      *)

is_request_body_complete(s) ==
  HasBody(s) /\ s.received >= s.req.size /\ s.req.kind # "broken"

(* n pieces pass: they are counted, and decoded if the body is chunked.    *)
Count(s, n) ==
  LET t == [s EXCEPT !.received = @ + n]
  IN  IF s.req.kind = "broken" /\ n > 0 THEN nxe_publish(t, "error") ELSE t

BodyReceived(s) ==
  LET t == [nxe_publish(s, "body") EXCEPT !.state = "HANDLING"]
  IN  nxe_istream_unset_ready(nxe_ostream_unset_ready(t, "in"), "rb")

(* req_body_out_read of up to size pieces: what the headers' last read has *)
(* brought, then the socket.                                               *)
req_body_out_read(s, size) ==
  CASE s.state = "HANDLING" -> nxe_istream_unset_ready(s, "rb")
    [] s.state \notin {"HANDLING", "RECEIVING_BODY"} ->
         nxe_ostream_set_ready(nxe_istream_unset_ready(s, "rb"), "in")
    [] s.state = "RECEIVING_BODY" ->
         LET n == Minimum(s.chunk, size)
             t == Count([nxe_unset_timer(s, "read") EXCEPT !.chunk = @ - n], n)
             u == sock_data_recv_read(t, size - n)
             v == Count(u, Len(t.wire) - Len(u.wire))
             w == IF u.is["in"] THEN v
                  ELSE nxe_ostream_set_ready(nxe_istream_unset_ready(v, "rb"), "in")
         IN  CASE n > 0 /\ is_request_body_complete(t) -> BodyReceived(t)
               [] ~ (n > 0 /\ is_request_body_complete(t)) /\ size = n ->
                    nxe_set_timer(t, "read")
               [] ~ (n > 0 /\ is_request_body_complete(t)) /\ size > n ->
                    IF is_request_body_complete(w) THEN BodyReceived(w)
                    ELSE nxe_set_timer(w, "read")

(* ibuffer_data_in_do_read: the buffer takes what the content length says, *)
(* a chunked body up to the limit; when full it swallows the rest.         *)
Capacity(s) == IF s.req.kind \in {"chunked", "broken"} THEN MaxBody ELSE s.req.size
ibuffer_do_read(s) ==
  LET full == s.stored >= Capacity(s)
      t == req_body_out_read(s, IF full THEN MaxRead ELSE Capacity(s) - s.stored)
      u == IF full THEN t ELSE [t EXCEPT !.stored = @ + t.received - s.received]
  IN  IF t.state = "HANDLING" THEN nxe_ostream_unset_ready(u, "rb") ELSE u

(* rbuffer_data_in_do_read of the proxy; full: one more piece fills the    *)
(* buffer, so that the read is not short.                                  *)
rbuffer_do_read(s, full) ==
  LET t == req_body_out_read(s, IF full THEN 1 ELSE MaxRead)
  IN  IF full /\ t.received > s.received THEN nxe_ostream_unset_ready(t, "rb") ELSE t

sink_do_read(s, full) == IF s.sink = "ibuf" THEN ibuffer_do_read(s) ELSE rbuffer_do_read(s, full)

-----------------------------------------------------------------------------
(* Receiving the headers: data_in_do_read.                                 *)

BadRequest(s) ==
  LET t == nxe_ostream_unset_ready(nxe_unset_timer(s, "read"), "in")
  IN  SendError([t EXCEPT !.keep_alive = FALSE])

(* The headers h are complete: their last piece is h[p].                   *)
RequestReceived(s, h, p) ==
  LET t == [s EXCEPT !.req = [size |-> h[p].size, kind |-> h[p].kind],
                     !.chunk = Len(h) - p,
                     !.keep_alive = h[p].kind # "close"]
      u == IF t.chunk = 0 /\ h[p].kind = "expect"
           THEN nxe_istream_set_ready([t EXCEPT !.continue = TRUE], "out") ELSE t
      v == nxe_publish(nxe_ostream_unset_ready(u, "in"), "received")
  IN  IF HasBody(v)
      THEN nxe_istream_set_ready([v EXCEPT !.state = "RECEIVING_BODY"], "rb")
      ELSE nxe_unset_timer([v EXCEPT !.state = "HANDLING"], "read")

ReadHeaders(s) ==
  LET t == sock_data_recv_read(s, MaxHeaders - Len(s.head))
      n == Len(s.wire) - Len(t.wire)
      h == s.head \o SubSeq(s.wire, 1, n)
      u == [t EXCEPT !.head = h]
      ends == {i \in 1 .. Len(h) : h[i].piece = "last"}
      p == CHOOSE i \in ends : \A j \in ends : i <= j
  IN  CASE n = 0 -> t
        [] n > 0 /\ ends = {} -> IF Len(h) >= MaxHeaders THEN BadRequest(u) ELSE u
        [] n > 0 /\ ends # {} ->
             IF h[p].kind = "malformed" \/ h[1].piece # "first"
             THEN BadRequest(u) ELSE RequestReceived(u, h, p)

(* The first bytes of a request: a buffer, and the read timer for all of   *)
(* the headers instead of the keep-alive timer.                            *)
BeginRequest(s) ==
  LET t == [s EXCEPT !.nxb = TRUE, !.tripped = @ \/ s.nxb, !.state = "RECEIVING_HEADERS"]
  IN  nxe_set_timer(nxe_unset_timer(t, "keep_alive"), "read")

data_in_do_read(s, full) ==
  LET t == IF s.os["rb"] THEN sink_do_read(s, full) ELSE s
  IN  CASE s.state = "WAITING_FOR_REQUEST" -> ReadHeaders(BeginRequest(s))
        [] s.state = "RECEIVING_HEADERS" -> ReadHeaders(s)
        [] s.state = "RECEIVING_BODY" /\ "rb" \in s.pair ->
             IF t.os["rb"] THEN t
             ELSE nxe_istream_set_ready(nxe_ostream_unset_ready(t, "in"), "rb")
        [] s.state = "RECEIVING_BODY" /\ "rb" \notin s.pair ->
             nxe_ostream_unset_ready(s, "in")
        [] OTHER -> s

-----------------------------------------------------------------------------
(* The connection (http_server.c).                                         *)

(* request_cleanup: release the request, wait for the next one or shut the *)
(* socket down for writing.                                                *)
request_cleanup(s) ==
  LET t == nxe_disconnect_streams(s, "cb")
      u == [t EXCEPT !.tripped = @ \/ ~ s.nxb, !.nxb = FALSE,
                     !.state = "WAITING_FOR_REQUEST", !.head = <<>>,
                     !.req = NoRequest, !.received = 0, !.sink = "none", !.stored = 0,
                     !.handler = "none", !.retry = 0, !.continue = FALSE,
                     !.has_body = FALSE, !.avail = 0, !.eof = FALSE, !.rest = 0]
      v == IF s.keep_alive THEN nxe_ostream_set_ready(u, "in") ELSE u
  IN  nxe_set_timer(v, "keep_alive")

(* nxweb_http_server_connection_do_finalize: nxd_http_server_proto_finalize*)
(* unsets the timers, unsubscribes and disconnects; then the structure is  *)
(* free for another connection.                                            *)
Released(s) ==
  LET t == nxe_unset_timer(nxe_unset_timer(nxe_unset_timer(s, "keep_alive"), "read"), "write")
      u == nxe_unsubscribe(t, Messages)
      v == nxe_disconnect_streams(nxe_disconnect_streams(u, "in"), "out")
      w == nxe_disconnect_streams(nxe_disconnect_streams(v, "cb"), "rb")
  IN  [w EXCEPT !.freed = TRUE]

(* nxweb_http_server_connection_finalize                                   *)
finalize(s) == IF s.in_worker THEN [s EXCEPT !.closing = TRUE] ELSE Released(s)

(* The responses a handler may give: nothing, a content, a content that is *)
(* not sent (HEAD, 304), a file that cannot be opened.                     *)
Response == {<<NoSource, FALSE>>, <<Buffer, TRUE>>, <<Buffer, FALSE>>, <<NoSource, TRUE>>}

(* invoke_request_handler, for a request with all of its body.             *)
invoke_request_handler(s, r) ==
  CASE s.handler = "sync" -> start_sending_response(s, r[1], r[2])
    [] s.handler = "worker" /\ r = <<Buffer, TRUE>> -> SendError(s)   \* 503
    [] s.handler = "worker" /\ r # <<Buffer, TRUE>> -> [s EXCEPT !.in_worker = TRUE]
    [] OTHER -> s

(* A receiver for the body: its ready flag is set, the streams connected,  *)
(* and the socket read again (start_receiving_request_body).               *)
ReceiveBody(s, sink) ==
  nxe_ostream_set_ready(
    nxe_connect_streams([s EXCEPT !.sink = sink, !.os["rb"] = TRUE], "rb"), "in")

(* Mutant of RejectRequest: the connection is kept although the body of    *)
(* the request has not been read.                                          *)
RejectKeepsAlive(s) == SendError(s)

(* 404, 405, an error of on_headers: "close connection if there is body    *)
(* pending".                                                               *)
RejectRequest(s) == SendError([s EXCEPT !.keep_alive = @ /\ ~ HasBody(s)])

(* NXD_HSP_REQUEST_RECEIVED, for a handler of kind h.                      *)
Dispatch(s, h, r) ==
  LET t == [s EXCEPT !.handler = h]
  IN  CASE h = "none" -> RejectRequest(s)
        [] h = "proxy" -> IF HasBody(s) THEN ReceiveBody(t, "proxy") ELSE t
        [] h \in {"sync", "worker"} ->
             CASE ~ HasBody(s) -> invoke_request_handler(t, r)
               [] s.req.kind \notin {"chunked", "broken"} /\ s.req.size > MaxBody ->
                    SendError([t EXCEPT !.keep_alive = FALSE])   \* 413
               [] OTHER -> ReceiveBody(t, "ibuf")

-----------------------------------------------------------------------------
(* The network thread.                                                     *)

Idle == cur = "none" /\ ~ c.freed

(* epoll_wait has something to report or a timer has expired: the socket's *)
(* flags are set, errors published (fd_source_emit), timers processed.     *)
(* Of what has arrived epoll reports nothing if it has been read since.    *)
LoopTurn ==
  /\ Idle /\ c.events = <<>>
  /\ edge # {} \/ c.expired # {}
  /\ LET readable == "in" \in edge /\ (c.wire # <<>> \/ c.rdclosed)
         s == IF readable THEN nxe_istream_set_ready(c, "in") ELSE c
         t == IF "out" \in edge THEN nxe_ostream_set_ready(s, "out") ELSE s
         u == IF "hup" \in edge THEN nxe_publish(t, "data_error") ELSE t
     IN  c' = nxe_process_timers(u, "error")
  /\ edge' = {}
  /\ UNCHANGED <<cur, rounds, pend, begun>>

(* nxe_process_loop takes the first event; a stream's event is delivered   *)
(* in rounds.                                                              *)
Popped == [c EXCEPT !.events = Tail(@)]
Delivers(m) == Idle /\ c.events # <<>> /\ Head(c.events) = m

StreamBegin(x) ==
  /\ Delivers(x)
  /\ c' = Popped /\ cur' = x /\ rounds' = 0
  /\ UNCHANGED <<edge, pend, begun>>

(* One round of stream_event_deliver.                                      *)
do_stream(x, full) ==
  CASE x = "in" -> data_in_do_read(c, full)
    [] x = "out" -> data_out_do_write(c)
    [] x = "rb" -> sink_do_read(c, full)
    [] x = "cb" -> resp_body_in_write(c)

StreamRound(x) ==
  /\ cur = x /\ Flowing(c, x) /\ rounds < LoopGuard
  /\ \E full \in BOOLEAN : c' = do_stream(x, full)
  /\ rounds' = rounds + 1
  /\ UNCHANGED <<cur, edge, pend, begun>>

(* Not ready any more, or too many rounds: relinked behind the others.     *)
StreamEnd(x) ==
  /\ cur = x
  /\ \/ ~ Flowing(c, x) /\ UNCHANGED c
     \/ Flowing(c, x) /\ rounds = LoopGuard /\ c' = nxe_link(c, x)
  /\ cur' = "none" /\ rounds' = 0
  /\ UNCHANGED <<edge, pend, begun>>

(* Messages: nxweb_http_server_connection_events_sub_on_message.           *)
RequestReceivedDelivered ==
  /\ Delivers("received")
  /\ \E h \in {"none", "sync", "worker", "proxy"}, r \in Response :
       c' = Dispatch(Popped, h, r)
  /\ UNCHANGED <<cur, rounds, edge, pend, begun>>

BodyReceivedDelivered ==
  /\ Delivers("body")
  /\ \E r \in Response : c' = invoke_request_handler(Popped, r)
  /\ UNCHANGED <<cur, rounds, edge, pend, begun>>

RequestCompleteDelivered ==
  /\ Delivers("complete")
  /\ c' = request_cleanup(Popped)
  /\ UNCHANGED <<cur, rounds, edge, pend, begun>>

DataErrorDelivered ==
  /\ Delivers("data_error")
  /\ c' = nxe_publish(Popped, "error")
  /\ UNCHANGED <<cur, rounds, edge, pend, begun>>

ErrorDelivered ==
  /\ Delivers("error")
  /\ c' = finalize(Popped)
  /\ UNCHANGED <<cur, rounds, edge, pend, begun>>

(* worker_complete_on_message                                              *)
WorkerComplete ==
  /\ Idle /\ c.in_worker
  /\ LET s == [c EXCEPT !.in_worker = FALSE]
     IN  IF c.closing THEN c' = Released(s)
         ELSE \E r \in Response : c' = start_sending_response(s, r[1], r[2])
  /\ UNCHANGED <<cur, rounds, edge, pend, begun>>

(* nxweb_http_server_proxy_events_sub_on_message: the backend's response,  *)
(* or 504 after the last retry.                                            *)
BackendResponds ==
  /\ Idle /\ c.handler = "proxy"
  /\ c.state = "HANDLING" \/ (EarlyResponse /\ c.state = "RECEIVING_BODY")
  /\ \E r \in {<<Backend(0), TRUE>>, <<Backend(1), TRUE>>, <<NoSource, FALSE>>, <<Buffer, TRUE>>} :
       c' = start_sending_response([c EXCEPT !.early = @ \/ c.state = "RECEIVING_BODY"],
                                   r[1], r[2])
  /\ UNCHANGED <<cur, rounds, edge, pend, begun>>

(* More of the backend's response arrives, or its end.                     *)
BackendSends ==
  /\ Idle /\ c.handler = "proxy" /\ "cb" \in c.pair /\ ~ c.eof
  /\ \/ /\ c.avail = 0 /\ c.rest > 0
        /\ c' = nxe_istream_set_ready([c EXCEPT !.avail = 1, !.rest = @ - 1], "cb")
     \/ c' = nxe_istream_set_ready([c EXCEPT !.eof = TRUE], "cb")
  /\ UNCHANGED <<cur, rounds, edge, pend, begun>>

(* fail_proxy_request when the response has been started.                  *)
BackendFails ==
  /\ Idle /\ c.handler = "proxy" /\ c.state \in Sending /\ ~ c.eof
  /\ c' = finalize(c)
  /\ UNCHANGED <<cur, rounds, edge, pend, begun>>

(* retry_proxy_request: the receiver of the body is disconnected and, for  *)
(* the new backend connection, initialised and connected again.  If there  *)
(* is none the handler is "lost": nothing more comes from it.              *)
BackendRetries ==
  /\ Idle /\ c.handler = "proxy" /\ c.retry < Retries
  /\ c.state \in {"RECEIVING_BODY", "HANDLING"}
  /\ LET s == nxe_disconnect_streams([c EXCEPT !.retry = @ + 1], "rb")
     IN  \/ c' = IF HasBody(s) THEN ReceiveBody(s, "proxy") ELSE s
         \/ c' = [s EXCEPT !.handler = "lost"]
  /\ UNCHANGED <<cur, rounds, edge, pend, begun>>

(* The backend takes what the proxy has of the body (nxd_rbuffer_read):    *)
(* req_body_sending_started, and there is no retry any more.               *)
BackendReads ==
  /\ Idle /\ c.sink = "proxy" /\ "rb" \in c.pair
  /\ c.state = "RECEIVING_BODY" /\ ~ c.os["rb"]
  /\ c' = nxe_ostream_set_ready([c EXCEPT !.retry = Retries], "rb")
  /\ UNCHANGED <<cur, rounds, edge, pend, begun>>

-----------------------------------------------------------------------------
(* Time and the client.                                                    *)

Expire(t) ==
  /\ ~ c.freed /\ t \in c.timers \ c.expired
  /\ c' = [c EXCEPT !.expired = @ \cup {t}]
  /\ UNCHANGED <<cur, rounds, edge, pend, begun>>

ClientBegins(n, k) ==
  /\ ~ c.freed /\ ~ c.rdclosed /\ c.keep_alive
  /\ pend = <<>> /\ c.answered = begun /\ begun < MaxRequests
  /\ k \in {"chunked", "broken"} => n > 0
  /\ pend' = (IF k = "oversized" THEN [i \in 1 .. MaxHeaders |-> First] ELSE <<First>>)
             \o <<Last(n, k)>> \o [i \in 1 .. n |-> Body]
  /\ begun' = begun + 1
  /\ UNCHANGED <<c, cur, rounds, edge>>

ClientSends ==
  /\ ~ c.freed /\ ~ c.rdclosed
  /\ \E n \in 1 .. Len(pend) :
       /\ c' = [c EXCEPT !.wire = @ \o SubSeq(pend, 1, n)]
       /\ pend' = SubSeq(pend, n + 1, Len(pend))
  /\ edge' = edge \cup {"in"}
  /\ UNCHANGED <<cur, rounds, begun>>

ClientReads ==
  /\ ~ c.freed /\ c.room < TxRoom
  /\ c' = [c EXCEPT !.room = TxRoom]
  /\ edge' = edge \cup {"out"}
  /\ UNCHANGED <<cur, rounds, pend, begun>>

ClientCloses ==
  /\ ~ c.freed /\ ~ c.rdclosed
  /\ c' = [c EXCEPT !.rdclosed = TRUE]
  /\ edge' = edge \cup {"in", "hup"}
  /\ UNCHANGED <<cur, rounds, pend, begun>>

Closed == c.freed /\ UNCHANGED vars

-----------------------------------------------------------------------------
NetStep ==
  \/ LoopTurn
  \/ \E x \in Streams : StreamBegin(x) \/ StreamRound(x) \/ StreamEnd(x)
  \/ RequestReceivedDelivered \/ BodyReceivedDelivered \/ RequestCompleteDelivered
  \/ DataErrorDelivered \/ ErrorDelivered

Client ==
  \/ \E n \in BodySizes, k \in Kinds : ClientBegins(n, k)
  \/ ClientSends \/ ClientReads \/ ClientCloses

Next ==
  \/ NetStep
  \/ WorkerComplete
  \/ BackendResponds \/ BackendSends \/ BackendFails \/ BackendRetries \/ BackendReads
  \/ \E t \in Timers : Expire(t)
  \/ Client
  \/ Closed

Spec == Init /\ [][Next]_vars

(* The network thread has something to do: ENABLED <<NetStep>>_vars.       *)
NetReady ==
  ~ c.freed /\ (cur # "none" \/ c.events # <<>> \/ edge # {} \/ c.expired # {})

(* The thread runs (weak fairness of NetStep), time passes, workers finish *)
(* (JobAnswered of module WorkerPool), and a backend that does not answer  *)
(* is given up after its timeouts.  Nothing is assumed of the client.      *)
Fairness ==
  /\ []<>(~ NetReady) \/ []<><<NetStep>>_vars
  /\ \A t \in Timers : WF_vars(Expire(t))
  /\ WF_vars(WorkerComplete) /\ WF_vars(BackendResponds)

FairSpec == Spec /\ Fairness

-----------------------------------------------------------------------------
(* Properties.                                                             *)

(* Types; the socket's send buffer is never overrun, and no more responses *)
(* are completed than requests were begun.                                 *)
TypeOK ==
  /\ c.state \in {"WAITING_FOR_REQUEST", "RECEIVING_HEADERS", "RECEIVING_BODY",
                  "HANDLING", "SENDING_HEADERS", "SENDING_BODY"}
  /\ c.timers \subseteq Timers /\ c.expired \subseteq c.timers
  /\ c.pair \subseteq Streams
  /\ c.is \in [Streams -> BOOLEAN] /\ c.os \in [Streams -> BOOLEAN]
  /\ c.room \in 0 .. TxRoom /\ c.chunk \in Nat /\ c.received \in Nat /\ c.stored \in Nat
  /\ c.avail \in Nat
  /\ c.answered <= begun
  /\ cur \in Streams \cup {"none"} /\ rounds \in 0 .. LoopGuard

(* No assertion of nx_event.c fails, whatever the client, the handlers and *)
(* the clock do: no timer is set that is set already, no event linked that *)
(* is linked already; and a request's buffer is taken and returned once.   *)
AssertionsHold == ~ c.tripped

(* At rest nothing happens before a timer or somebody else acts.           *)
AtRest == Idle /\ c.events = <<>> /\ edge = {} /\ c.expired = {}

(* A connection at rest is under the eye of a timer, unless a handler has  *)
(* its request: a silent client cannot hold it for ever.  ("lost": see     *)
(* Abandoned of HttpProxy.)                                                *)
Watched ==
  AtRest =>
    CASE c.state = "WAITING_FOR_REQUEST" -> "keep_alive" \in c.timers
      [] c.state \in {"RECEIVING_HEADERS", "RECEIVING_BODY"} -> "read" \in c.timers
      [] c.state \in Sending -> "write" \in c.timers
      [] OTHER -> c.in_worker \/ c.handler \in {"proxy", "lost"}

(* No wake-up is lost between two ends of a stream: both ready and nothing *)
(* scheduled never happens at rest.                                        *)
NoLostReadiness == AtRest => \A x \in c.pair : ~ (c.is[x] /\ c.os[x])

(* A connection never waits for nothing: whatever nxd_http_server_proto.c  *)
(* leaves it waiting for, a timer watches it, and what could move has been *)
(* scheduled.                                                              *)
NeverStalls == Watched /\ NoLostReadiness

(* Between request_complete and request_cleanup the response is finished:  *)
(* the message is queued once, and the output stream cannot start again.   *)
CompleteOnce ==
  InLoop(c, "complete") =>
    /\ c.state \in Sending /\ ~ c.is["out"] /\ ~ InLoop(c, "out")
    /\ Cardinality({i \in 1 .. Len(c.events) : c.events[i] = "complete"}) = 1

(* What is parsed as the head of a request was sent as one: no part of a   *)
(* body is left behind for the next request, even when the response was    *)
(* sent without reading it.  (An early answer of a backend is the          *)
(* exception, FramedAlways.)                                               *)
Framed == c.head # <<>> /\ ~ c.early => c.head[1].piece = "first"

(* The same of every response: "close connection if there is body pending" *)
(* (http_server.c).  The proxy's 504 and a backend's early answer keep the *)
(* connection alive.                                                       *)
FramedAlways == c.head # <<>> => c.head[1].piece = "first"

(* Nothing of a released connection is left in the loop: its events and    *)
(* timers would be delivered to another connection.                        *)
ReleasedIsQuiet == c.freed => c.events = <<>> /\ c.timers = {} /\ cur = "none"

(* The rules of the event loop are kept in every order of data, errors and *)
(* timeouts: the assertions of nx_event.c hold, a request completes once,  *)
(* and a finalized connection has left nothing in the loop.                *)
LoopRulesHold == AssertionsHold /\ CompleteOnce /\ ReleasedIsQuiet

(* Every request ends: the connection waits for the next one or is closed. *)
(* A request whose retry got no connection is left aside: HttpProxy.       *)
Busy == c.state # "WAITING_FOR_REQUEST"
Abandoned == c.handler = "lost" /\ c.state = "HANDLING"
Over == c.state = "WAITING_FOR_REQUEST" \/ c.freed \/ Abandoned
RequestEnds == Busy ~> Over

(* "assert(req->content_received==size)" (http_server.c): when the handler *)
(* is called, the buffer holds all that was received of the body.          *)
BufferedWhole ==
  Delivers("body") /\ c.sink = "ibuf" => c.received = c.stored

-----------------------------------------------------------------------------
(* The inductive invariant behind LoopRulesHold and NeverStalls: what fits *)
(* together in the connection s.                                           *)

Fields == {"state", "timers", "expired", "events", "is", "os", "pair", "tripped", "freed",
           "wire", "rdclosed", "room", "nxb", "head", "chunk", "req", "received", "sink",
           "stored", "handler", "retry", "continue", "headers", "keep_alive", "has_body", "avail",
           "eof", "rest", "in_worker", "closing", "early", "answered"}
States == {"WAITING_FOR_REQUEST", "RECEIVING_HEADERS", "RECEIVING_BODY", "HANDLING"} \cup Sending
Receiving == {"RECEIVING_HEADERS", "RECEIVING_BODY"}
Pieces == [piece : {"first", "last", "body"}, size : Nat, kind : Kinds \cup {"plain"}]

DataInv(s) ==
  /\ s.state \in States /\ s.timers \subseteq Timers /\ s.expired \subseteq s.timers
  /\ s.wire \in Seq(Pieces) /\ s.head \in Seq(Pieces) /\ Len(s.head) <= MaxHeaders
  /\ s.room \in Nat /\ s.chunk \in Nat /\ s.avail \in Nat /\ s.req.size \in Nat
  /\ s.received \in Int /\ s.stored \in Int

(* The list: a stream's event is in it once, and only while the stream is  *)
(* connected; the messages about a request come in their order, each once. *)
Rank == [received |-> 1, body |-> 2, complete |-> 3]
ListInv(s) ==
  /\ DOMAIN s = Fields
  /\ s.events \in Seq(Streams \cup Messages) /\ s.pair \subseteq Streams
  /\ s.is \in [Streams -> BOOLEAN] /\ s.os \in [Streams -> BOOLEAN] /\ s.tripped = FALSE
  /\ \A i, j \in 1 .. Len(s.events) :
       s.events[i] = s.events[j] /\ s.events[i] \in Streams => i = j
  /\ \A i \in 1 .. Len(s.events) : s.events[i] \in Streams => s.events[i] \in s.pair
  /\ Ranked(s.events, Rank)

(* A message in the list fits the state until it is delivered.             *)
MessagesInv(s) ==
  /\ InLoop(s, "received") => /\ s.handler = "none" /\ s.sink = "none"
                              /\ s.state = IF HasBody(s) THEN "RECEIVING_BODY" ELSE "HANDLING"
  /\ InLoop(s, "body") => /\ s.handler # "none" /\ ~ s.in_worker
                          /\ s.state = "HANDLING" \/ (s.handler = "proxy" /\ s.state \in Sending)
  /\ InLoop(s, "complete") => /\ s.state \in Sending /\ ~ s.is["out"] /\ ~ InLoop(s, "out")
                              /\ "cb" \notin s.pair /\ "rb" \notin s.pair

(* What the handler has begun fits the state.                              *)
HandlerInv(s) ==
  /\ s.handler \in {"none", "sync", "worker", "proxy", "lost"}
  /\ s.nxb <=> s.state # "WAITING_FOR_REQUEST"
  /\ s.in_worker => s.handler = "worker" /\ s.state = "HANDLING"
  /\ s.closing => s.in_worker
  /\ "cb" \in s.pair => s.state \in Sending
  /\ "rb" \in s.pair => s.sink # "none"
  /\ s.sink # "none" => s.handler # "none"
  /\ s.state \in {"WAITING_FOR_REQUEST", "RECEIVING_HEADERS"} => s.handler = "none"

(* A timer that is set belongs to the state.                               *)
TimersFit(s) ==
  /\ "keep_alive" \in s.timers => s.state = "WAITING_FOR_REQUEST"
  /\ "read" \in s.timers => s.state \in Receiving
  /\ "write" \in s.timers => s.state \in Sending /\ ~ InLoop(s, "complete")

(* The output waits for the socket or for the content, never for both.     *)
OutputInv(s) ==
  /\ s.is["out"] => s.continue \/ s.state \in Sending
  /\ s.state = "SENDING_BODY" /\ "cb" \in s.pair /\ s.os["cb"] => ~ s.is["out"] /\ ~ InLoop(s, "out")

(* What can flow is being delivered (x), or will be.                       *)
Woken(s, x) == \A y \in Streams \ {x} : Flowing(s, y) => InLoop(s, y)

(* The state has its timer, or its end is in the list.                     *)
Failing(s) == InLoop(s, "error") \/ InLoop(s, "data_error")
Attended(s) ==
  \/ Failing(s)
  \/ s.state = "WAITING_FOR_REQUEST" /\ "keep_alive" \in s.timers
  \/ s.state \in Receiving /\ "read" \in s.timers
  \/ s.state \in Sending /\ ("write" \in s.timers \/ InLoop(s, "complete"))
  \/ s.state = "HANDLING" /\ \/ InLoop(s, "received") \/ InLoop(s, "body")
                             \/ s.in_worker \/ s.handler \in {"proxy", "lost"}

(* All of that while the event of x is delivered; x is "none" between      *)
(* events.                                                                 *)
Connected(s, x) ==
  /\ ListInv(s) /\ DataInv(s) /\ MessagesInv(s) /\ HandlerInv(s)
  /\ TimersFit(s) /\ OutputInv(s) /\ Woken(s, x)
  /\ x \in Streams => ~ InLoop(s, x)
  /\ s.freed = FALSE

LoopInv ==
  /\ cur \in Streams \cup {"none"} /\ pend \in Seq(Pieces)
  /\ \/ c.freed = FALSE /\ Connected(c, cur) /\ Attended(c)
     \/ /\ c.freed = TRUE /\ cur = "none" /\ c.tripped = FALSE
        /\ c.events = <<>> /\ c.timers = {}
=============================================================================
