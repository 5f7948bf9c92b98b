------------------------------ MODULE HttpProxy ------------------------------
(***************************************************************************)
(* Proxied requests: the handler of modules/http_proxy.c with its retries  *)
(* and its timer, the pool of backend connections (nxd_http_proxy.c) and   *)
(* the HTTP client protocol (nxd_http_client_proto.c), on the loop and the *)
(* socket of modules EventOps and Socket.                                  *)
(*                                                                         *)
(* Requests come one after another, so the pool has at most one backend    *)
(* connection, which is in use, in the pool, or not there.  Its streams:   *)
(* "in" from the socket to hcp.data_in, "out" from hcp.data_out to the     *)
(* socket, "req" from rb_req to hcp.req_body_in, "resp" from               *)
(* hcp.resp_body_out to rb_resp.  What the client's connection does is     *)
(* given by the steps Client...: its protocol is module HttpServerProto.   *)
(*                                                                         *)
(* Data.  A request is a head and a body of pieces.  A backend sends       *)
(* pieces: parts of a head, the end of a head (which tells the framing),   *)
(* pieces of body, the end of a chunked body, or something undecodable.    *)
(***************************************************************************)
EXTENDS Socket

CONSTANTS MaxRequests,  \* proxied requests
          BodySizes,    \* sizes of the requests' bodies, in pieces
          Framings,     \* how backends delimit their responses
          HeadParts,    \* sizes of their heads, without the last piece
          RespSizes,    \* sizes of their bodies
          RetryCount,   \* NXWEB_PROXY_RETRY_COUNT
          MaxHeaders,   \* NXWEB_MAX_REQUEST_HEADERS_SIZE
          HeadRoom,     \* what the buffer for headers holds
          RbufSize,     \* NXWEB_RBUF_SIZE
          TxRoom,       \* pieces the socket's send buffer holds
          LoopGuard     \* the 50 of stream_event_deliver

ASSUME ProxyAssumption ==
  /\ MaxRequests \in Nat /\ RetryCount \in Nat /\ MaxHeaders \in Nat /\ LoopGuard \in Nat
  /\ RbufSize \in Nat \ {0} /\ TxRoom \in Nat \ {0}
  /\ BodySizes \subseteq Nat /\ RespSizes \subseteq Nat /\ HeadParts \subseteq Nat
  /\ Framings \subseteq {"length", "final", "chunked", "broken", "close", "bad"}

(* What can be read behind a head fits into the ring: 16384 bytes against  *)
(* at most some 10000 (nxweb_config.h).                                    *)
ASSUME RoomAssumption == HeadRoom \in MaxHeaders .. (RbufSize + 1)

VARIABLES p,      \* the request, the backend connection and the loop
          cur,    \* the stream whose event is being delivered, or "none"
          rounds  \* rounds of the loop in stream_event_deliver

vars == <<p, cur, rounds>>

Streams == {"in", "out", "req", "resp"}
HcpTimers == {"keep_alive", "read", "write", "100continue"}
Timers == HcpTimers \cup {"backend"}

(* Messages of hcp.events_pub, and of the socket's data_error publisher.   *)
HcpMessages == {"connected", "response", "complete", "error"}
SockMessages == {"data_error", "sock_error"}

(* The message of the client's connection that ends the request.           *)
ClientMessages == {"client"}

(* Pieces a backend sends.  no: the request that is answered.              *)
Piece(what) == [piece |-> what, framing |-> "length", size |-> 0, no |-> 0]
HeadEnd(f, n, no) == [piece |-> "head", framing |-> f, size |-> n, no |-> no]
NoResponse == HeadEnd("length", 0, 0)
NoChunk == -1

(* resp.content_length < 0 after _nxweb_parse_http_response; until-close   *)
(* excludes keep-alive.                                                    *)
UntilClose(r) == r.framing = "close"
Chunked(r) == r.framing \in {"chunked", "broken"}
KeepAlive(r) == r.framing \notin {"close", "final"}

(* What nxd_http_proxy_init, nxd_http_client_proto_init and                *)
(* nxd_socket_init make of the structure.                                  *)
Fresh ==
  [state |-> "CONNECTING",
   headers |-> FALSE,     \* hcp->req_headers_ptr: something to send
   sending |-> FALSE,     \* req_body_sending_started
   wait100 |-> FALSE,     \* receiving_100_continue
   all |-> FALSE,         \* response_body_complete
   done |-> FALSE,        \* request_complete
   queued |-> FALSE,      \* queued_error_message
   nxb |-> FALSE,         \* hcp->nxb # 0
   head |-> <<>>,         \* the response headers read so far
   resp |-> NoResponse, received |-> 0,
   chunk |-> NoChunk,     \* pieces from first_body_chunk to its end
   wire |-> <<>>, rdclosed |-> FALSE, room |-> TxRoom,
   edge |-> {},           \* what epoll has to report of the socket
   asked |-> 0,           \* the request whose head was sent last
   fwd |-> FALSE,         \* some of its body was sent
   owed |-> FALSE,        \* the backend: has not answered yet
   said100 |-> FALSE,     \*   has sent "100 Continue", but no answer
   toend |-> FALSE,       \*   its last response ends with the connection
   pend |-> <<>>]         \*   pieces it has still to send

(* The fields of the loop and of the request (rdata and the client's       *)
(* connection) that outlive a backend connection.                          *)
Outer ==
  [events |-> <<>>, timers |-> {}, expired |-> {}, pair |-> {},
   is |-> [x \in Streams |-> x = "out"], os |-> [x \in Streams |-> FALSE],
   tripped |-> FALSE,
   place |-> "none",      \* the backend connection: "none", "used", "pool"
   conn |-> "idle",       \* phase of the client's request
   no |-> 0,              \* requests so far
   method |-> "GET",      \* or "HEAD", "POST"
   size |-> 0, left |-> 0, \* its body; what the client has still to send of it
   retry |-> 0, started |-> FALSE, complete |-> FALSE, error |-> FALSE, \* rdata
   rb_req |-> 0, eof_req |-> FALSE, rb_resp |-> 0, eof_resp |-> FALSE,
   via |-> "none",        \* what is sent to the client: "backend" or "error"
   bodies |-> 0]          \* backend connections that got a piece of the body

(* The fields of f, and of s those that f does not have.                   *)
Over(f, s) == [x \in DOMAIN f \cup DOMAIN s |-> IF x \in DOMAIN f THEN f[x] ELSE s[x]]

Init == p = Over(Fresh, Outer) /\ cur = "none" /\ rounds = 0

-----------------------------------------------------------------------------
(* The client protocol: sending the request.                               *)

start_receiving_response(s) ==
  LET t == nxe_unset_timer(nxe_istream_unset_ready(s, "out"), "write")
      u == nxe_ostream_set_ready(nxe_set_timer(t, "read"), "in")
  IN  [u EXCEPT !.state = "WAITING_FOR_RESPONSE"]

wait_for_100_continue(s) ==
  LET t == nxe_unset_timer(nxe_istream_unset_ready(s, "out"), "write")
      u == nxe_ostream_set_ready(nxe_set_timer(t, "100continue"), "in")
  IN  [u EXCEPT !.state = "WAITING_FOR_RESPONSE", !.wait100 = TRUE]

(* req_body_in_write of size pieces, the last ones if eof.                 *)
req_body_in_write(s, size, eof) ==
  IF s.state # "SENDING_BODY"
  THEN nxe_istream_set_ready(nxe_ostream_unset_ready(s, "req"), "out")
  ELSE
  LET n == Sent(s, size)
      t == sock_data_send_write(nxe_unset_timer([s EXCEPT !.sending = TRUE], "write"), size)
      u == IF size > 0 /\ ~ t.os["out"]
           THEN nxe_istream_set_ready(nxe_ostream_unset_ready(t, "req"), "out") ELSE t
      v == [u EXCEPT !.fwd = @ \/ n > 0,
                     !.bodies = IF n > 0 /\ ~ s.fwd THEN @ + 1 ELSE @]
  IN  IF eof /\ n = size
      THEN start_receiving_response(nxe_ostream_unset_ready(v, "req"))
      ELSE nxe_set_timer(v, "write")

(* rbuffer_data_out_do_write and nxd_rbuffer_read for rb_req: the ring     *)
(* gives at most size pieces in one go.                                    *)
rb_req_do_write(s, size) ==
  LET k == Minimum(size, s.rb_req)
      n == IF s.state = "SENDING_BODY" THEN Sent(s, k) ELSE 0
      t == req_body_in_write(s, k, s.eof_req /\ k = s.rb_req)
  IN  [t EXCEPT !.rb_req = @ - n,
                !.is["req"] = @ /\ ~ (n > 0 /\ n = s.rb_req /\ ~ s.eof_req)]

(* data_out_do_write, from the headers on.                                 *)
WriteHeaders(s) ==
  LET t == sock_data_send_write(s, 1)
      u == [t EXCEPT !.headers = FALSE, !.asked = s.no, !.owed = TRUE, !.said100 = FALSE]
  IN  CASE Sent(s, 1) = 0 -> t
        [] Sent(s, 1) # 0 /\ s.size = 0 -> start_receiving_response(u)
        [] OTHER -> wait_for_100_continue(u)

WriteBody(s, size) ==
  IF "req" \notin s.pair THEN nxe_istream_unset_ready([s EXCEPT !.sending = TRUE], "out") ELSE
  LET t == [s EXCEPT !.sending = TRUE]
      u == IF t.is["req"] THEN rb_req_do_write([t EXCEPT !.os["req"] = TRUE], size) ELSE t
  IN  IF u.is["req"] THEN u
      ELSE nxe_ostream_set_ready(nxe_istream_unset_ready(u, "out"), "req")

(* The proxy starts a request as soon as it connects: hcp->req is set.     *)
data_out_do_write(s, size) ==
  LET t == nxe_unset_timer(s, "write")
      u == IF s.state = "CONNECTING"
           THEN [nxe_publish(t, "connected") EXCEPT !.state = "SENDING_HEADERS"] ELSE t
      v == nxe_set_timer(u, "write")
  IN  CASE v.state = "SENDING_HEADERS" -> WriteHeaders(v)
        [] v.state = "SENDING_BODY" -> WriteBody(v, size)
        [] OTHER -> nxe_istream_unset_ready(v, "out")

-----------------------------------------------------------------------------
(* The client protocol: receiving the response.                            *)

(* Mutant of request_complete: the read timer is left running.             *)
CompleteKeepsTimer(s) ==
  LET t == nxe_publish(s, "complete")
      u == IF s.queued THEN nxe_publish(t, "error") ELSE t
      v == nxe_istream_unset_ready(nxe_ostream_unset_ready(u, "in"), "out")
  IN  [nxe_set_timer(v, "keep_alive") EXCEPT !.done = TRUE, !.state = "IDLE"]

request_complete(s) ==
  LET t == nxe_publish(s, "complete")
      u == IF s.queued THEN nxe_publish(t, "error") ELSE t
      v == nxe_istream_unset_ready(nxe_ostream_unset_ready(u, "in"), "out")
      w == nxe_set_timer(nxe_unset_timer(v, "read"), "keep_alive")
  IN  [w EXCEPT !.done = TRUE, !.state = "IDLE"]

(* The pieces got of a body: how many are content, what follows from them  *)
(* (_nxweb_decode_chunked_stream, or the content length).                  *)
Content(got) == Cardinality({i \in 1 .. Len(got) : got[i].piece = "body"})
Holds(got, what) == \E i \in 1 .. Len(got) : got[i].piece = what

Decoded(s, got) ==
  IF Chunked(s.resp)
  THEN LET t == IF Holds(got, "junk") THEN nxe_publish(s, "error") ELSE s
       IN  [t EXCEPT !.all = @ \/ (~ Holds(got, "junk") /\ Holds(got, "end"))]
  ELSE s

(* Mutant of Enough: the end is seen one piece too early.                  *)
EnoughEarly(s, n) ==
  ~ Chunked(s.resp) /\ ~ UntilClose(s.resp) /\ s.received + n + 1 >= s.resp.size

(* With n more pieces the content length is reached.                       *)
Enough(s, n) ==
  ~ Chunked(s.resp) /\ ~ UntilClose(s.resp) /\ s.received + n >= s.resp.size

(* What a read of up to size pieces from the socket gives.                 *)
Got(s, size) ==
  SubSeq(s.wire, 1, IF s.is["in"] THEN Minimum(Len(s.wire), size) ELSE 0)

BadResponse(s) ==
  nxe_publish(nxe_ostream_unset_ready(nxe_unset_timer(s, "read"), "in"), "error")

(* The final response's headers are there, and "rest" of its body.         *)
ResponseReceived(s, r, rest) ==
  LET t == [s EXCEPT !.resp = r, !.received = 0, !.head = <<>>, !.wait100 = FALSE,
                     !.chunk = IF rest = <<>> THEN NoChunk ELSE Content(rest)]
      u == IF s.wait100 THEN nxe_publish(t, "error") ELSE t   \* NXD_HCP_NO_100CONTINUE
      v == Decoded(u, rest)
      w == [v EXCEPT !.all = @ \/ (rest # <<>> /\ Enough(t, Content(rest)))]
      y == nxe_publish(nxe_ostream_unset_ready(w, "in"), "response")
      z == nxe_istream_set_ready([y EXCEPT !.state = "RECEIVING_BODY"], "resp")
  IN  IF "resp" \in z.pair THEN nxe_ostream_set_ready(z, "in") ELSE z

(* "100 Continue" was waited for: back to the body of the request.  What   *)
(* was read behind it is dropped.                                          *)
Continue(s) ==
  LET t == nxe_unset_timer(nxe_ostream_unset_ready(s, "in"), "read")
      u == nxe_istream_set_ready(nxe_set_timer(t, "write"), "out")
  IN  [u EXCEPT !.state = "SENDING_BODY", !.wait100 = FALSE, !.head = <<>>]

ReadHeaders(s) ==
  LET size == HeadRoom - Len(s.head)
      t == sock_data_recv_read(s, size)
      head == s.head \o Got(s, size)
      ends == {i \in 1 .. Len(head) : head[i].piece \in {"head", "100", "bad"}}
      i == CHOOSE j \in ends : \A k \in ends : j <= k
      rest == SubSeq(head, i + 1, Len(head))
  IN  CASE Got(s, size) = <<>> -> t
        [] Got(s, size) # <<>> /\ ends = {} ->
             IF Len(head) >= MaxHeaders THEN BadResponse(t) ELSE [t EXCEPT !.head = head]
        [] OTHER ->
             CASE head[i].piece = "bad" -> BadResponse(t)
               [] head[i].piece = "100" /\ s.wait100 -> Continue(t)
               [] head[i].piece = "100" /\ ~ s.wait100 -> ResponseReceived(t, NoResponse, rest)
               [] OTHER -> ResponseReceived(t, head[i], rest)

(* resp_body_out_read of up to size pieces, into rb_resp: first what the   *)
(* headers' last read has brought of the body, then from the socket.  Then *)
(* rbuffer_data_in_do_read and nxd_rbuffer_write account for them.         *)
Stored(s, n, eof) ==
  LET t == [s EXCEPT !.rb_resp = @ + n, !.received = @ + n, !.eof_resp = @ \/ eof]
  IN  IF n > 0 /\ t.rb_resp = RbufSize THEN nxe_ostream_unset_ready(t, "resp") ELSE t

Finished(s, n) == Stored(nxe_istream_unset_ready(request_complete(s), "resp"), n, TRUE)

ReadSocket(s, size, before) ==
  LET got == Got(s, size)
      t == sock_data_recv_read(s, size)
      u == IF t.is["in"] THEN t
           ELSE nxe_ostream_set_ready(nxe_istream_unset_ready(t, "resp"), "in")
      v == Decoded(u, got)
      n == before + Content(got)
  IN  IF v.all \/ Enough(s, n) THEN Finished([v EXCEPT !.all = TRUE], n) ELSE Stored(v, n, FALSE)

resp_body_out_read(s, size) ==
  LET n == Minimum(s.chunk, size)
      t == [s EXCEPT !.chunk = IF s.chunk <= size THEN NoChunk ELSE @ - size]
  IN  CASE s.done -> nxe_istream_unset_ready([s EXCEPT !.eof_resp = TRUE], "resp")
        [] ~ s.done /\ s.state # "RECEIVING_BODY" ->
             nxe_ostream_set_ready(nxe_istream_unset_ready(s, "resp"), "in")
        [] ~ s.done /\ s.state = "RECEIVING_BODY" /\ s.chunk = NoChunk -> ReadSocket(s, size, 0)
        [] OTHER ->
             CASE s.all -> Finished(t, n)
               [] ~ s.all /\ n = size -> Stored(t, n, FALSE)
               [] OTHER -> ReadSocket(t, size - n, n)

(* nxd_rbuffer_get_write_ptr: what is free in the ring, up to its end.     *)
Offered(s) == Minimum(RbufSize - s.rb_resp, RbufSize - (s.received % RbufSize))

(* "assert(size)"                                                          *)
rb_resp_do_read(s) ==
  resp_body_out_read([s EXCEPT !.tripped = @ \/ s.rb_resp >= RbufSize], Offered(s))

(* A response begins: the read timer runs until it is complete.            *)
BeginResponse(s) ==
  LET t == nxe_unset_timer(nxe_unset_timer(s, "read"), "100continue")
  IN  [nxe_set_timer(t, "read") EXCEPT !.state = "RECEIVING_HEADERS"]

data_in_do_read(s) ==
  LET t == IF s.os["resp"] THEN rb_resp_do_read(s) ELSE s
  IN  CASE s.state = "WAITING_FOR_RESPONSE" -> ReadHeaders(BeginResponse(s))
        [] s.state = "RECEIVING_HEADERS" -> ReadHeaders(s)
        [] s.state = "RECEIVING_BODY" /\ "resp" \in s.pair ->
             IF t.os["resp"] THEN t
             ELSE nxe_istream_set_ready(nxe_ostream_unset_ready(t, "in"), "resp")
        [] s.state = "RECEIVING_BODY" /\ "resp" \notin s.pair -> nxe_ostream_unset_ready(s, "in")
        [] OTHER -> s

(* data_error_on_message.  hup: the peer has closed the connection.        *)
data_error_on_message(s, hup) ==
  CASE hup /\ UntilClose(s.resp) /\ s.state # "IDLE" ->
         nxe_istream_set_ready([s EXCEPT !.all = TRUE], "resp")
    [] ~ (hup /\ UntilClose(s.resp) /\ s.state # "IDLE") /\ s.all /\ ~ s.done ->
         [s EXCEPT !.queued = TRUE]
    [] OTHER -> nxe_publish(s, "error")

-----------------------------------------------------------------------------
(* The pool of backend connections.                                        *)

Disconnected(s, xs) == [nxe_unsubscribe(s, xs) EXCEPT !.pair = @ \ xs]

(* nxd_http_proxy_finalize (nxd_http_client_proto_finalize and             *)
(* nxd_socket_finalize), then nxp_free.                                    *)
nxd_http_proxy_finalize(s) ==
  LET t == [s EXCEPT !.timers = @ \ HcpTimers, !.expired = @ \ HcpTimers, !.place = "none"]
  IN  Over(Fresh, Disconnected(nxe_unsubscribe(t, HcpMessages \cup SockMessages), Streams))

(* nxd_http_client_proto_rearm                                             *)
rearm(s) ==
  LET t == Disconnected(nxe_unsubscribe(s, HcpMessages), {"req", "resp"})
  IN  [t EXCEPT !.tripped = @ \/ ~ s.nxb, !.nxb = FALSE,
                !.os["req"] = FALSE, !.is["resp"] = FALSE,
                !.os["in"] = FALSE, !.is["out"] = FALSE]

(* Mutant of nxd_http_proxy_pool_return: an unfinished exchange is kept.   *)
ReturnUnfinished(s, closed) ==
  IF closed \/ ~ KeepAlive(s.resp)
  THEN nxd_http_proxy_finalize(s)
  ELSE [rearm(s) EXCEPT !.place = "pool"]

nxd_http_proxy_pool_return(s, closed) ==
  IF closed \/ ~ s.done \/ s.state # "IDLE" \/ ~ KeepAlive(s.resp)
  THEN nxd_http_proxy_finalize(s)
  ELSE [rearm(s) EXCEPT !.place = "pool"]

(* nxd_http_proxy_connect: the socket is registered, the write timer set.  *)
nxd_http_proxy_connect(s) ==
  LET t == [s EXCEPT !.place = "used", !.pair = @ \cup {"in", "out"},
                     !.is = [x \in Streams |-> x = "out"], !.os = [x \in Streams |-> FALSE]]
  IN  nxe_set_timer(t, "write")

(* nxd_http_proxy_pool_connect; made: socket and connect succeed.          *)
nxd_http_proxy_pool_connect(s, made) ==
  CASE s.place = "pool" -> [nxe_unsubscribe(s, HcpMessages) EXCEPT !.place = "used"]
    [] s.place # "pool" /\ made -> nxd_http_proxy_connect(s)
    [] OTHER -> s

-----------------------------------------------------------------------------
(* The handler.                                                            *)

(* nxd_http_client_proto_start_request                                     *)
StartRequest(s) ==
  LET t == [s EXCEPT !.nxb = TRUE, !.headers = TRUE, !.fwd = FALSE,
                     !.tripped = @ \/ s.nxb \/ s.state \notin {"CONNECTING", "IDLE"},
                     !.sending = FALSE, !.wait100 = FALSE, !.done = FALSE,
                     !.all = FALSE, !.queued = FALSE]
      u == IF s.state = "IDLE"
           THEN nxe_set_timer(nxe_unset_timer([t EXCEPT !.state = "SENDING_HEADERS"],
                                              "keep_alive"), "write")
           ELSE t
  IN  nxe_istream_set_ready(u, "out")

(* start_proxy_request; without a connection the response 502 is prepared. *)
start_proxy_request(s, made) ==
  LET c == nxd_http_proxy_pool_connect(
             [s EXCEPT !.complete = FALSE, !.error = FALSE, !.started = FALSE], made)
      t == [StartRequest(c) EXCEPT !.rb_resp = 0, !.eof_resp = FALSE, !.os["resp"] = TRUE]
      u == nxe_connect_streams(t, "resp")
      v == IF s.size = 0 THEN u
           ELSE nxe_connect_streams([u EXCEPT !.rb_req = 0, !.eof_req = FALSE,
                                              !.is["req"] = FALSE], "req")
  IN  IF c.place = "used" THEN nxe_set_timer(v, "backend") ELSE c

retry_proxy_request(s, made) ==
  LET t == [s EXCEPT !.tripped = @ \/ s.conn \notin {"receiving", "handling"}]
  IN  start_proxy_request([nxd_http_proxy_pool_return(t, TRUE) EXCEPT !.retry = @ + 1], made)

(* nxweb_http_proxy_request_finalize: the client has its response, or its  *)
(* connection is finalized.                                                *)
request_finalize(s) ==
  LET t == Disconnected(nxe_unsubscribe(nxe_unset_timer(s, "backend"), HcpMessages \cup ClientMessages),
                        {"req", "resp"})
      u == IF s.place = "used" THEN nxd_http_proxy_pool_return(t, s.error) ELSE t
  IN  [u EXCEPT !.conn = "idle", !.via = "none", !.method = "GET", !.size = 0, !.left = 0,
                !.retry = 0, !.started = FALSE, !.complete = FALSE, !.error = FALSE,
                !.rb_req = 0, !.eof_req = FALSE, !.rb_resp = 0, !.eof_resp = FALSE,
                !.bodies = 0]

fail_proxy_request(s) ==
  IF s.started THEN request_finalize(s)
  ELSE [s EXCEPT !.conn = "sending", !.via = "error", !.started = TRUE, !.complete = TRUE]

(* Mutant of timer_backend_on_timeout: the body is not looked at.          *)
TimeoutAlwaysRetries(s, made) ==
  CASE s.started -> s
    [] ~ s.started /\ s.retry >= RetryCount -> fail_proxy_request(s)
    [] OTHER -> retry_proxy_request(s, made)

timer_backend_on_timeout(s, made) ==
  LET t == [s EXCEPT !.tripped = @ \/ s.place # "used"]
  IN  CASE s.sending \/ s.started -> t
        [] ~ (s.sending \/ s.started) /\ s.retry >= RetryCount -> fail_proxy_request(t)
        [] OTHER -> retry_proxy_request(t, made)

(* nxweb_http_server_proxy_events_sub_on_message.  A response after the    *)
(* 504 is not sent: start_sending_response returns at once.                *)
OnResponse(s) ==
  LET t == nxe_unset_timer([s EXCEPT !.started = TRUE], "backend")
  IN  IF s.conn = "sending" THEN t ELSE [t EXCEPT !.conn = "sending", !.via = "backend"]

OnError(s, made) ==
  LET t == [s EXCEPT !.error = TRUE, !.tripped = @ \/ s.place # "used"]
      u == nxe_unset_timer(t, "backend")
  IN  CASE s.complete -> t
        [] ~ s.complete /\ s.started -> fail_proxy_request(t)
        [] OTHER -> IF s.retry >= RetryCount \/ s.sending THEN fail_proxy_request(u)
                    ELSE retry_proxy_request(u, made)

-----------------------------------------------------------------------------
(* The network thread.                                                     *)

Idle == cur = "none"

(* A timer that has expired is unset and its callback runs; callbacks of   *)
(* the client protocol publish an error.                                   *)
Timeout(s, t, made) ==
  CASE t \notin s.expired -> s
    [] t \in s.expired /\ t # "backend" -> nxe_publish(nxe_unset_timer(s, t), "error")
    [] t \in s.expired /\ t = "backend" ->
         timer_backend_on_timeout(nxe_unset_timer(s, t), made)

(* nxe_process_timers, in the order of the timer queues.                   *)
ProcessTimers(s, made) ==
  LET t == Timeout(Timeout(Timeout(s, "keep_alive", made), "read", made), "write", made)
  IN  Timeout(Timeout(t, "backend", made), "100continue", made)

(* What epoll reports (fd_source_emit), then the timers.                   *)
LoopTurn ==
  /\ Idle /\ p.events = <<>>
  /\ p.edge # {} \/ p.expired # {}
  /\ LET s == IF "in" \in p.edge THEN nxe_istream_set_ready(p, "in") ELSE p
         t == IF "out" \in p.edge THEN nxe_ostream_set_ready(s, "out") ELSE s
         u == CASE "err" \in p.edge -> nxe_publish(t, "sock_error")
                [] "err" \notin p.edge /\ "hup" \in p.edge -> nxe_publish(t, "data_error")
                [] OTHER -> t
     IN  \E made \in BOOLEAN : p' = ProcessTimers([u EXCEPT !.edge = {}], made)
  /\ UNCHANGED <<cur, rounds>>

Popped == [p EXCEPT !.events = Tail(@)]
Delivers(m) == Idle /\ p.events # <<>> /\ Head(p.events) = m

StreamBegin(x) ==
  /\ Delivers(x)
  /\ p' = Popped /\ cur' = x /\ rounds' = 0

(* One round of stream_event_deliver; the ring of the request's body gives *)
(* at most size pieces (its end is in between).                            *)
do_stream(x, size) ==
  CASE x = "in" -> data_in_do_read(p)
    [] x = "out" -> data_out_do_write(p, size)
    [] x = "req" -> rb_req_do_write(p, size)
    [] x = "resp" -> rb_resp_do_read(p)

StreamRound(x) ==
  /\ cur = x /\ Flowing(p, x) /\ rounds < LoopGuard
  /\ \E size \in 1 .. RbufSize : p' = do_stream(x, size)
  /\ rounds' = rounds + 1
  /\ UNCHANGED cur

(* Not ready any more, or too many rounds: relinked behind the others.     *)
(* The code run by the rounds may have linked the event already; then the  *)
(* assertion of nxe_link would fail, but rb_resp is full before that.      *)
StreamEnd(x) ==
  /\ cur = x
  /\ ~ Flowing(p, x) \/ rounds = LoopGuard
  /\ p' = IF Flowing(p, x) THEN nxe_link(p, x) ELSE p
  /\ cur' = "none" /\ rounds' = 0

SocketErrorDelivered ==
  /\ \/ Delivers("data_error") /\ p' = data_error_on_message(Popped, TRUE)
     \/ Delivers("sock_error") /\ p' = data_error_on_message(Popped, FALSE)
  /\ UNCHANGED <<cur, rounds>>

(* Messages of the client protocol, to the handler.                        *)
HandlerMessage ==
  /\ p.place # "pool"
  /\ \/ Delivers("connected") /\ p' = Popped
     \/ Delivers("response") /\ p' = OnResponse(Popped)
     \/ Delivers("complete") /\ p' = [Popped EXCEPT !.complete = TRUE]
     \/ /\ Delivers("error")
        /\ \E made \in BOOLEAN : p' = OnError(Popped, made)
  /\ UNCHANGED <<cur, rounds>>

(* Mutant of IdleMessage: the pool does not listen to its connections.     *)
IdleIgnored ==
  /\ p.place = "pool"
  /\ \E m \in HcpMessages : Delivers(m) /\ p' = Popped
  /\ UNCHANGED <<cur, rounds>>

(* nxd_http_proxy_events_sub_on_message, "only subscribed while connection *)
(* is in idle pooled state".                                               *)
IdleMessage ==
  /\ p.place = "pool"
  /\ \E m \in HcpMessages :
       Delivers(m) /\ p' = IF m = "error" THEN nxd_http_proxy_finalize(Popped) ELSE Popped
  /\ UNCHANGED <<cur, rounds>>

-----------------------------------------------------------------------------
(* The client's connection (module HttpServerProto).                       *)

(* nxweb_http_proxy_handler_on_headers.                                    *)
RequestBegins(m, n, made) ==
  /\ Idle /\ p.conn = "idle" /\ p.no < MaxRequests
  /\ m = "POST" <=> n > 0
  /\ LET s == [p EXCEPT !.no = @ + 1, !.method = m, !.size = n, !.left = n,
                        !.conn = IF n > 0 THEN "receiving" ELSE "handling"]
         t == start_proxy_request(s, made)
     IN  p' = IF t.place = "used" THEN t
              ELSE [t EXCEPT !.conn = "sending", !.via = "error"]
  /\ UNCHANGED <<cur, rounds>>

(* The body of the request comes into rb_req (rbuffer_data_in_do_read).    *)
ClientSendsBody(k) ==
  /\ Idle /\ p.conn = "receiving" /\ p.place = "used"
  /\ k <= p.left /\ p.rb_req + k <= RbufSize
  /\ p' = nxe_istream_set_ready(
            [p EXCEPT !.rb_req = @ + k, !.left = @ - k, !.eof_req = k = p.left,
                      !.conn = IF k = p.left THEN "handling" ELSE @], "req")
  /\ UNCHANGED <<cur, rounds>>

(* The response goes out of rb_resp (nxd_rbuffer_read).                    *)
ClientTakes(k) ==
  /\ Idle /\ p.conn = "sending" /\ p.via = "backend" /\ k <= p.rb_resp
  /\ LET s == [p EXCEPT !.rb_resp = @ - k]
     IN  p' = IF p.eof_resp THEN s ELSE nxe_ostream_set_ready(s, "resp")
  /\ UNCHANGED <<cur, rounds>>

(* The client has its response: an error, one without a body, or all of    *)
(* what came from the backend.  NXD_HSP_REQUEST_COMPLETE is published.     *)
ClientDone ==
  /\ Idle /\ p.conn = "sending" /\ ~ InLoop(p, "client")
  /\ \/ p.via = "error"
     \/ p.method = "HEAD"
     \/ p.resp.framing \in {"length", "final"} /\ p.resp.size = 0
     \/ p.eof_resp /\ p.rb_resp = 0
  /\ p' = nxe_publish(p, "client")
  /\ UNCHANGED <<cur, rounds>>

(* The client hangs up, or a timer of its connection expires.              *)
ClientGone ==
  /\ Idle /\ p.conn # "idle" /\ ~ InLoop(p, "client")
  /\ p' = nxe_publish(p, "client")
  /\ UNCHANGED <<cur, rounds>>

(* The request is cleaned up or the connection finalized.                  *)
ClientMessage ==
  /\ Delivers("client")
  /\ p' = request_finalize(Popped)
  /\ UNCHANGED <<cur, rounds>>

-----------------------------------------------------------------------------
(* Backends and time.                                                      *)

Connected == p.place # "none" /\ p.state # "CONNECTING"

BackendAccepts ==
  /\ p.place = "used" /\ p.state = "CONNECTING" /\ ~ p.os["out"]
  /\ "out" \notin p.edge /\ ~ p.rdclosed
  /\ p' = [p EXCEPT !.edge = @ \cup {"out"}]
  /\ UNCHANGED <<cur, rounds>>

BackendReads ==
  /\ Connected /\ p.room < TxRoom /\ ~ p.rdclosed
  /\ p' = [p EXCEPT !.room = TxRoom, !.edge = @ \cup {"out"}]
  /\ UNCHANGED <<cur, rounds>>

Backend100 ==
  /\ Connected /\ ~ p.rdclosed /\ p.owed /\ ~ p.said100 /\ p.size > 0
  /\ p' = [p EXCEPT !.said100 = TRUE, !.pend = Append(@, Piece("100"))]
  /\ UNCHANGED <<cur, rounds>>

(* One response for each request, with or without waiting for its body.    *)
BackendAnswers(f, h, n) ==
  /\ Connected /\ ~ p.rdclosed /\ p.owed
  /\ LET body == [i \in 1 .. n |-> Piece("body")] \o
                   (CASE f = "chunked" -> <<Piece("end")>>
                      [] f = "broken" -> <<Piece("junk")>>
                      [] OTHER -> <<>>)
         head == [i \in 1 .. h |-> Piece("part")] \o
                   (IF f = "bad" THEN <<Piece("bad")>> ELSE <<HeadEnd(f, n, p.asked)>>)
     IN  p' = [p EXCEPT !.owed = FALSE, !.toend = (f = "close"), !.said100 = FALSE,
                        !.pend = @ \o head \o (IF p.method = "HEAD" THEN <<>> ELSE body)]
  /\ UNCHANGED <<cur, rounds>>

(* One more piece is there to be read: several if this step is repeated.   *)
BackendSends ==
  /\ p.pend # <<>> /\ ~ p.rdclosed
  /\ p' = [p EXCEPT !.wire = Append(@, Head(p.pend)), !.pend = Tail(@),
                    !.edge = @ \cup {"in"}]
  /\ UNCHANGED <<cur, rounds>>

(* An orderly close, also in the middle of a response that tells its size. *)
BackendCloses ==
  /\ Connected /\ ~ p.rdclosed
  /\ p.toend => p.pend = <<>>
  /\ p' = [p EXCEPT !.rdclosed = TRUE, !.pend = <<>>, !.edge = @ \cup {"in", "hup"}]
  /\ UNCHANGED <<cur, rounds>>

(* A refused or broken connection: no more data, epoll reports an error.   *)
BackendFails ==
  /\ p.place # "none" /\ ~ p.rdclosed
  /\ p' = [p EXCEPT !.rdclosed = TRUE, !.wire = <<>>, !.pend = <<>>, !.edge = @ \cup {"err"}]
  /\ UNCHANGED <<cur, rounds>>

Expire(t) ==
  /\ t \in p.timers \ p.expired
  /\ p' = [p EXCEPT !.expired = @ \cup {t}]
  /\ UNCHANGED <<cur, rounds>>

AllServed == p.no = MaxRequests /\ p.conn = "idle" /\ p.place = "none" /\ Idle /\ UNCHANGED vars

-----------------------------------------------------------------------------
NetStep ==
  \/ LoopTurn
  \/ \E x \in Streams : StreamBegin(x) \/ StreamRound(x) \/ StreamEnd(x)
  \/ SocketErrorDelivered \/ HandlerMessage \/ IdleMessage \/ ClientMessage

Client ==
  \/ \E m \in {"GET", "HEAD", "POST"}, n \in BodySizes, made \in BOOLEAN : RequestBegins(m, n, made)
  \/ \E k \in 1 .. RbufSize : ClientSendsBody(k) \/ ClientTakes(k)
  \/ ClientDone \/ ClientGone

Backend ==
  \/ BackendAccepts \/ BackendReads \/ Backend100
  \/ \E f \in Framings, h \in HeadParts, n \in RespSizes : BackendAnswers(f, h, n)
  \/ BackendSends \/ BackendCloses \/ BackendFails

Next ==
  \/ NetStep
  \/ Client
  \/ Backend
  \/ \E t \in Timers : Expire(t)
  \/ AllServed

Spec == Init /\ [][Next]_vars

(* The network thread has something to do: ENABLED <<NetStep>>_vars.       *)
NetReady == ~ Idle \/ p.events # <<>> \/ p.edge # {} \/ p.expired # {}

(* The thread runs (weak fairness of NetStep), time passes, and clients    *)
(* read what they are sent.  Nothing is assumed of backends.               *)
Fairness ==
  /\ []<>(~ NetReady) \/ []<><<NetStep>>_vars
  /\ \A t \in Timers : WF_vars(Expire(t))
  /\ WF_vars(\E k \in 1 .. RbufSize : ClientTakes(k)) /\ WF_vars(ClientDone)

FairSpec == Spec /\ Fairness

-----------------------------------------------------------------------------
(* Properties.                                                             *)

(* Types; the buffers and the send buffer are never overrun, and there are *)
(* never more retries than NXWEB_PROXY_RETRY_COUNT.                        *)
TypeOK ==
  /\ p.state \in {"CONNECTING", "IDLE", "SENDING_HEADERS", "SENDING_BODY",
                  "WAITING_FOR_RESPONSE", "RECEIVING_HEADERS", "RECEIVING_BODY"}
  /\ p.place \in {"none", "used", "pool"}
  /\ p.conn \in {"idle", "receiving", "handling", "sending"}
  /\ p.timers \subseteq Timers /\ p.expired \subseteq p.timers /\ p.pair \subseteq Streams
  /\ p.is \in [Streams -> BOOLEAN] /\ p.os \in [Streams -> BOOLEAN]
  /\ p.room \in 0 .. TxRoom /\ p.rb_req \in 0 .. RbufSize /\ p.rb_resp \in 0 .. RbufSize
  /\ p.retry \in 0 .. RetryCount
  /\ cur \in Streams \cup {"none"} /\ rounds \in 0 .. LoopGuard

(* No assertion fails in nx_event.c (a timer set or an event linked twice),*)
(* in nxd_http_client_proto.c (a request starts on a connecting or idle    *)
(* connection), in nxd_buffer.c (a full ring is not written) or in         *)
(* http_proxy.c (a retry before the response); rdata->hpx is not null      *)
(* where it is used, and no buffer of an earlier request is overwritten.   *)
AssertionsHold == ~ p.tripped

AtRest == Idle /\ p.events = <<>> /\ p.edge = {} /\ p.expired = {}

(* As long as the client waits for the backend, and in the pool, a backend *)
(* connection at rest is under the eye of the timer of its state, so that  *)
(* a silent backend holds neither a request nor a place in the pool.       *)
StateTimer(s) ==
  CASE s.state \in {"CONNECTING", "SENDING_HEADERS", "SENDING_BODY"} -> "write"
    [] s.state = "WAITING_FOR_RESPONSE" /\ s.wait100 -> "100continue"
    [] s.state = "IDLE" -> "keep_alive"
    [] OTHER -> "read"

Waiting == p.conn \in {"receiving", "handling"}

(* The one exception: retry_proxy_request does not look at what            *)
(* start_proxy_request returns, so that a retry that gets no connection    *)
(* leaves the request to the client's patience.  Nothing then comes back   *)
(* to rdata, whose hpx is null: no timer, no message, no stream.           *)
Abandoned ==
  /\ Waiting /\ p.place = "none" /\ p.retry > 0
  /\ p.timers = {} /\ p.pair = {}
  /\ \A m \in HcpMessages \cup SockMessages : ~ InLoop(p, m)

Watched ==
  /\ Waiting /\ p.place = "none" => Abandoned
  /\ AtRest /\ (Waiting \/ p.via = "backend" \/ p.place = "pool") /\ ~ Abandoned =>
       p.place # "none" /\ (StateTimer(p) \in p.timers \/ p.complete)

(* No wake-up is lost between the ends of a stream.                        *)
NoLostReadiness == AtRest => \A x \in p.pair : ~ (p.is[x] /\ p.os[x])

(* A request to a backend never waits for nothing: a timer of              *)
(* nxd_http_client_proto.c watches it, and what could move is scheduled;   *)
(* only a request whose retry got no connection waits unwatched, and then  *)
(* nothing of the backend is left to come back to it.                      *)
NeverStalls == Watched /\ NoLostReadiness

(* A connection in the pool has nothing of the last exchange: it is idle,  *)
(* its buffer returned, nothing attached, only its keep-alive timer runs,  *)
(* and the backend has nothing more to send.                               *)
PoolIsClean ==
  p.place = "pool" =>
    /\ p.state = "IDLE" /\ ~ p.nxb /\ p.pair \subseteq {"in", "out"}
    /\ p.timers \subseteq {"keep_alive"}
    /\ ~ p.owed /\ p.pend = <<>> /\ p.wire = <<>>

(* The client gets the response to its own request, although connections   *)
(* are reused after errors, timeouts and clients that have gone.           *)
RightResponse == p.via = "backend" => p.place = "used" /\ p.resp.no = p.no

(* Reuse mixes no two exchanges: nxd_http_proxy_pool_return keeps only     *)
(* connections without a remainder, and no client gets another's response. *)
CleanReuse == PoolIsClean /\ RightResponse

(* The end of a response is only reported to the client when all of it has *)
(* been passed on.  (Not so for responses that end with the connection.)   *)
WholeResponse ==
  p.eof_resp /\ ~ UntilClose(p.resp) => p.received = p.resp.size

(* A response that ends with the connection is passed on to its end, as    *)
(* "content-length = until-close" of data_error_on_message has it.         *)
UntilCloseWhole ==
  p.eof_resp /\ UntilClose(p.resp) => p.received = p.resp.size

(* The body of a request is never sent to two backends: a request is not   *)
(* repeated once the backend may have acted on its body.                   *)
BodySentOnce == p.bodies <= 1

(* A request for which all is received, and its end, with the response of  *)
(* the backend or without.                                                 *)
Busy == p.conn \in {"handling", "sending"}
Ended == p.conn = "idle"
=============================================================================
