------------------------------- MODULE SsiPage -------------------------------
(***************************************************************************)
(* A page with server-side includes: the parser of ssi_filter.c cuts the   *)
(* document into nodes of a composite stream (http_subrequest.c), every    *)
(* include is a subrequest (http_server.c,                                 *)
(* nxd_http_server_proto_subrequest.c), and the streamer (nxd_streamer.c)  *)
(* sends the nodes one after another as the body of the response.          *)
(*                                                                         *)
(* Streams (module EventOps): Src from the source of the document to the   *)
(* parser, Node(i) from the content of the i-th node to the streamer, Out  *)
(* from the streamer to the HTTP protocol, Sock from there to the socket.  *)
(*                                                                         *)
(* Data.  A document is a sequence of symbols: "x" is text, "<" followed   *)
(* by "#" opens a directive, ">" closes it, and a word says what it does.  *)
(* What is sent is a sequence of pieces <<p, k>>: the symbol at position p *)
(* (k = 0), the k-th piece of what the include at p brings, the value an   *)
(* echo at p found (k = Value(q), set by the directive at q), or the       *)
(* message that stands for a directive that failed (k = Message).  There   *)
(* is one variable; "set" gives it a new value each time.                  *)
(***************************************************************************)
EXTENDS EventOps, SequencesExt

CONSTANTS Docs,       \* the documents
          Cuts,       \* positions where a read of the document may end
          Answers,    \* who handles a subrequest, and the size of the answer in pieces
          MaxSsiSize, \* MAX_SSI_SIZE, in symbols
          TxRoom,     \* pieces the socket's send buffer holds
          LoopGuard,  \* the 50 of stream_event_deliver
          Heads,      \* whether the method may be, or may not be, HEAD
          MaxErrors   \* errors of the client's connection

ASSUME SsiAssumption ==
  /\ Docs \subseteq Seq({"x", "<", "#", ">", "include", "set", "echo"})
  /\ Cuts \subseteq Nat /\ Answers \subseteq {"sync", "worker", "proxy"} \X Nat
  /\ MaxSsiSize \in Nat /\ TxRoom \in Nat /\ LoopGuard \in Nat
  /\ Heads \subseteq BOOLEAN /\ MaxErrors \in Nat

VARIABLES
  doc,     \* the document
  head,    \* the method is HEAD
  errors,  \* errors of the client's connection so far
  cur,     \* the stream whose event is being delivered, or Idle
  rounds,  \* rounds of the loop in stream_event_deliver
  c        \* the connection, its subrequests and its share of the event loop

pageVars == <<doc, head, errors, cur, rounds, c>>

MaxNodes == 4  \* more than there are in the documents checked
Node(i) == <<"node", i>>
Src == <<"src", 0>>
Out == <<"out", 0>>
Sock == <<"sock", 0>>
Idle == <<"idle", 0>>
Streams == {Src, Out, Sock} \cup {Node(i) : i \in 1 .. MaxNodes}
Message == 9
Value(q) == 10 + q

(* The end of nxweb_start_sending_response: ssi_do_filter has connected    *)
(* the source to the parser and started the composite stream, and the      *)
(* headers are about to be sent.  The source has the whole document (a     *)
(* buffer, a file), or gets it piece by piece (a backend's response).      *)
PageInit ==
  /\ doc \in Docs /\ head \in Heads
  /\ errors = 0 /\ cur = Idle /\ rounds = 0
  /\ \E whole \in BOOLEAN, room \in {0, TxRoom} :
       c = [events |-> (IF whole THEN <<Src>> ELSE <<>>) \o (IF room > 0 THEN <<Sock>> ELSE <<>>),
            is |-> [x \in Streams |-> x = Sock \/ (x = Src /\ whole)],
            os |-> [x \in Streams |-> x \in {Src, Out} \/ (x = Sock /\ room > 0)],
            pair |-> {Src, Out, Sock}, tripped |-> FALSE,
            avail |-> IF whole THEN Len(doc) ELSE 0,  \* symbols the source has
            eof |-> whole,           \* and it will have no more
            parsed |-> 0,            \* symbols cut into nodes
            taken |-> 0,             \* symbols the source has handed over
            var |-> 0,               \* the directive that set the variable last
            nodes |-> <<>>,
            current |-> 0,           \* strm->current, 0 if none
            force_eof |-> FALSE,
            state |-> "SENDING_HEADERS",
            room |-> room,
            out |-> <<>>,            \* pieces of the body that were sent
            ended |-> FALSE,         \* the final chunk was sent
            closing |-> FALSE, freed |-> FALSE, done |-> FALSE,
            stolen |-> FALSE,        \* a subrequest was freed in its worker
            ret |-> 0]               \* the value a write returns

-----------------------------------------------------------------------------
(* The HTTP protocol as the streamer sees it.                              *)

request_complete(s) ==
  nxe_publish(nxe_disconnect_streams(nxe_istream_unset_ready(s, Sock), Out), <<"complete", 0>>)

(* Mutant of Taken: the size of the send buffer is ignored.                *)
TakenAll(s, size) == IF s.os[Sock] THEN size ELSE 0

(* What sock_data_send_write takes of size pieces.                         *)
Taken(s, size) == IF ~ s.os[Sock] THEN 0 ELSE IF s.room < size THEN s.room ELSE size

(* resp_body_in_write_or_sendfile with chunked encoding: the final chunk   *)
(* follows the last piece if there is room for it.                         *)
resp_body_in_write(s, data, eof) ==
  IF s.state # "SENDING_BODY"
  THEN nxe_istream_set_ready([nxe_ostream_unset_ready(s, Out) EXCEPT !.ret = 0], Sock)
  ELSE
  LET n == Taken(s, Len(data))
      last == eof /\ n = Len(data) /\ s.os[Sock]
      ended == last /\ s.room > n
      t == [s EXCEPT !.out = @ \o SubSeq(data, 1, n), !.ret = n,
                     !.room = @ - n - (IF ended THEN 1 ELSE 0),
                     !.ended = @ \/ ended,
                     !.os[Sock] = @ /\ n = Len(data) /\ (last => ended)]
      u == IF t.os[Sock] THEN t
           ELSE nxe_istream_set_ready(nxe_ostream_unset_ready(t, Out), Sock)
  IN  IF ended THEN request_complete(u) ELSE u

-----------------------------------------------------------------------------
(* The streamer.                                                           *)

nxd_streamer_node_start(s, i) ==
  nxe_ostream_set_ready([s EXCEPT !.current = i, !.tripped = @ \/ s.nodes[i].complete], Node(i))

(* Mutant of NextNode: the next node is not started.                       *)
NextNodeNotStarted(s, i) ==
  nxe_ostream_unset_ready(nxe_istream_unset_ready(s, Out), Node(i))

(* The end of node i's stream: the next node starts, or the streamer waits *)
(* for one.                                                                *)
NextNode(s, i) ==
  IF i < Len(s.nodes) THEN nxd_streamer_node_start(s, i + 1)
  ELSE nxe_ostream_unset_ready(nxe_istream_unset_ready(s, Out), Node(i))

(* Mutant of PassedOn: the end of any node is taken for the end of the     *)
(* page.                                                                   *)
PassedAlways(s, i, eof) == eof

(* Only the end of the final node is passed on.                            *)
PassedOn(s, i, eof) == eof /\ s.nodes[i].final

(* Nodes wait in the queue for nxd_streamer_node_start.                    *)
HasTurn(s, i) == i = s.current

(* Node i waits while the protocol does not take more.                     *)
HeldBack(s, i) ==
  IF s.os[Out] THEN s ELSE nxe_istream_set_ready(nxe_ostream_unset_ready(s, Node(i)), Out)

(* What node i has brought was written, with the end of its stream.        *)
NodeComplete(s, i) ==
  LET t == [s EXCEPT !.nodes[i].complete = TRUE]
  IN  IF s.nodes[i].final THEN t ELSE NextNode(t, i)
AfterWrite(s, i, size, eof) == IF eof /\ s.ret = size THEN NodeComplete(s, i) ELSE s

streamer_data_in_write(s, i, data, eof) ==
  LET nothing == [s EXCEPT !.ret = 0]
  IN  IF ~ HasTurn(s, i) THEN nxe_ostream_unset_ready(nothing, Node(i)) ELSE
      AfterWrite(IF ~ (Len(data) > 0 \/ eof) THEN nothing
                 ELSE IF Out \notin s.pair THEN nxe_ostream_unset_ready(nothing, Node(i))
                 ELSE HeldBack(IF s.os[Out] THEN resp_body_in_write(s, data, PassedOn(s, i, eof))
                               ELSE nothing, i),
                 i, Len(data), eof)

(* The source of node i writes what it has.  A buffer always has its end   *)
(* to offer (obuffer_data_out_do_write); a stream without data waits       *)
(* (rbuffer_data_out_do_write, nxd_rbuffer_read).                          *)
Consumed(s, i) ==
  LET n == s.nodes[i]
      rest == SubSeq(n.rest, s.ret + 1, Len(n.rest))
  IN  [s EXCEPT !.nodes[i].rest = rest,
                !.is[Node(i)] = @ /\ ~ (s.ret > 0 /\ rest = <<>> /\ ~ n.eof), !.ret = 0]
NodeDoWrite(s, i) ==
  Consumed(streamer_data_in_write(s, i, s.nodes[i].rest, s.nodes[i].eof), i)

(* A stream x that has nothing more for the stream y is waited for.        *)
Drained(s, x, y) ==
  IF s.is[x] THEN s ELSE nxe_ostream_set_ready(nxe_istream_unset_ready(s, y), x)

streamer_data_out_do_write(s) ==
  IF s.current = 0
  THEN nxe_istream_unset_ready(
         [resp_body_in_write(s, <<>>, TRUE) EXCEPT !.tripped = @ \/ ~ s.force_eof], Out)
  ELSE
  LET x == Node(s.current)
  IN  IF x \notin s.pair THEN nxe_istream_unset_ready(s, Out)
      ELSE Drained(IF s.is[x] THEN NodeDoWrite([s EXCEPT !.os[x] = TRUE], s.current) ELSE s, x, Out)

(* nxweb_composite_stream_close.                                           *)
nxd_streamer_close(s) ==
  LET n == Len(s.nodes)
      t == IF n = 0 THEN [s EXCEPT !.force_eof = TRUE]
           ELSE [s EXCEPT !.nodes[n].final = TRUE, !.force_eof = @ \/ s.nodes[n].complete]
  IN  IF t.force_eof THEN nxe_istream_set_ready(t, Out) ELSE t

(* nxweb_composite_stream_append_node, nxd_streamer_add_node: the node     *)
(* starts at once if the streamer waits for it.                            *)
AppendNode(s, node) ==
  LET n == Len(s.nodes) + 1
      t == [s EXCEPT !.nodes = Append(@, node)]
  IN  IF s.current = 0 \/ s.nodes[s.current].complete THEN nxd_streamer_node_start(t, n) ELSE t

(* A stream that always has its end to offer is connected to node i.       *)
ConnectBuffer(s, i, data) ==
  nxe_connect_streams([s EXCEPT !.nodes[i].rest = data, !.nodes[i].eof = TRUE,
                                !.is[Node(i)] = TRUE], Node(i))

(* A message instead of the content ("<!--[ssi error]-->").                *)
ConnectMessage(s, i) ==
  LET m == <<<<s.nodes[i].at, Message>>>>
  IN  ConnectBuffer([s EXCEPT !.nodes[i].want = m, !.nodes[i].settled = TRUE], i, m)

NewNode(p, sub) ==
  [at |-> p, sub |-> sub, rest |-> <<>>, eof |-> FALSE, final |-> FALSE, complete |-> FALSE,
   how |-> "none",     \* how the subrequest is handled
   size |-> 0,         \* the size of its response, in pieces
   sent |-> 0,         \* pieces of it that have come from the backend
   ok |-> TRUE,        \* its status is 200
   failed |-> FALSE, in_worker |-> FALSE,
   want |-> <<>>, settled |-> FALSE]  \* what the node must bring, once known

(* nxweb_composite_stream_append_bytes of the pieces data.                 *)
AppendBytes(s, p, data) ==
  LET t == AppendNode(s, [NewNode(p, "none") EXCEPT !.want = data, !.settled = TRUE])
  IN  IF data = <<>> THEN s ELSE ConnectBuffer(t, Len(t.nodes), data)

(* nxweb_composite_stream_append_subrequest; nxweb_http_server_subrequest_ *)
(* start refuses when the connection is closing.                           *)
AppendSubrequest(s, p) ==
  LET t == AppendNode(s, NewNode(p, "received"))
      i == Len(t.nodes)
  IN  IF s.closing THEN ConnectMessage([t EXCEPT !.nodes[i].sub = "none"], i)
      ELSE nxe_publish(t, <<"received", i>>)

-----------------------------------------------------------------------------
(* The parser.  What has been read and not cut yet are the symbols from    *)
(* parsed + 1 to Read(s).                                                  *)

Read(s) == IF s.taken < MaxSsiSize THEN s.taken ELSE MaxSsiSize

Text(from, to) == [k \in 1 .. to - from + 1 |-> <<from + k - 1, 0>>]

(* Where the first directive that has been read begins and ends, 0 if none.*)
Opening(s) ==
  LET opens == {p \in s.parsed + 1 .. Read(s) - 1 : doc[p] = "<" /\ doc[p + 1] = "#"}
  IN  IF opens = {} THEN 0 ELSE Min(opens)
Closing(s) ==
  LET closes == {p \in Opening(s) + 2 .. Read(s) : doc[p] = ">"}
  IN  IF Opening(s) = 0 \/ closes = {} THEN 0 ELSE Min(closes)

(* expand_var: a variable that has not been set expands to nothing.        *)
expand_var(s, p) == IF s.var = 0 THEN <<>> ELSE <<<<p, Value(s.var)>>>>

parse_directive(s, p) ==
  CASE doc[p + 2] = "include" -> AppendSubrequest(s, p)
    [] doc[p + 2] = "set" -> [s EXCEPT !.var = p]
    [] doc[p + 2] = "echo" -> AppendBytes(s, p, expand_var(s, p))
    [] OTHER -> AppendBytes(s, p, <<<<p, Message>>>>)

parse_text(s) ==
  LET t == AppendBytes(s, s.parsed + 1, Text(s.parsed + 1, Opening(s) - 1))
  IN  parse_directive([t EXCEPT !.parsed = Closing(s)], Opening(s))

(* while (parse_text(ssib));                                               *)
ParseAll(s) ==
  LET parse[k \in 0 .. Len(doc)] ==
        IF k = 0 THEN s
        ELSE LET t == parse[k - 1] IN IF Closing(t) = 0 THEN t ELSE parse_text(t)
  IN  parse[Len(doc)]

(* Mutant of ssi_buffer_data_in_write: what follows the last directive is  *)
(* not sent.                                                               *)
DataInWriteNoRest(s) ==
  LET t == ParseAll([s EXCEPT !.taken = s.avail])
  IN  IF ~ s.eof THEN nxe_istream_unset_ready(t, Src)
      ELSE nxd_streamer_close([nxe_ostream_unset_ready(t, Src) EXCEPT !.parsed = Read(t)])

(* ssi_buffer_data_in_write of all that the source has.                    *)
ssi_buffer_data_in_write(s) ==
  LET t == ParseAll([s EXCEPT !.taken = s.avail])
      rest == AppendBytes(nxe_ostream_unset_ready(t, Src), t.parsed + 1, Text(t.parsed + 1, Read(t)))
  IN  IF ~ s.eof THEN nxe_istream_unset_ready(t, Src)
      ELSE nxd_streamer_close([rest EXCEPT !.parsed = Read(t)])

-----------------------------------------------------------------------------
(* The connection and its subrequests.                                     *)

(* nxweb_http_server_connection_do_finalize: the tree is freed.            *)
Free(s) ==
  [s EXCEPT !.freed = TRUE, !.events = <<>>, !.pair = {},
            !.stolen = @ \/ \E i \in DOMAIN s.nodes : s.nodes[i].in_worker]

(* nxweb_http_server_connection_check_if_can_close                         *)
can_close(s) == \A i \in DOMAIN s.nodes : ~ s.nodes[i].in_worker

(* nxweb_http_server_connection_finalize of the client's connection.       *)
Finalize(s) ==
  LET t == [s EXCEPT !.closing = TRUE] IN IF can_close(t) THEN Free(t) ELSE t

Handlers == {a[1] : a \in Answers}
Sizes(h) == {a[2] : a \in {b \in Answers : b[1] = h}}

(* The content of subrequest i that has come so far.                       *)
Content(n, to) == [k \in 1 .. to |-> <<n.at, k>>]

(* nxweb_composite_stream_subrequest_on_response_ready                     *)
on_response_ready(s, i) ==
  LET n == s.nodes[i]
      t == [s EXCEPT !.nodes[i].settled = TRUE, !.nodes[i].want = Content(n, n.size)]
  IN  IF ~ n.failed /\ n.ok
      THEN IF n.how = "proxy" /\ n.size > 0 THEN nxe_connect_streams(t, Node(i))
           ELSE ConnectBuffer(t, i, Content(n, n.size))
      ELSE IF Node(i) \in s.pair THEN Finalize(s)
      ELSE ConnectMessage(s, i)

(* nxweb_http_server_connection_finalize of a subrequest: once.            *)
FinalizeSub(s, i) ==
  IF s.nodes[i].failed THEN s
  ELSE on_response_ready([s EXCEPT !.nodes[i].failed = TRUE], i)

(* subrequest_start_sending_response                                       *)
Respond(s, i, ok, size) ==
  nxe_publish([s EXCEPT !.nodes[i].sub = "responding", !.nodes[i].ok = ok,
                        !.nodes[i].size = size], <<"ready", i>>)

(* REQUEST_RECEIVED of subrequest i, handled by h.                         *)
invoke_request_handler(s, i, h) ==
  IF s.closing THEN {[s EXCEPT !.nodes[i].sub = "dropped"]} ELSE
  LET t == [s EXCEPT !.nodes[i].how = h]
  IN  CASE h = "sync" -> {Respond(t, i, TRUE, n) : n \in Sizes(h)} \cup {Respond(t, i, FALSE, 1)}
        [] h = "worker" -> {[t EXCEPT !.nodes[i].sub = "working", !.nodes[i].in_worker = TRUE]}
        [] h = "proxy" -> {[t EXCEPT !.nodes[i].sub = "asked"]}

(* nxweb_http_server_connection_worker_complete_on_message                 *)
worker_complete(s, i) ==
  LET t == [s EXCEPT !.nodes[i].in_worker = FALSE]
  IN  IF s.closing THEN {FinalizeSub(t, i)} ELSE {Respond(t, i, TRUE, n) : n \in Sizes("worker")}

(* REQUEST_COMPLETE: request_cleanup, whose finalizers free subrequests.   *)
request_cleanup(s) == [Free(s) EXCEPT !.freed = FALSE, !.done = TRUE]

(* What a message may lead to.                                             *)
Handled(s, m) ==
  CASE m[1] = "received" -> UNION {invoke_request_handler(s, m[2], h) : h \in Handlers}
    [] m[1] = "ready" -> {on_response_ready(s, m[2])}
    [] m[1] = "worked" -> worker_complete(s, m[2])
    [] m[1] = "complete" -> {request_cleanup(s)}
    [] m[1] = "error" -> {Finalize(s)}

-----------------------------------------------------------------------------
(* data_out_do_write: the headers, then the body.                          *)
WriteHeaders(s) ==
  LET t == [s EXCEPT !.room = @ - 1]
  IN  IF s.room = 0 THEN nxe_ostream_unset_ready(s, Sock)
      ELSE IF head THEN request_complete(t) ELSE [t EXCEPT !.state = "SENDING_BODY"]

WriteBody(s) ==
  IF Out \notin s.pair THEN nxe_istream_unset_ready(s, Sock)
  ELSE Drained(IF s.is[Out] THEN streamer_data_out_do_write([s EXCEPT !.os[Out] = TRUE]) ELSE s,
               Out, Sock)

data_out_do_write(s) ==
  LET t == IF s.state = "SENDING_BODY" THEN s ELSE WriteHeaders(s)
  IN  IF t.state = "SENDING_BODY" THEN WriteBody(t) ELSE t

(* One round of stream_event_deliver.                                      *)
DoWrite(s, x) ==
  CASE x = Src -> ssi_buffer_data_in_write(s)
    [] x = Out -> streamer_data_out_do_write(s)
    [] x = Sock -> data_out_do_write(s)
    [] OTHER -> NodeDoWrite(s, x[2])

Alive == ~ c.freed /\ ~ c.done
Env == <<doc, head, errors>>

(* nxe_process_loop takes the next event.                                  *)
Deliver ==
  /\ Alive /\ cur = Idle /\ c.events # <<>>
  /\ LET e == Head(c.events)
         s == [c EXCEPT !.events = Tail(@)]
     IN  IF e \in Streams THEN c' = s /\ cur' = e /\ rounds' = LoopGuard
         ELSE c' \in Handled(s, e) /\ UNCHANGED <<cur, rounds>>
  /\ UNCHANGED Env

Round ==
  /\ Alive /\ cur # Idle /\ Flowing(c, cur) /\ rounds > 0
  /\ c' = DoWrite(c, cur) /\ rounds' = rounds - 1 /\ UNCHANGED <<Env, cur>>

EndDelivery ==
  /\ Alive /\ cur # Idle /\ (~ Flowing(c, cur) \/ rounds = 0)
  /\ c' = IF Flowing(c, cur) THEN nxe_link(c, cur) ELSE c
  /\ cur' = Idle /\ rounds' = 0 /\ UNCHANGED Env

-----------------------------------------------------------------------------
(* The rest of the world; the loop sees it between two events.             *)

Outside == Alive /\ cur = Idle /\ UNCHANGED <<doc, head, cur, rounds>>

(* The source gets more of the document, or its end.                       *)
SourceGets ==
  /\ Outside /\ ~ c.eof /\ UNCHANGED errors
  /\ \/ c.avail < Len(doc)
        /\ \E n \in {m \in Cuts : c.avail < m /\ m < Len(doc)} \cup {Len(doc)} :
             c' = nxe_istream_set_ready([c EXCEPT !.avail = n], Src)
     \/ c.avail = Len(doc) /\ c' = nxe_istream_set_ready([c EXCEPT !.eof = TRUE], Src)

(* The job of subrequest i is done and the worker says so.                 *)
WorkerDone(i) ==
  /\ Outside /\ c.nodes[i].sub = "working" /\ UNCHANGED errors
  /\ c' = nxe_publish([c EXCEPT !.nodes[i].sub = "worked"], <<"worked", i>>)

(* The backend of subrequest i answers, or the proxy answers 504 for it.   *)
BackendAnswers(i) ==
  /\ Outside /\ c.nodes[i].sub = "asked" /\ UNCHANGED errors
  /\ \/ \E n \in Sizes("proxy") : c' = Respond(c, i, TRUE, n)
     \/ c' = Respond(c, i, FALSE, 1)

Streaming(n) == n.sub = "responding" /\ n.how = "proxy" /\ n.ok /\ ~ n.eof /\ n.size > 0 /\ ~ n.failed

(* A piece of the response, or its end, comes into the rbuffer.            *)
BackendSends(i) ==
  /\ Outside /\ Streaming(c.nodes[i]) /\ UNCHANGED errors
  /\ LET n == c.nodes[i]
     IN  IF n.sent < n.size
         THEN c' = nxe_istream_set_ready(
                [c EXCEPT !.nodes[i].sent = @ + 1,
                          !.nodes[i].rest = Append(@, <<n.at, n.sent + 1>>)], Node(i))
         ELSE c' = nxe_istream_set_ready([c EXCEPT !.nodes[i].eof = TRUE], Node(i))

(* The backend fails in the middle of its response (fail_proxy_request).   *)
BackendFails(i) ==
  /\ Outside /\ Streaming(c.nodes[i]) /\ UNCHANGED errors
  /\ c' = FinalizeSub(c, i)

ClientReads ==
  /\ Outside /\ c.room < TxRoom /\ UNCHANGED errors
  /\ c' = nxe_ostream_set_ready([c EXCEPT !.room = @ + 1], Sock)

(* The client hangs up, or the write timer expires.                        *)
ClientFails ==
  /\ Outside /\ errors < MaxErrors /\ errors' = errors + 1
  /\ c' = nxe_publish(c, <<"error", 0>>)

Progress ==
  \/ Deliver \/ Round \/ EndDelivery \/ SourceGets \/ ClientReads
  \/ \E i \in DOMAIN c.nodes : WorkerDone(i) \/ BackendAnswers(i) \/ BackendSends(i)
PageNext == Progress \/ ClientFails \/ \E i \in DOMAIN c.nodes : BackendFails(i)

PageSpec == PageInit /\ [][PageNext]_pageVars

(* When a step of Progress can be taken; ENABLED Progress, spelt out.      *)
CanProgress ==
  /\ Alive
  /\ \/ cur # Idle \/ c.events # <<>> \/ ~ c.eof \/ c.room < TxRoom
     \/ \E i \in DOMAIN c.nodes : c.nodes[i].sub \in {"working", "asked"} \/ Streaming(c.nodes[i])

(* The loop runs; the source, workers and backends finish; the client      *)
(* reads.  Nothing fails for fairness' sake.  This is                      *)
(* WF_pageVars(Progress).                                                  *)
PageFairness == []<>~ CanProgress \/ []<><<Progress>>_pageVars

-----------------------------------------------------------------------------
(* Types; the parser never runs ahead of what was read.                    *)
PageTypeOK ==
  /\ doc \in Docs /\ head \in BOOLEAN /\ errors \in 0 .. MaxErrors
  /\ cur \in Streams \cup {Idle} /\ rounds \in 0 .. LoopGuard
  /\ c.is \in [Streams -> BOOLEAN] /\ c.os \in [Streams -> BOOLEAN] /\ c.pair \subseteq Streams
  /\ c.room \in 0 .. TxRoom /\ Len(c.nodes) <= MaxNodes /\ c.current \in 0 .. Len(c.nodes)
  /\ c.avail \in 0 .. Len(doc) /\ c.parsed <= Read(c) /\ c.ret = 0

(* The assertions of nxd_streamer.c and nx_event.c hold: a node is not     *)
(* started again after it has ended, EOF is forced only on a closed        *)
(* streamer, and no event is linked twice.                                 *)
PageAssertions == ~ c.tripped

(* A connected stream with both ends ready is in the loop, or being        *)
(* delivered, or is drawn from by a stream that is; the nodes that have    *)
(* ended apart.  No node, and not the page, waits for ever for its turn.   *)
Served(x) == InLoop(c, x) \/ cur = x
NoNodeWaits ==
  Alive =>
    /\ \A x \in {Src, Sock} : Flowing(c, x) => Served(x)
    /\ Flowing(c, Out) => Served(Out) \/ Flowing(c, Sock)
    /\ \A i \in DOMAIN c.nodes :
         Flowing(c, Node(i)) /\ ~ c.nodes[i].complete => Served(Node(i)) \/ Flowing(c, Out)

(* The streams of nxd_streamer.c never stall and never break the rules of  *)
(* the loop, in whatever order nodes are added, filled, closed and sent.   *)
PageFlows == PageAssertions /\ NoNodeWaits

(* What the document says, read without the parser: the positions of the   *)
(* directives' openings, and for each position what it adds to the page.   *)
Limit == IF Len(doc) < MaxSsiSize THEN Len(doc) ELSE MaxSsiSize
Ends(p) == {q \in p + 2 .. Limit : doc[q] = ">"}
InDirective[p \in 0 .. Limit] ==   \* the opening of the directive p is in, 0 if none
  IF p = 0 THEN 0 ELSE
  LET b == InDirective[p - 1]
  IN  IF b # 0 /\ p <= Min(Ends(b)) THEN b
      ELSE IF p < Limit /\ doc[p] = "<" /\ doc[p + 1] = "#" /\ Ends(p) # {} THEN p ELSE 0

(* Where the variable was last set before position p, 0 if nowhere.        *)
LastSet(p) ==
  LET sets == {q \in 1 .. p - 1 : InDirective[q] = q /\ doc[q + 2] = "set"}
  IN  IF sets = {} THEN 0 ELSE Max(sets)

(* The nodes, in their order, are the document cut at its directives, no   *)
(* matter in which pieces it has come and where it is split: every symbol  *)
(* of the text is in one node, every directive that puts something into    *)
(* the page has one, and an echo brings the last value set before it.      *)
NodesMatchDocument ==
  LET text == {p \in 1 .. c.parsed : InDirective[p] = 0}
      opens == {p \in 1 .. c.parsed : /\ InDirective[p] = p
                                      /\ doc[p + 2] # "set"
                                      /\ doc[p + 2] = "echo" => LastSet(p) # 0}
      cut == FlattenSeq([i \in DOMAIN c.nodes |->
               IF c.nodes[i].want # <<>> /\ c.nodes[i].want[1][2] = 0
               THEN [k \in DOMAIN c.nodes[i].want |-> c.nodes[i].want[k][1]]
               ELSE <<c.nodes[i].at>>])
  IN  /\ cut = SetToSortSeq(text \cup opens, <)
      /\ \A i \in DOMAIN c.nodes :
           LET p == c.nodes[i].at
           IN  p \in opens /\ doc[p + 2] = "echo"
                 => c.nodes[i].want = <<<<p, Value(LastSet(p))>>>>

(* What the nodes are to bring, up to the first one that is not known yet. *)
Known ==
  LET unknown == {i \in DOMAIN c.nodes : ~ c.nodes[i].settled}
      upto == IF unknown = {} THEN Len(c.nodes) ELSE Min(unknown) - 1
  IN  FlattenSeq([i \in 1 .. upto |-> c.nodes[i].want])

(* Includes are answered in any order, by workers and backends, and their  *)
(* content comes at any pace: the client gets the nodes' content in the    *)
(* order of the document, each piece once.                                 *)
SentInOrder == IsPrefix(c.out, Known)

(* The final chunk is sent after the whole page and only then: no include  *)
(* that is still running is cut off by the end of another.                 *)
EndsWhole ==
  c.ended => /\ c.eof /\ c.parsed = Limit /\ c.out = Known
             /\ \A i \in DOMAIN c.nodes : c.nodes[i].settled

(* The client gets the page as it is written, all of it or, if the         *)
(* connection fails, a part that does not look like the whole              *)
(* (nxd_streamer.c sends node after node, ssi_filter.c appends them).      *)
PageInOrder == SentInOrder /\ EndsWhole

(* A worker's connection is not freed ("can't close while worker is        *)
(* running"): neither with its parent, nor when the parent's request ends. *)
WorkerKeepsConnection == ~ c.stolen

(* The comment on nxweb_http_server_connection_finalize: a connection that *)
(* could not be closed because of a worker "is marked for closing          *)
(* immediately after worker thread completes".                             *)
ClosedAfterWorkers ==
  c.closing => c.freed \/ c.done \/ \E i \in DOMAIN c.nodes : c.nodes[i].in_worker

(* The page has ended: it was sent to its end, or the connection failed.   *)
PageOver == c.done \/ c.freed \/ c.closing
=============================================================================
