-------------------------------- MODULE MCLive --------------------------------
(***************************************************************************)
(* What must end, on small instances for TLC: a request on a client's      *)
(* connection (HttpServerProto), a request passed to a backend             *)
(* (HttpProxy), a page with includes (SsiPage), a connection over TLS      *)
(* (SslSocket).  Every behaviour is one of one of the four, which is       *)
(* chosen at the beginning; the others rest.  The modules SsiPage and      *)
(* SslSocket have no other run, so their invariants are checked here too.  *)
(***************************************************************************)
EXTENDS SsiPage, SslSocket

CONSTANT Running  \* those that are checked

VARIABLES
  part,
  sc, scur, srounds, sedge, spend, sbegun,  \* HttpServerProto
  p, pcur, prounds                          \* HttpProxy

protoVars == <<sc, scur, srounds, sedge, spend, sbegun>>
proxyVars == <<p, pcur, prounds>>

(* One request of any kind; a send buffer that fills up.                   *)
Proto == INSTANCE HttpServerProto WITH
  c <- sc, cur <- scur, rounds <- srounds, edge <- sedge, pend <- spend, begun <- sbegun,
  MaxRequests <- 1, MaxBody <- 1, BodySizes <- {0, 1}, MaxHeaders <- 3, TxRoom <- 1,
  Kinds <- {"plain", "close", "expect", "chunked", "broken", "malformed", "oversized"},
  LoopGuard <- 2, EarlyResponse <- FALSE, Retries <- 0

(* One request with one retry; a response that ends with the connection.   *)
Proxy == INSTANCE HttpProxy WITH
  cur <- pcur, rounds <- prounds,
  MaxRequests <- 1, BodySizes <- {0, 1}, Framings <- {"close"}, RespSizes <- {1},
  RetryCount <- 1, MaxHeaders <- 2, RbufSize <- 1, HeadRoom <- 2, HeadParts <- {0}, TxRoom <- 1,
  LoopGuard <- 3

(* Documents: two includes next to each other; a directive that is not     *)
(* known, a "<" that opens none and an include; a variable echoed before   *)
(* and after it is set, and a directive that MAX_SSI_SIZE cuts off.        *)
TwoIncludes == <<"<", "#", "include", ">", "<", "#", "include", ">">>
Unknown == <<"<", "#", "x", ">", "<", "x", "<", "#", "include", ">">>
Variable == <<"<", "#", "echo", ">", "<", "#", "set", ">", "<", "#", "echo", ">", "<", "#", "include", ">">>
MCDocs == {TwoIncludes, Unknown, Variable}
MCTwoIncludes == {TwoIncludes}
MCAnswers == {<<"sync", 0>>, <<"worker", 1>>, <<"proxy", 1>>}

(* A TLS handshake of three flights.                                       *)
MCScript == <<"r", "w", "w", "r", "r", "w">>

-----------------------------------------------------------------------------
LiveInit ==
  /\ part \in Running
  /\ PageInit /\ (part # "page" => doc = TwoIncludes /\ ~ head /\ c.eof /\ c.room = 0)
  /\ SslInit /\ (part # "tls" => ~ ssl.bad)
  /\ \/ part = "proto" /\ Proto!Init
     \/ part # "proto" /\ sc = "rest" /\ scur = "rest" /\ srounds = "rest" /\ sedge = "rest"
          /\ spend = "rest" /\ sbegun = "rest"
  /\ \/ part = "proxy" /\ Proxy!Init
     \/ part # "proxy" /\ p = "rest" /\ pcur = "rest" /\ prounds = "rest"

LiveNext ==
  /\ UNCHANGED part
  /\ \/ part = "proto" /\ Proto!Next /\ UNCHANGED <<proxyVars, pageVars, sslVars>>
     \/ part = "proxy" /\ Proxy!Next /\ UNCHANGED <<protoVars, pageVars, sslVars>>
     \/ part = "page" /\ PageNext /\ UNCHANGED <<protoVars, proxyVars, sslVars>>
     \/ part = "tls" /\ SslNext /\ UNCHANGED <<protoVars, proxyVars, pageVars>>

liveVars == <<part, protoVars, proxyVars, pageVars, sslVars>>

(* Of the four, the fairness of the one that runs (Proto!Fairness,         *)
(* Proxy!Fairness, PageFairness or SslFairness): its loop, with ENABLED    *)
(* spelt out, its timers, its workers, backends or client.                 *)
Ready == CASE part = "proto" -> Proto!NetReady
           [] part = "proxy" -> Proxy!NetReady
           [] part = "page" -> CanProgress
           [] part = "tls" -> SslCanProgress
LoopRuns == CASE part = "proto" -> Proto!NetStep
              [] part = "proxy" -> Proxy!NetStep
              [] part = "page" -> Progress
              [] part = "tls" -> SslProgress

requestVars == <<protoVars, proxyVars>>
ByProto(A) == part = "proto" /\ A /\ UNCHANGED proxyVars
ByProxy(A) == part = "proxy" /\ A /\ UNCHANGED protoVars
TimerExpires(t) == \/ t \in Proto!Timers /\ ByProto(Proto!Expire(t))
                   \/ ByProxy(Proxy!Expire(t))

LiveFairness ==
  /\ []<>~ Ready \/ []<><<LoopRuns>>_liveVars
  /\ \A t \in Proxy!Timers : WF_requestVars(TimerExpires(t))
  /\ WF_requestVars(ByProto(Proto!WorkerComplete) \/ ByProxy(Proxy!ClientTakes(1)))
  /\ WF_requestVars(ByProto(Proto!BackendResponds) \/ ByProxy(Proxy!ClientDone))

LiveSpec == LiveInit /\ [][LiveNext]_liveVars /\ LiveFairness

-----------------------------------------------------------------------------
(* The state of the page and of the TLS socket has its type: what the      *)
(* structures of nxd_streamer.c, ssi_filter.c and nxd_ssl_socket.c may     *)
(* hold.                                                                   *)
TypeOK == part \in Running /\ PageTypeOK /\ SslTypeOK

Busy == CASE part = "proto" -> Proto!Busy
          [] part = "proxy" -> Proxy!Busy
          [] part \in {"page", "tls"} -> TRUE
Over == CASE part = "proto" -> Proto!Over
          [] part = "proxy" -> Proxy!Ended \/ Proxy!Abandoned
          [] part = "page" -> PageOver
          [] part = "tls" -> TlsOver

(* Everything ends: a request on a connection (the connection waits for    *)
(* the next or is closed), a proxied request whatever the backend does, a  *)
(* page whatever its includes do, a TLS connection though its streams      *)
(* change hands in the handshake (nxd_http_server_proto.c, http_proxy.c,   *)
(* nxd_streamer.c, nxd_ssl_socket.c).                                      *)
RequestEnds == Busy ~> Over
=============================================================================
