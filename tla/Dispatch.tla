------------------------------- MODULE Dispatch -------------------------------
(***************************************************************************)
(* From a request to its handler and through the handler's filters         *)
(* (http_server.c): handlers are registered in the order of their          *)
(* priorities, the dispatcher tries those that suit the request one after  *)
(* another with nxweb_select_handler, and the response goes through the    *)
(* handler's filters, of which one may delay it.                           *)
(*                                                                         *)
(* Data.  A host is the sequence of its labels, a path the sequence of its *)
(* segments; the segment "coded" is what an image filter decodes into      *)
(* "plain".  What callbacks, caches and filters decide is left open.       *)
(***************************************************************************)
EXTENDS Integers, Sequences, SequencesExt, FiniteSetsExt

CONSTANTS Configs,   \* sequences of handlers, in the order they are registered
          Requests   \* requests

IsSequence(q) == Len(q) \in Nat /\ DOMAIN q = 1 .. Len(q)

ASSUME DispatchAssumption ==
  \A cf \in Configs :
    /\ IsSequence(cf)
    /\ \A i \in DOMAIN cf : /\ cf[i].priority \in Nat /\ IsSequence(cf[i].filters)
                            /\ cf[i].methods \subseteq {"get", "post", "other"}

VARIABLE d  \* the list of handlers, and one request with its response

Default == 0  \* nxweb_default_handler; not in the list here, it matches anything
NoHandler == -1

NoRequest == [secure |-> FALSE, method |-> "get", body |-> FALSE, host |-> <<>>, uri |-> <<>>,
              since |-> "none"]

DispatchInit ==
  \E cf \in Configs :
    d = [config |-> cf,
         list |-> <<>>,          \* nxweb_server_config.handler_list
         pc |-> "register",
         orig |-> NoRequest,     \* the request as it came
         req |-> NoRequest,      \* and as it is now
         at |-> 1,               \* the place in the list the dispatcher is at
         handler |-> NoHandler,  \* conn->handler
         fdata |-> <<>>,         \* req->filter_data: "none", "on" or "bypass"
         idx |-> 0,              \* resp->run_filter_idx
         from |-> 0,             \* the filter whose cache has served the response, or 0
         ran |-> <<>>,           \* the calls of do_filter, in their order
         stored |-> 0,           \* calls of nxweb_cache_store_response
         started |-> 0,          \* calls of start_sending_response
         declined |-> {},        \* handlers that have passed the request on
         failed |-> FALSE]       \* a handler has ended the dispatching with an error

-----------------------------------------------------------------------------
(* Registration.                                                           *)

(* Mutant of PlaceOf: a handler goes before those of its priority.         *)
PlaceBefore(s, h) ==
  1 + Cardinality({i \in DOMAIN s.list : s.config[s.list[i]].priority < s.config[h].priority})

(* Where _nxweb_register_handler puts h: after the handlers of a smaller   *)
(* or the same priority.                                                   *)
PlaceOf(s, h) ==
  LET prio(i) == s.config[s.list[i]].priority
      later == {i \in 2 .. Len(s.list) : prio(i) > s.config[h].priority}
  IN  IF s.list = <<>> \/ s.config[h].priority < prio(1) THEN 1
      ELSE IF later = {} THEN Len(s.list) + 1 ELSE Min(later)

RegisterHandler ==
  /\ d.pc = "register" /\ Len(d.list) < Len(d.config)
  /\ LET h == Len(d.list) + 1 IN d' = [d EXCEPT !.list = InsertAt(@, PlaceOf(d, h), h)]

(* NXD_HSP_REQUEST_RECEIVED: the dispatcher is called.                     *)
ReceiveRequest ==
  /\ d.pc = "register" /\ Len(d.list) = Len(d.config)
  /\ \E r \in Requests : d' = [d EXCEPT !.pc = "dispatch", !.orig = r, !.req = r]

-----------------------------------------------------------------------------
(* Which handlers suit a request.                                          *)

(* nxweb_vhost_match: ".name" stands for name and all that is below it.    *)
vhost_match(host, vhost) ==
  IF vhost.dot THEN IsSuffix(vhost.labels, host) ELSE vhost.labels = host

(* nxweb_url_prefix_match: a prefix ends where a segment of the path does. *)
url_prefix_match(uri, prefix) == IsPrefix(prefix, uri)

is_method_allowed(r, h) == h.methods = {} \/ r.method \in h.methods

(* The conditions of _nxweb_default_request_dispatcher; it keeps the uri   *)
(* the request came with.                                                  *)
Suits(r, h) ==
  /\ IF r.secure THEN h.secure # "never" ELSE h.secure # "only"
  /\ is_method_allowed(r, h)
  /\ h.vhost.labels = <<>> \/ (r.host # <<>> /\ vhost_match(r.host, h.vhost))
  /\ h.prefix = <<>> \/ url_prefix_match(r.uri, h.prefix)

-----------------------------------------------------------------------------
(* The filters of handler s.handler.                                       *)

HandlerOf(s) == s.config[s.handler]
Filters(s) == IF s.handler \in {Default, NoHandler} THEN <<>> ELSE HandlerOf(s).filters
Memcached(s) == s.handler \notin {Default, NoHandler} /\ HandlerOf(s).memcache

(* hsp.cls->start_sending_response.                                        *)
StartSending(s) == [s EXCEPT !.started = @ + 1, !.pc = "sending"]

Store(s) == IF Memcached(s) THEN [s EXCEPT !.stored = @ + 1] ELSE s

(* Mutant of DelayedAt: a delayed response resumes with the filter that    *)
(* has delayed it.                                                         *)
DelayedAtSame(s, i) == [s EXCEPT !.idx = i - 1, !.pc = "delayed"]

(* resp->run_filter_idx=i+1; // resume from next filter                    *)
DelayedAt(s, i) == [s EXCEPT !.idx = i, !.pc = "delayed"]

(* The numbers of a set, the smallest first.                               *)
Increasing(q) == \A i, j \in DOMAIN q : i < j => q[i] < q[j]
InOrder(S) == CHOOSE q \in [1 .. Cardinality(S) -> S] : Increasing(q) /\ Range(q) = S

(* The filters after the first n run; one that delays the response may     *)
(* stop the others, unless the response is an error.                       *)
RunFilters(s, n, error) ==
  LET on == {i \in n + 1 .. Len(Filters(s)) : s.fdata[i] = "on"}
      upto(m) == InOrder({i \in on : i <= m})
      may == {i \in on : Filters(s)[i].delays /\ ~ error}
  IN  {StartSending(Store([s EXCEPT !.ran = @ \o upto(Len(Filters(s)))]))}
        \cup {DelayedAt([s EXCEPT !.ran = @ \o upto(i)], i) : i \in may}

(* nxweb_start_sending_response.                                           *)
nxweb_start_sending_response(s, error) == RunFilters(s, s.idx, error)

-----------------------------------------------------------------------------
(* nxweb_select_handler, in its stages.  A stage gives the set of states   *)
(* it may lead to; a state with pc = "dispatch" goes on to the next stage. *)

GoesOn(s) == s.pc = "dispatch"

Decoded(uri) == [k \in DOMAIN uri |-> IF uri[k] = "coded" THEN "plain" ELSE uri[k]]

(* filter->init (NULL if the request has no use for the filter), then      *)
(* decode_uri (which sets bypass if there is nothing to decode).           *)
InitFilters(s, h) ==
  LET fs == s.config[h].filters
      coded == Decoded(s.req.uri) # s.req.uri
      data(i) == IF fs[i].decodes /\ ~ coded THEN {"bypass"}
                 ELSE IF fs[i].optional THEN {"none", "on"} ELSE {"on"}
      decodes(fd) == \E i \in DOMAIN fs : fs[i].decodes /\ fd[i] = "on"
  IN  {[s EXCEPT !.handler = h, !.fdata = fd, !.req.uri = IF decodes(fd) THEN Decoded(@) ELSE @] :
         fd \in {g \in [DOMAIN fs -> {"none", "on", "bypass"}] : \A i \in DOMAIN fs : g[i] \in data(i)}}

(* The restoring of the fields saved on entry, req, and the finalizing of  *)
(* the filters, after on_select.                                           *)
Restored(s, req) == [s EXCEPT !.req = req, !.handler = NoHandler, !.fdata = <<>>]

PassOn(s, h) == [s EXCEPT !.at = @ + 1, !.declined = @ \cup {h}, !.pc = "next"]

(* A filter serves the response from its cache: the filters after it run.  *)
Served(s, i) == RunFilters([s EXCEPT !.from = i], i, FALSE)

(* Caches: the cache key (on_generate_cache_key of a handler may pass the  *)
(* request on: NXWEB_NEXT), the memory cache, then the filters' own caches *)
(* from the last to the first.  A cache that has expired asks the handler  *)
(* with a date of its own.                                                 *)
TryCaches(s, h) ==
  LET hd == s.config[h]
      caching == {i \in DOMAIN hd.filters : hd.filters[i].caches /\ s.fdata[i] = "on"}
      expired == IF caching = {} THEN {} ELSE {[s EXCEPT !.req.since = "cached"]}
  IN  IF s.req.method # "get" \/ s.req.body \/ hd.key = "none" THEN {s}
      ELSE {s}                                  \* no key, or nothing in the caches
             \cup (IF hd.key = "may pass on" THEN {PassOn(s, h)} ELSE {})
             \cup (IF hd.memcache THEN {StartSending(s)} ELSE {})
             \cup expired
             \cup UNION {Served(s, i) \cup (IF \E j \in caching : j > i
                                            THEN Served([s EXCEPT !.req.since = "cached"], i)
                                            ELSE {}) : i \in caching}

(* on_select: there is none, it accepts the request, it has started the    *)
(* response, it passes the request on, or it fails with an error response. *)
OnSelect(s, h, saved) ==
  LET chosen == [s EXCEPT !.pc = "chosen"]
  IN  IF ~ s.config[h].selects THEN {chosen}
      ELSE {chosen} \cup nxweb_start_sending_response(s, FALSE)
             \cup {PassOn(Restored(s, saved), h)}
             \cup nxweb_start_sending_response([Restored(s, saved) EXCEPT !.failed = TRUE], TRUE)

nxweb_select_handler(s, h) ==
  LET stage2 == UNION {TryCaches(t, h) : t \in InitFilters(s, h)}
  IN  UNION {IF GoesOn(t) THEN OnSelect(t, h, s.req) ELSE {t} : t \in stage2}

(* The dispatcher's loop: the next handler of the list, or the default one.*)
TryHandler ==
  /\ d.pc = "dispatch" /\ d.at <= Len(d.list)
  /\ LET h == d.list[d.at]
     IN  IF ~ Suits(d.orig, d.config[h]) THEN d' = [d EXCEPT !.at = @ + 1]
         ELSE \E t \in nxweb_select_handler(d, h) :
                d' = [t EXCEPT !.pc = IF @ = "next" THEN "dispatch" ELSE @]

UseDefault ==
  /\ d.pc = "dispatch" /\ d.at > Len(d.list)
  /\ d' = [d EXCEPT !.handler = Default, !.fdata = <<>>, !.pc = "chosen"]

-----------------------------------------------------------------------------
(* The rest of REQUEST_RECEIVED, when nothing has started the response:    *)
(* the default handler's on_headers answers 404, a body may not be         *)
(* accepted (405), on_headers may fail or start an error response, and the *)
(* body is read first if there is one.                                     *)
HandleRequest ==
  /\ d.pc = "chosen"
  /\ \/ d.handler = Default /\ d' \in nxweb_start_sending_response(d, TRUE)
     \/ d.handler # Default /\ d' \in nxweb_start_sending_response(d, TRUE)
     \/ d.handler # Default /\ d' = [d EXCEPT !.pc = IF d.req.body THEN "body" ELSE "invoke"]

BodyReceived == d.pc = "body" /\ d' = [d EXCEPT !.pc = "invoke"]

(* invoke_request_handler: on_request answers, or a worker or a backend    *)
(* will.                                                                   *)
InvokeHandler ==
  /\ d.pc = "invoke"
  /\ \/ d' \in nxweb_start_sending_response(d, FALSE)
     \/ d' = [d EXCEPT !.pc = "busy"]

(* The worker or the backend has answered, or has failed.                  *)
AnswerArrives ==
  /\ d.pc = "busy"
  /\ \E error \in BOOLEAN : d' \in nxweb_start_sending_response(d, error)

(* The filter that has delayed the response is done.                       *)
Resume == d.pc = "delayed" /\ d' \in nxweb_start_sending_response(d, FALSE)

DispatchNext ==
  \/ RegisterHandler \/ ReceiveRequest \/ TryHandler \/ UseDefault \/ HandleRequest
  \/ BodyReceived \/ InvokeHandler \/ AnswerArrives \/ Resume

DispatchSpec == DispatchInit /\ [][DispatchNext]_d

-----------------------------------------------------------------------------
DispatchTypeOK ==
  /\ d.list \in Seq(DOMAIN d.config) /\ d.at \in 1 .. Len(d.list) + 1
  /\ d.handler \in (DOMAIN d.config) \cup {Default, NoHandler}
  /\ \A i \in DOMAIN d.fdata : d.fdata[i] \in {"none", "on", "bypass"}
  /\ d.pc \in {"register", "dispatch", "chosen", "body", "invoke", "busy", "delayed", "sending"}

Before(cf, g, h) ==
  \/ cf[g].priority < cf[h].priority
  \/ cf[g].priority = cf[h].priority /\ g < h

(* A request is handled by the first handler that suits it and does not    *)
(* pass it on, in the order of the priorities and, among equals, of the    *)
(* registrations: whatever the handlers tried before have changed in the   *)
(* request.  The default handler gets what no other takes.                 *)
FirstMatch ==
  d.pc \notin {"register", "dispatch"} /\ ~ d.failed =>
    LET suited == {h \in DOMAIN d.config : Suits(d.orig, d.config[h])}
        passed == IF d.handler = Default THEN suited ELSE {g \in suited : Before(d.config, g, d.handler)}
    IN  /\ passed \subseteq d.declined
        /\ d.handler # Default => d.handler \in suited \ d.declined

(* A response goes through the filters of its handler once, in their       *)
(* order, and is stored and started once, although a cache may stand for   *)
(* the first of them, the memory cache for all, and any may delay it.      *)
FiltersOnce ==
  LET on == {i \in DOMAIN d.fdata : d.fdata[i] = "on" /\ i > d.from}
  IN  /\ Increasing(d.ran)
      /\ d.started <= 1 /\ d.stored <= d.started
      /\ d.started = 1 /\ ~ d.failed /\ Range(d.ran) # on => Memcached(d) /\ d.ran = <<>> /\ d.stored = 0

(* The comment in nxweb_select_handler: "since nxweb_select_handler()      *)
(* could be called several times make sure all changed fields returned to  *)
(* initial state".                                                         *)
FieldsRestored == d.pc = "dispatch" => d.req = d.orig

-----------------------------------------------------------------------------
(* The strengthening of FirstMatch and FiltersOnce, of a state s.          *)

(* The list holds the handlers registered so far, in their order.          *)
ListInv(s) ==
  /\ s.config \in Configs /\ s.list \in Seq(Nat) /\ Len(s.list) <= Len(s.config)
  /\ \A i \in 1 .. Len(s.list) : s.list[i] \in 1 .. Len(s.list)
  /\ \A h \in 1 .. Len(s.list) : \E i \in 1 .. Len(s.list) : s.list[i] = h
  /\ \A i, j \in 1 .. Len(s.list) : i < j => Before(s.config, s.list[i], s.list[j])

(* The handlers that suit, before the place the dispatcher is at, have     *)
(* passed the request on, and no other has.                                *)
TriedInv(s) ==
  /\ s.at \in 1 .. Len(s.list) + 1
  /\ IF s.pc = "register" THEN s.at = 1 ELSE Len(s.list) = Len(s.config)
  /\ \A i \in 1 .. Len(s.list) :
       i < s.at /\ Suits(s.orig, s.config[s.list[i]]) => s.list[i] \in s.declined
  /\ \A h \in s.declined : \E i \in 1 .. Len(s.list) : i < s.at /\ s.list[i] = h

(* The handler is the one at that place, or the default one at the end.    *)
Dispatching == {"register", "dispatch"}
ChosenInv(s) ==
  /\ s.pc \in Dispatching => ~ s.failed
  /\ s.pc \notin Dispatching /\ ~ s.failed =>
       \/ s.handler = Default /\ s.at = Len(s.list) + 1
       \/ /\ s.at <= Len(s.list) /\ s.handler = s.list[s.at]
          /\ Suits(s.orig, s.config[s.handler])

(* The filters that have run are those between the cache that served the   *)
(* response and the filter that delayed it, or the end.                    *)
RunUpTo(s, n) == {i \in 1 .. Len(s.fdata) : s.fdata[i] = "on" /\ s.from < i /\ i <= n}
RanInv(s) ==
  /\ IsSequence(s.fdata) /\ Len(s.fdata) = Len(Filters(s))
  /\ s.ran \in Seq(Nat) /\ Increasing(s.ran) /\ s.from \in Nat /\ s.idx \in Nat
  /\ s.pc # "sending" => s.from <= s.idx
  /\ s.pc \notin {"delayed", "sending"} => s.ran = <<>> /\ s.from = 0 /\ s.idx = 0
  /\ s.pc # "sending" => s.started = 0 /\ s.stored = 0 /\ Range(s.ran) = RunUpTo(s, s.idx)
  /\ s.pc = "sending" =>
       /\ s.started = 1 /\ s.stored \in {0, 1}
       /\ \/ Range(s.ran) = RunUpTo(s, Len(s.fdata))
          \/ Memcached(s) /\ s.ran = <<>> /\ s.stored = 0

DispatchInv == ListInv(d) /\ TriedInv(d) /\ ChosenInv(d) /\ RanInv(d)
=============================================================================
