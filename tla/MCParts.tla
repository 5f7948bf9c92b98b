------------------------------- MODULE MCParts -------------------------------
(***************************************************************************)
(* Small instances, for TLC, of the parts of the server that share no      *)
(* state.  Every behaviour is one of one part, which is chosen at the      *)
(* beginning; the others rest in an initial state.                         *)
(***************************************************************************)
EXTENDS RingQueue, MemCache, ObjectPool, ChunkedCodec, FileCache, Templates,
        Dispatch, AccessLog

CONSTANTS Running,        \* the parts that are checked
          m1, m2, m3, m4, \* records of the memory cache, requests of the file cache
          n1              \* a network thread

VARIABLE part

(* The permutations of m1, m2, m3, two sets of addresses: no module        *)
(* compares or orders them.                                                *)
Symmetry == Permutations({m1, m2, m3})
MCRecs == {m1, m2, m3, m4}
MCFcRequests == {m1, m2, m3}

(* Two requests overlap in one thread; another one shares the log with it. *)
MCMaxRecords == [t \in NetThreads |-> IF t = n1 THEN 2 ELSE 1]

-----------------------------------------------------------------------------
(* Bodies with the bytes of the framing in them.                           *)
MCContents == {<<>>, <<"CR", "LF", "0", "x">>, <<"1", "CR", "2">>}

(* Templates: inheritance over two levels with "parent" and an include;    *)
(* two parents, an empty include, nested and empty blocks; a template that *)
(* uses itself; raw text, blocks closed too often; nesting that is too     *)
(* deep; a file that is too large.                                         *)
T == <<"text", "">>
B(n) == <<"block", n>>
E == <<"endblock", "">>
MCModified == [a |-> 1, b |-> 1, c |-> 2, d |-> 0]
EmptySite == [a |-> <<>>, b |-> <<>>, c |-> <<>>, d |-> <<>>]
MCSites == {
  EmptySite,
  [a |-> <<<<"use", "b">>, B("m"), T, <<"parent", "">>, E, <<"blank", "">>>>,
   b |-> <<T, B("m"), T, <<"include", "c">>, E, T>>, c |-> <<T, T>>, d |-> <<>>],
  [a |-> <<<<"use", "b">>, <<"use", "c">>, B("n"), <<"parent", "">>, E, B("k"), E>>,
   b |-> <<T, B("m"), T, E, B("m"), B("n"), T, E, E>>,
   c |-> <<B("n"), <<"parent", "">>, T, E, <<"include", "d">>>>, d |-> <<>>],
  [EmptySite EXCEPT !.a = <<T, <<"use", "a">>, B("m"), T, E>>],
  [a |-> <<<<"raw", "">>, B("m"), <<"endraw", "">>, <<"include", "b">>, T, <<"use", "c">>>>,
   b |-> <<T, E>>, c |-> <<E, T>>, d |-> <<>>],
  [EmptySite EXCEPT !.a = <<T, <<"endraw", "">>, B("m"), B("n"), T, B("k"), E, E, E>>],
  [EmptySite EXCEPT !.a = <<<<"use", "b">>, T>>, !.b = [i \in 1 .. 10 |-> T]]}

(* Handlers like those of the sample configuration: files with an image, a *)
(* template and a gzip filter, a proxy with a file cache, a redirect of    *)
(* hosts, a page of one host.                                              *)
AnyHost == [dot |-> FALSE, labels |-> <<>>]
Plain == [decodes |-> FALSE, caches |-> FALSE, delays |-> FALSE, optional |-> FALSE]
ImageFilter == [Plain EXCEPT !.decodes = TRUE]
TemplatesFilter == [Plain EXCEPT !.delays = TRUE]
GzipFilter == [Plain EXCEPT !.caches = TRUE, !.optional = TRUE]
CacheFilter == [Plain EXCEPT !.caches = TRUE]
Bare == [priority |-> 2, secure |-> "any", methods |-> {}, vhost |-> AnyHost, prefix |-> <<>>,
         filters |-> <<>>, memcache |-> FALSE, key |-> "none", selects |-> FALSE]
SendFile == [Bare EXCEPT !.methods = {"get"}, !.filters = <<ImageFilter, TemplatesFilter, GzipFilter>>,
                         !.memcache = TRUE, !.key = "may pass on", !.selects = TRUE]
Proxy == [Bare EXCEPT !.filters = <<CacheFilter, TemplatesFilter>>, !.key = "some", !.prefix = <<"coded">>]
Redirect == [Bare EXCEPT !.priority = 1, !.selects = TRUE, !.secure = "never",
                         !.vhost = [dot |-> TRUE, labels |-> <<"b">>]]
Page == [Bare EXCEPT !.prefix = <<"">>, !.secure = "only",
                     !.vhost = [dot |-> FALSE, labels |-> <<"a", "b">>]]
MCConfigs == {<<>>, <<SendFile, Proxy, Redirect, Page>>, <<Page, Proxy, SendFile, Redirect>>}
MCRequests ==
  [secure : BOOLEAN, method : {"get", "post"}, body : BOOLEAN, host : {<<>>, <<"b">>, <<"a", "b">>},
   uri : {<<"">>, <<"coded">>, <<"coded", "x">>}, since : {"none"}]

-----------------------------------------------------------------------------
PartsInit ==
  /\ part \in Running
  /\ nx_queue_init /\ PoolInit
  /\ CacheInit /\ (part # "cache" => \A k \in Keys : fmtime[k] = 1)
  /\ CodecInit /\ (part # "codec" => content = <<>> /\ ~ eof)
  /\ FileCacheInit /\ (part # "files" => ttl = 0)
  /\ TemplatesInit /\ (part # "templates" => site = EmptySite /\ tf.since = 0)
  /\ DispatchInit /\ (part # "dispatch" => d.config = <<>>)
  /\ LogInit /\ (part # "log" => log.fd = 0)

PartsNext ==
  /\ UNCHANGED part
  /\ \/ part = "ring" /\ RingNext
        /\ UNCHANGED <<memVars, poolVars, codecVars, fcVars, tfVars, d, logvars>>
     \/ part = "cache" /\ CacheNext
        /\ UNCHANGED <<ringVars, poolVars, codecVars, fcVars, tfVars, d, logvars>>
     \/ part = "pool" /\ PoolNext
        /\ UNCHANGED <<ringVars, memVars, codecVars, fcVars, tfVars, d, logvars>>
     \/ part = "codec" /\ CodecNext
        /\ UNCHANGED <<ringVars, memVars, poolVars, fcVars, tfVars, d, logvars>>
     \/ part = "files" /\ FileCacheNext
        /\ UNCHANGED <<ringVars, memVars, poolVars, codecVars, tfVars, d, logvars>>
     \/ part = "templates" /\ TemplatesNext
        /\ UNCHANGED <<ringVars, memVars, poolVars, codecVars, fcVars, d, logvars>>
     \/ part = "dispatch" /\ DispatchNext
        /\ UNCHANGED <<ringVars, memVars, poolVars, codecVars, fcVars, tfVars, logvars>>
     \/ part = "log" /\ LogNext
        /\ UNCHANGED <<ringVars, memVars, poolVars, codecVars, fcVars, tfVars, d>>

partsVars == <<part, ringVars, memVars, poolVars, codecVars, fcVars, tfVars, d, logvars>>
PartsSpec == PartsInit /\ [][PartsNext]_partsVars

(* The state of every part has its type: what the fields of the structures *)
(* in nx_queue_tpl.h, cache.c, nx_pool.c, http_utils.c, access_log.c,      *)
(* http_server.c, templates.h and the filters may hold.                    *)
TypeOK ==
  /\ part \in Running
  /\ RingTypeOK /\ CacheTypeOK /\ PoolTypeOK /\ CodecTypeOK /\ FileCacheTypeOK
  /\ TemplatesTypeOK /\ DispatchTypeOK /\ LogTypeOK
=============================================================================
