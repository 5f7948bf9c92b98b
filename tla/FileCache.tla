------------------------------ MODULE FileCache ------------------------------
(***************************************************************************)
(* The file cache of filters/file_cache_filter.c for one cache key, with   *)
(* the part of http_server.c that calls it (fc_serve_from_cache,           *)
(* nxweb_start_sending_response).  FcRequests run in several network       *)
(* threads, so their system calls interleave.  Files are inodes: a request *)
(* stores into <key>.nxc.tmp, which O_EXCL gives to one request at a time, *)
(* and links the file to <key>.nxc when its content is complete.           *)
(*                                                                         *)
(* A version of the content is identified by its Last-Modified time; a     *)
(* file's content is a sequence of pieces <<version, k>>.  The inode a     *)
(* request creates is named after the request.                             *)
(***************************************************************************)
EXTENDS Naturals, Sequences, FiniteSets

CONSTANTS FcRequests,    \* the requests
          MaxVersion,  \* versions of the content at the backend
          Size,        \* pieces of a version
          MaxTime,     \* the clock's bound
          MaxAge,      \* a max-age
          MaxFaults    \* failed writes to the cache file and crashes of the server

ASSUME FileCacheAssumption ==
  /\ 0 \notin FcRequests /\ MaxVersion \in Nat \ {0} /\ Size \in Nat \ {0}
  /\ MaxTime \in Nat \ {0} /\ MaxAge \in Nat \ {0} /\ MaxFaults \in Nat

VARIABLES
  time, origin,     \* the time; the backend's version of the content
  ttl,             \* the max-age the backend gives, 0 if none
  cache, tmp,      \* the inodes <key>.nxc and <key>.nxc.tmp name, 0 if none
  inode,           \* header and content of every inode
  req,             \* the requests (fc_filter_data and the response)
  faults, crashes  \* faults so far

fcVars == <<time, origin, ttl, cache, tmp, inode, req, faults, crashes>>
World == <<time, origin, ttl, faults, crashes>>
Files == <<cache, tmp, inode>>

Content(v) == [k \in 1 .. Size |-> <<v, k>>]

NoFile == [ver |-> 0, age |-> 0, data |-> <<>>, mtime |-> 0]

NewRequest ==
  [pc |-> "new",
   since |-> 0,        \* the client's If-Modified-Since, 0 if none
   ims |-> 0,          \* req->if_modified_since
   revalidation |-> FALSE,
   fd |-> 0,           \* fcdata->fd: the cached file, or the one being stored
   sendfile |-> 0,     \* resp->sendfile_fd
   open |-> 0,         \* descriptors that are open
   hdr |-> 0,          \* the version in fcdata->hdr, 0 if none was read
   age |-> 0,          \* and its max_age
   status |-> 0, ver |-> 0, max_age |-> 0,  \* the response
   storing |-> FALSE,  \* fcdata->fd is open on the file tmp_fpath
   out |-> <<>>]       \* what the client has got

FileCacheInit ==
  /\ time = 1 /\ origin = 1 /\ ttl \in {0, MaxAge} /\ cache = 0 /\ tmp = 0 /\ faults = 0 /\ crashes = 0
  /\ inode = [i \in FcRequests |-> NoFile]
  /\ req = [r \in FcRequests |-> NewRequest]

Set(r, q) == req' = [req EXCEPT ![r] = q]

-----------------------------------------------------------------------------
(* nxd_http_server_proto_start_sending_response: 304 if the client has the *)
(* version already, then content_out is not read.  What was read of the    *)
(* cached file, and the client's date, are not used any more.              *)
Sending(q, pc) ==
  LET s == [q EXCEPT !.hdr = 0, !.age = 0, !.revalidation = FALSE, !.since = 0, !.ims = 0]
  IN  IF q.since # 0 /\ q.ver <= q.since THEN [s EXCEPT !.pc = "finish", !.status = 304]
      ELSE [s EXCEPT !.pc = pc]

(* fc_serve: the descriptor becomes the response's, fcdata->fd = 0.        *)
fc_serve(q) ==
  Sending([q EXCEPT !.sendfile = q.fd, !.fd = 0, !.status = 200, !.ver = q.hdr], "serving")

(* fc_read_header of the file the name leads to.                           *)
fc_read_header(q) ==
  [q EXCEPT !.fd = cache, !.open = @ + 1, !.hdr = inode[cache].ver, !.age = inode[cache].age]

(* fc_serve_from_cache up to on_select: _nxweb_fc_serve_from_cache.  The   *)
(* backend is asked unless the cached file is good still.                  *)
fc_serve_from_cache(r) ==
  /\ req[r].pc = "new"
  /\ \E since \in 0 .. 1 :  \* what the client has
     LET q == [req[r] EXCEPT !.since = since]
         h == fc_read_header(q)
     IN  CASE cache = 0 -> Set(r, [q EXCEPT !.pc = "asked", !.ims = 0])
           [] cache # 0 /\ inode[cache].mtime < time ->
                Set(r, [h EXCEPT !.pc = "asked", !.ims = h.hdr, !.revalidation = TRUE])
           [] cache # 0 /\ inode[cache].mtime >= time -> Set(r, fc_serve(h))
  /\ UNCHANGED <<World, Files>>

(* What is left of a request: the descriptors that nobody closes.          *)
Ended(q) ==
  [NewRequest EXCEPT !.pc = "done",
     !.open = q.open - (IF q.fd # 0 THEN 1 ELSE 0) - (IF q.sendfile # 0 THEN 1 ELSE 0)]

(* A file without a name and without a descriptor is gone.                 *)
Reclaimed(rq, tm) ==
  [i \in FcRequests |-> IF i \in {cache, tm} \cup UNION {{rq[r].fd, rq[r].sendfile} : r \in FcRequests}
                        THEN inode[i] ELSE NoFile]

(* Mutant of fc_finalize: the temporary file is left.                      *)
FinalizeLeavesTmp(r, q) ==
  /\ Set(r, Ended(q))
  /\ UNCHANGED <<World, Files>>

(* The request's finalizers: _nxweb_fc_finalize closes the file, and       *)
(* removes the one that was being stored; the server closes sendfile_fd.   *)
fc_finalize(r, q) ==
  /\ Set(r, Ended(q))
  /\ tmp' = IF q.fd # 0 /\ q.storing THEN 0 ELSE tmp
  /\ inode' = Reclaimed(req', tmp')
  /\ UNCHANGED <<World, cache>>

(* The handler refuses the request (on_select), and the filters are        *)
(* finalized before the next handler is tried; or the request fails.       *)
Abandon(r) ==
  /\ req[r].pc \in {"asked", "answered", "sending", "serving"}
  /\ fc_finalize(r, [req[r] EXCEPT !.ims = req[r].since])

(* The backend answers: with its version, 304, or an error.                *)
BackendAnswers(r) ==
  /\ req[r].pc = "asked" /\ UNCHANGED <<World, Files>>
  /\ \E st \in {200, 304, 500} :
       /\ st = 304 => req[r].ims = origin
       /\ Set(r, [req[r] EXCEPT !.pc = "answered", !.status = st, !.ver = origin, !.max_age = ttl])

(* _nxweb_fc_revalidate with a response 304, or 5xx: the cached version is *)
(* served.  A new time to expire is set by name (utime).                   *)
fc_revalidate(r) ==
  LET q == req[r]
      age == IF q.max_age > 0 THEN q.max_age ELSE q.age
  IN  /\ q.pc = "answered" /\ q.revalidation /\ q.status \in {304, 500}
      /\ Set(r, fc_serve([q EXCEPT !.ims = q.since]))
      /\ inode' = IF q.status = 304 /\ age > 0 /\ cache # 0
                  THEN [inode EXCEPT ![cache].mtime = time + age] ELSE inode
      /\ UNCHANGED <<World, cache, tmp>>

(* The response is passed on and not stored.                               *)
NotStored(r, q) == Set(r, Sending(q, "sending")) /\ UNCHANGED <<World, Files>>

(* Mutant of CanCreate: open without O_EXCL.                               *)
NotExclusive(q) == TRUE

(* Whether open(tmp_fpath, O_CREAT|O_EXCL) succeeds.                       *)
CanCreate(q) == tmp = 0

(* fc_store_begin: the file is created with its header, or the write of    *)
(* the header fails and it is removed again (fc_store_abort).              *)
fc_store_begin(r, q) ==
  \/ /\ tmp' = IF tmp = 0 THEN r ELSE tmp
     /\ Set(r, Sending([q EXCEPT !.fd = tmp', !.storing = TRUE, !.open = @ + 1], "sending"))
     /\ inode' = [inode EXCEPT ![tmp'] = [ver |-> q.ver, age |-> q.max_age, data |-> <<>>,
                                          mtime |-> 0]]
     /\ UNCHANGED <<World, cache>>
  \/ /\ faults + crashes < MaxFaults /\ faults' = faults + 1
     /\ Set(r, Sending(q, "sending")) /\ UNCHANGED <<time, origin, ttl, crashes, Files>>

(* Any other response: _nxweb_fc_revalidate closes the cached file, and    *)
(* _nxweb_fc_store stores a 200 unless the version is the one it had read. *)
fc_store(r) ==
  LET q == [req[r] EXCEPT !.ims = req[r].since, !.fd = 0,
                          !.open = @ - (IF req[r].fd # 0 THEN 1 ELSE 0)]
  IN  /\ q.pc = "answered" /\ ~ (q.revalidation /\ q.status \in {304, 500})
      /\ IF q.status = 200 /\ q.hdr # q.ver /\ CanCreate(q) THEN fc_store_begin(r, q)
         ELSE NotStored(r, q)

Appended(q, piece) == [inode EXCEPT ![q.fd].data = Append(@, piece)]

(* fc_data_in_write_or_sendfile: what the client took is appended to the   *)
(* file; if that fails the file is given up (fc_store_append, _abort).     *)
fc_data_in_write(r) ==
  LET q == req[r]
      piece == <<q.ver, Len(q.out) + 1>>
      sent == [q EXCEPT !.out = Append(@, piece)]
  IN  /\ q.pc = "sending" /\ Len(q.out) < Size
      /\ \/ /\ Set(r, sent)
            /\ inode' = IF q.storing THEN Appended(q, piece) ELSE inode
            /\ UNCHANGED <<World, cache, tmp>>
         \/ /\ q.storing /\ faults + crashes < MaxFaults /\ faults' = faults + 1
            /\ Set(r, [sent EXCEPT !.fd = 0, !.storing = FALSE, !.open = @ - 1])
            /\ tmp' = 0 /\ UNCHANGED <<time, origin, ttl, crashes, cache, inode>>

Expires(q) == IF q.max_age > 0 THEN time + q.max_age ELSE time - 1

(* The end of the content; fc_store_close: futimes, close.                 *)
fc_store_close(r) ==
  LET q == req[r]
  IN  /\ q.pc = "sending" /\ Len(q.out) = Size
      /\ IF ~ q.storing THEN Set(r, [q EXCEPT !.pc = "finish"]) /\ UNCHANGED inode
         ELSE /\ Set(r, [q EXCEPT !.pc = "unlink", !.fd = 0, !.storing = FALSE, !.open = @ - 1])
              /\ inode' = [inode EXCEPT ![q.fd].mtime = Expires(q)]
      /\ UNCHANGED <<World, cache, tmp>>

(* ... unlink(cache_fpath) ...                                             *)
CloseUnlink(r) ==
  /\ req[r].pc = "unlink" /\ cache' = 0
  /\ Set(r, [req[r] EXCEPT !.pc = "link"]) /\ UNCHANGED <<World, tmp, inode>>

(* ... link(tmp_fpath, cache_fpath), which fails if the name exists ...    *)
CloseLink(r) ==
  /\ req[r].pc = "link" /\ cache' = IF cache = 0 THEN tmp ELSE cache
  /\ Set(r, [req[r] EXCEPT !.pc = "untmp"]) /\ UNCHANGED <<World, tmp, inode>>

(* ... unlink(tmp_fpath).                                                  *)
CloseUnlinkTmp(r) ==
  /\ req[r].pc = "untmp" /\ tmp' = 0
  /\ Set(r, [req[r] EXCEPT !.pc = "finish"]) /\ UNCHANGED <<World, cache, inode>>

(* The cached file is sent, by its descriptor, up to the length that its   *)
(* header, or its size, gave.                                              *)
SendCached(r) ==
  LET q == req[r]
  IN  /\ q.pc = "serving"
      /\ IF Len(q.out) < Len(inode[q.sendfile].data)
         THEN Set(r, [q EXCEPT !.out = Append(@, inode[q.sendfile].data[Len(q.out) + 1])])
         ELSE Set(r, [q EXCEPT !.pc = "finish"])
      /\ UNCHANGED <<World, Files>>

Finish(r) == req[r].pc = "finish" /\ fc_finalize(r, req[r])

-----------------------------------------------------------------------------
TimePasses ==
  /\ time < MaxTime /\ time' = time + 1
  /\ UNCHANGED <<origin, ttl, Files, req, faults, crashes>>

Modify ==
  /\ origin < MaxVersion /\ origin' = origin + 1
  /\ UNCHANGED <<time, ttl, Files, req, faults, crashes>>

(* The server crashes and the daemon starts it again: the requests that    *)
(* were running are lost, the files are not.                               *)
Crash ==
  /\ faults + crashes < MaxFaults /\ crashes' = crashes + 1
  /\ req' = [r \in FcRequests |-> IF req[r].pc = "new" THEN req[r]
                                ELSE [NewRequest EXCEPT !.pc = "done"]]
  /\ inode' = Reclaimed(req', tmp)
  /\ UNCHANGED <<time, origin, ttl, cache, tmp, faults>>

FileCacheNext ==
  \/ \E r \in FcRequests :
       \/ fc_serve_from_cache(r) \/ Abandon(r) \/ BackendAnswers(r)
       \/ fc_revalidate(r) \/ fc_store(r) \/ fc_data_in_write(r)
       \/ fc_store_close(r) \/ CloseUnlink(r) \/ CloseLink(r) \/ CloseUnlinkTmp(r)
       \/ SendCached(r) \/ Finish(r)
  \/ TimePasses \/ Modify \/ Crash

FileCacheSpec == FileCacheInit /\ [][FileCacheNext]_fcVars

-----------------------------------------------------------------------------
States == {"new", "asked", "answered", "sending", "serving", "unlink", "link", "untmp",
           "finish", "done"}
Versions == 0 .. MaxVersion
Ages == {0, MaxAge}
Dates == {0, 1}
Statuses == {0, 200, 304, 500}
InodeOrNone == FcRequests \cup {0}
Pieces == Versions \X (1 .. Size)
Inode == [ver : Versions, age : Ages, data : Seq(Pieces), mtime : Nat]
Request ==
  [pc : States, since : Dates, ims : Nat, revalidation : BOOLEAN, fd : InodeOrNone,
   sendfile : InodeOrNone, open : Nat, hdr : Versions, age : Ages, status : Statuses,
   ver : Versions, max_age : Ages, storing : BOOLEAN, out : Seq(Pieces)]

FileCacheTypeOK ==
  /\ time \in 1 .. MaxTime /\ origin \in 1 .. MaxVersion /\ ttl \in Ages
  /\ cache \in InodeOrNone /\ tmp \in InodeOrNone
  /\ inode \in [FcRequests -> Inode] /\ req \in [FcRequests -> Request]
  /\ faults \in Nat /\ crashes \in Nat

(* What the name <key>.nxc leads to is a whole version under its own       *)
(* header, at every moment, crashes included: writers of the same key,     *)
(* failed writes and requests given up in the middle never show there.     *)
CachedWhole == cache # 0 => inode[cache].data = Content(inode[cache].ver)

(* A client gets pieces of one version in order, all of it if the response *)
(* ends well, even when the cached file is replaced while it is being sent *)
(* (file_cache_filter.c serves by descriptor).                             *)
ServedWhole ==
  \A r \in FcRequests :
    LET q == req[r]
    IN  /\ q.out = SubSeq(Content(q.ver), 1, Len(q.out))
        /\ q.pc = "finish" /\ q.status = 200 => q.out = Content(q.ver)

(* The temporary file belongs to a request that is still storing it ("can't*)
(* create cache file; could be open by another request", fc_store_begin),  *)
(* as long as the server has not crashed: no path of the filter leaves one *)
(* behind, which would keep the key from ever being cached again.          *)
TmpHasWriter ==
  tmp # 0 => \/ \E r \in FcRequests : \/ req[r].storing /\ req[r].fd = tmp
                                    \/ req[r].pc \in {"unlink", "link", "untmp"}
             \/ crashes > 0

(* Every descriptor is closed once, by the filter or with the response.    *)
DescriptorsClosed ==
  \A r \in FcRequests :
    LET q == req[r]
    IN  q.open = Cardinality({f \in {"fd", "sendfile"} : q[f] # 0})

(* "can't create cache file %s; could be open by another request"          *)
(* (fc_store_begin): a request that cannot create the temporary file meets *)
(* one that is writing it.  (A crash refutes it: the name outlives its     *)
(* writer, nothing removes it, and the key is never cached again.)         *)
RefusedByWriter ==
  \A r \in FcRequests :
    req[r].pc = "answered" /\ ~ CanCreate(req[r]) =>
      \E w \in FcRequests \ {r} : req[w].storing \/ req[w].pc \in {"unlink", "link", "untmp"}

(* Requests that end, however they end, leave nothing of the filter behind.*)
NothingLeft == TmpHasWriter /\ DescriptorsClosed

-----------------------------------------------------------------------------
(* Why files are whole: the inductive invariant.                           *)

Linking == {"unlink", "link", "untmp"}
Whole(i) == inode[i].data = Content(inode[i].ver)

(* Which descriptors a request has where, and that all of them are open.   *)
FdInv ==
  \A r \in FcRequests :
    LET q == req[r]
    IN  /\ q.storing => q.pc \in {"sending", "finish"} /\ q.fd = r
        /\ q.fd # 0 => q.storing \/ q.pc \in {"asked", "answered"}
        /\ q.sendfile # 0 => q.pc \in {"serving", "finish"}
        /\ q.pc = "serving" => q.sendfile # 0
        /\ q.revalidation => q.fd # 0 /\ q.pc \in {"asked", "answered"}
        /\ q.open = (IF q.fd # 0 THEN 1 ELSE 0) + (IF q.sendfile # 0 THEN 1 ELSE 0)

(* A request that stores or links its file owns the temporary name.        *)
TmpInv ==
  /\ \A r \in FcRequests : req[r].storing \/ req[r].pc \in Linking => tmp = r
  /\ tmp # 0 => req[tmp].storing \/ req[tmp].pc \in Linking \/ crashes > 0

(* Until a request links its file nobody else can reach the file.          *)
HiddenInv ==
  \A r \in FcRequests :
    /\ \/ req[r].pc \in {"new", "asked", "answered", "unlink", "link"}
       \/ req[r].storing
       => cache # r /\ \A s \in FcRequests : req[s].sendfile # r /\ (req[s].fd = r => s = r)
    /\ req[r].pc \in {"new", "asked", "answered"} => tmp # r /\ req[r].fd # r

(* What can be reached is whole, and is the version its reader takes it    *)
(* for; the file that is being stored is what the client has got so far.   *)
WholeInv ==
  /\ cache # 0 => Whole(cache)
  /\ \A r \in FcRequests :
       LET q == req[r]
       IN  /\ q.fd # 0 /\ ~ q.storing => Whole(q.fd) /\ q.hdr = inode[q.fd].ver
           /\ q.sendfile # 0 => Whole(q.sendfile) /\ q.ver = inode[q.sendfile].ver
           /\ q.storing => inode[r].data = q.out /\ inode[r].ver = q.ver
           /\ q.pc \in Linking => Whole(r)

(* What the client has got.                                                *)
OutInv ==
  \A r \in FcRequests :
    LET q == req[r]
    IN  /\ Len(q.out) <= Size /\ q.out = SubSeq(Content(q.ver), 1, Len(q.out))
        /\ q.pc \in {"new", "asked", "answered", "done"} => q.out = <<>>
        /\ q.pc \in Linking \/ (q.pc = "finish" /\ q.status = 200) => Len(q.out) = Size

FileInv ==
  /\ FileCacheTypeOK /\ FdInv /\ TmpInv /\ HiddenInv /\ WholeInv /\ OutInv
=============================================================================
