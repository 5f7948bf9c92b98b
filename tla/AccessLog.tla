------------------------------ MODULE AccessLog ------------------------------
(***************************************************************************)
(* The access log (access_log.c): every network thread collects records in *)
(* a block of its own and flushes the block to the file all threads share; *)
(* a signal makes the main thread close the file and open it anew.         *)
(*                                                                         *)
(* A thread works on several requests at once.  A record is [id, size, at]: *)
(* its thread and its number in the order in which the requests of the     *)
(* thread complete, its size in units of the block, and where it begins in *)
(* its block.  A file that is opened anew is a new file: the log has been  *)
(* rotated.                                                                *)
(***************************************************************************)
EXTENDS Naturals, Sequences

CONSTANTS NetThreads,  \* network threads
          BlockSize,   \* NXWEB_ACCESS_LOG_BLOCK_SIZE
          RecordSizes, \* sizes of records
          MaxRecords,  \* requests of each thread
          MaxRestarts  \* signals that restart the log

ASSUME AccessLogAssumption ==
  /\ BlockSize \in Nat \ {0} /\ RecordSizes \subseteq Nat \ {0}
  /\ MaxRecords \in [NetThreads -> Nat] /\ MaxRestarts \in Nat

VARIABLES
  log,   \* fd: the file that is open, 0 if none; files: what they hold; held: the
         \* main thread holds access_log_start_mux; restarts; stopped; lost: requests
         \* whose record was given up: the log was closed, the record too large,
         \* the write failed
  thr    \* of each thread: pc; bare, begun: requests in progress that have no fragment,
         \* that have one; done: requests completed; block, avail, ptr; out, osize: what is
         \* being flushed; next: the record to add then

logvars == <<log, thr>>

LogInit ==
  /\ \E f \in {0, 1} :  \* the file may fail to open
       log = [fd |-> f, files |-> <<<<>>>>, held |-> FALSE, restarts |-> 0, stopped |-> FALSE, lost |-> {}]
  /\ thr = [t \in NetThreads |-> [pc |-> "idle", bare |-> 0, begun |-> 0, done |-> 0, block |-> <<>>,
                                  avail |-> 0, ptr |-> 0, out |-> <<>>, osize |-> 0, next |-> <<>>]]

(* on_request_received: a fragment if the log is open.                     *)
LogRequestReceived(t) ==
  /\ thr[t].pc = "idle" /\ thr[t].bare + thr[t].begun + thr[t].done < MaxRecords[t]
  /\ thr' = IF log.fd # 0 THEN [thr EXCEPT ![t].begun = @ + 1] ELSE [thr EXCEPT ![t].bare = @ + 1]
  /\ UNCHANGED log

(* on_proxy_response adds another one, and so begins the record of a       *)
(* request that came while the log was closed.                             *)
LogProxyResponse(t) ==
  /\ thr[t].pc = "idle" /\ log.fd # 0 /\ thr[t].bare # 0
  /\ thr' = [thr EXCEPT ![t].bare = @ - 1, ![t].begun = @ + 1]
  /\ UNCHANGED log

(* nxweb_access_log_thread_flush up to the mutex.                          *)
BeginFlush(r, next) ==
  IF r.block = <<>> THEN [r EXCEPT !.next = next]
  ELSE [r EXCEPT !.out = r.block, !.osize = BlockSize - r.avail, !.block = <<>>, !.next = next]

(* Mutant of AddRecord: a new block is filled from where the old one ended.*)
AddRecordStale(r, rec) ==
  LET avail == IF r.block = <<>> THEN BlockSize ELSE r.avail
  IN  [r EXCEPT !.block = Append(@, [rec EXCEPT !.at = r.ptr]),
                !.avail = avail - rec.size, !.ptr = @ + rec.size]

(* The end of nxweb_access_log_write: a block is allocated if need be.     *)
AddRecord(r, rec) ==
  LET b == IF r.block = <<>> THEN [r EXCEPT !.avail = BlockSize, !.ptr = 0] ELSE r
  IN  [b EXCEPT !.block = Append(@, [rec EXCEPT !.at = b.ptr]),
                !.avail = @ - rec.size, !.ptr = @ + rec.size]

Flushes(r, size) == size > r.avail

(* _nxweb_call_request_finalizers of a request without a fragment: there is *)
(* no record.                                                              *)
LogNothing(t) ==
  /\ thr[t].pc = "idle" /\ thr[t].bare # 0
  /\ thr' = [thr EXCEPT ![t].bare = @ - 1, ![t].done = @ + 1]
  /\ log' = [log EXCEPT !.lost = @ \cup {<<t, thr[t].done + 1>>}]

(* Of one that has a fragment: on_request_complete, nxweb_access_log_write.*)
LogRequestComplete(t) ==
  /\ thr[t].pc = "idle" /\ thr[t].begun # 0
  /\ \E size \in RecordSizes :
       LET r == [thr[t] EXCEPT !.begun = @ - 1, !.done = @ + 1]
           rec == [id |-> <<t, r.done>>, size |-> size, at |-> 0]
           too_large == size >= BlockSize
       IN  /\ thr' = [thr EXCEPT ![t] =
                IF too_large THEN r
                ELSE IF Flushes(r, size) THEN [BeginFlush(r, <<rec>>) EXCEPT !.pc = "flush"]
                ELSE AddRecord(r, rec)]
           /\ log' = IF too_large THEN [log EXCEPT !.lost = @ \cup {rec.id}] ELSE log

(* The garbage collection of the thread's loop, and its shutdown.          *)
LogGc(t) ==
  /\ thr[t].pc = "idle" /\ thr[t].block # <<>>
  /\ thr' = [thr EXCEPT ![t] = [BeginFlush(@, <<>>) EXCEPT !.pc = "flush"]]
  /\ UNCHANGED log

(* The thread ends: its loop has run out of connections.                   *)
LogThreadEnds(t) ==
  /\ thr[t].pc = "idle" /\ thr[t].bare = 0 /\ thr[t].begun = 0
  /\ thr' = [thr EXCEPT ![t] = [BeginFlush(@, <<>>) EXCEPT !.pc = "end"]]
  /\ UNCHANGED log

Written(r) ==
  LET s == [r EXCEPT !.out = <<>>, !.osize = 0, !.next = <<>>]
  IN  IF r.next = <<>> THEN s ELSE AddRecord(s, r.next[1])

Ids(q) == {q[i].id : i \in DOMAIN q}

(* The rest of the flush, with the mutex if there is a block.  It is       *)
(* written if the log is open and the file can be locked; a write that     *)
(* falls short leaves m records in the file, of which the last may be torn,*)
(* and all but the first n are lost.                                       *)
FlushBlock(t) ==
  LET r == thr[t]
  IN  /\ r.pc \in {"flush", "end"} /\ (r.out # <<>> => ~ log.held)
      /\ thr' = [thr EXCEPT ![t] = [Written(r) EXCEPT !.pc = IF r.pc = "end" THEN "ended" ELSE "idle"]]
      /\ \/ /\ log.fd # 0
            /\ \E n, m \in 0 .. Len(r.out) :
                 /\ m \in {n, n + 1}
                 /\ log' = [log EXCEPT !.files[log.fd] = @ \o SubSeq(r.out, 1, m),
                                       !.lost = @ \cup Ids(SubSeq(r.out, n + 1, Len(r.out)))]
         \/ log' = [log EXCEPT !.lost = @ \cup Ids(r.out)]

(* nxweb_access_log_restart in the main thread, by SIGUSR1 or SIGHUP: the  *)
(* file is closed, then opened, with the mutex; threads that only look at  *)
(* access_log_fd see it closed in between.                                 *)
RestartClose ==
  /\ ~ log.held /\ ~ log.stopped /\ log.restarts < MaxRestarts
  /\ log' = [log EXCEPT !.held = TRUE, !.fd = 0, !.restarts = @ + 1] /\ UNCHANGED thr

RestartOpen ==
  /\ log.held
  /\ \/ log' = [log EXCEPT !.held = FALSE, !.files = Append(@, <<>>), !.fd = Len(log.files) + 1]
     \/ log' = [log EXCEPT !.held = FALSE]
  /\ UNCHANGED thr

(* nxweb_access_log_stop, after the threads were joined.                   *)
LogStop ==
  /\ ~ log.held /\ ~ log.stopped /\ \A t \in NetThreads : thr[t].pc = "ended"
  /\ log' = [log EXCEPT !.fd = 0, !.stopped = TRUE] /\ UNCHANGED thr

LogNext ==
  \/ \E t \in NetThreads : LogRequestReceived(t) \/ LogProxyResponse(t) \/ LogNothing(t)
                             \/ LogRequestComplete(t) \/ LogGc(t) \/ LogThreadEnds(t) \/ FlushBlock(t)
  \/ RestartClose \/ RestartOpen \/ LogStop

LogSpec == LogInit /\ [][LogNext]_logvars

-----------------------------------------------------------------------------
LogTypeOK ==
  /\ log.fd \in 0 .. Len(log.files) /\ log.restarts \in 0 .. MaxRestarts
  /\ log.held \in BOOLEAN /\ log.stopped \in BOOLEAN
  /\ \A t \in NetThreads :
       /\ thr[t].pc \in {"idle", "flush", "end", "ended"}
       /\ thr[t].bare \in Nat /\ thr[t].begun \in Nat /\ thr[t].done \in Nat
       /\ thr[t].bare + thr[t].begun + thr[t].done \in 0 .. MaxRecords[t]

Filed(files) == UNION {Ids(files[f]) : f \in DOMAIN files}

(* Records of one thread: those in q are older than those in r; those in q *)
(* are in the order of their requests.                                     *)
Older(q, r) ==
  \A i \in DOMAIN q, j \in DOMAIN r : q[i].id[1] = r[j].id[1] => q[i].id[2] < r[j].id[2]
Rising(q) ==
  \A i, j \in DOMAIN q : i < j /\ q[i].id[1] = q[j].id[1] => q[i].id[2] < q[j].id[2]

InSequence(files, r) ==
  /\ \A f \in DOMAIN files :
       /\ Rising(files[f]) /\ \A g \in DOMAIN files : f < g => Older(files[f], files[g])
       /\ Older(files[f], r.out) /\ Older(files[f], r.block) /\ Older(files[f], r.next)
  /\ Rising(r.out) /\ Rising(r.block) /\ Older(r.out, r.block) /\ Older(r.out, r.next)

(* The records of q lie end to end, from the block's beginning to end.     *)
Packed(q, end) ==
  /\ end = IF q = <<>> THEN 0 ELSE q[Len(q)].at + q[Len(q)].size
  /\ \A i \in DOMAIN q : q[i].at = IF i = 1 THEN 0 ELSE q[i - 1].at + q[i - 1].size

(* Across flushes, garbage collections, rotations and the end of the       *)
(* threads the record of a completed request is in the log once, whole and *)
(* after those of the requests its thread completed before, and is missing *)
(* only if it was given up.  A block never overflows, its records neither  *)
(* overlap nor leave gaps, and what is written of it is what it holds (the *)
(* assertions on access_log_block_avail and on the size of a block).       *)
LogExact ==
  \A t \in NetThreads :
    LET r == thr[t]
    IN  /\ InSequence(log.files, r)
        /\ {id \in Filed(log.files) \ log.lost : id[1] = t} \cup Ids(r.out) \cup Ids(r.block) \cup Ids(r.next)
             = {<<t, k>> : k \in 1 .. r.done} \ log.lost
        /\ r.block # <<>> => r.avail \in Nat /\ r.ptr = BlockSize - r.avail /\ Packed(r.block, r.ptr)
        /\ Packed(r.out, r.osize)
        /\ r.pc = "ended" => r.out = <<>> /\ r.block = <<>> /\ r.next = <<>>
=============================================================================
