------------------------------ MODULE MemCache ------------------------------
(***************************************************************************)
(* The in-memory cache of file contents that the network threads share     *)
(* (cache.c): a hash table of reference-counted records, an LRU list, one  *)
(* mutex.                                                                  *)
(*                                                                         *)
(* A thread of this module carries one request.  A network thread with     *)
(* several connections is covered by several threads of the module.  Each  *)
(* thread reads its own cached clock (loop->current_time), and the clocks  *)
(* drift.  A section under _nxweb_cache_mutex is one step; what a thread   *)
(* reads outside of it is a step of its own.  Memory is never exhausted,   *)
(* and keys are file paths (nxweb_cache_try ignores keys that start with a *)
(* space or an asterisk).                                                  *)
(***************************************************************************)
EXTENDS Integers, Sequences, FiniteSets, SequencesExt

CONSTANTS Threads, Keys,
          Recs,        \* addresses of nxweb_cache_rec structures
          NoRec,
          MaxCached,    \* NXWEB_MAX_CACHED_ITEMS
          Slack,       \* the 16 of nxweb_cache_store_response
          CachedTime,  \* NXWEB_DEFAULT_CACHED_TIME
          MaxClock,     \* bound on the clocks
          Mtimes       \* modification times of files, none of them 0

ASSUME CacheAssumption ==
  /\ NoRec \notin Recs \cup Keys
  /\ IsFiniteSet(Threads)
  /\ MaxCached \in Nat /\ Slack \in Nat /\ CachedTime \in Nat /\ MaxClock \in Nat
  /\ Mtimes \subseteq Nat \ {0} /\ Mtimes # {}

VARIABLES
  table,    \* _nxweb_cache: the record of each key, or NoRec
  lru,      \* the list from _nxweb_cache_head to _nxweb_cache_tail
  alive,    \* records that have been allocated and not freed
  key, mtime, expires, ref,  \* fields of the records
  pc,       \* where the request of each thread is
  rkey,     \* resp->cache_key
  lm,       \* resp->last_modified
  newrec,   \* the record nxweb_cache_store_response fills
  held,     \* conn->hsp.req_data when req_finalize is cache_rec_unref
  now,      \* loop->current_time
  fmtime    \* modification time of the file behind each key

recVars == <<key, mtime, expires, ref>>
cacheVars == <<table, lru, alive, recVars>>
reqVars == <<pc, rkey, lm, newrec, held>>
memVars == <<cacheVars, reqVars, now, fmtime>>

size == Cardinality({k \in Keys : table[k] # NoRec})   \* alignhash_size
Linked == ToSet(lru)

CacheInit ==
  /\ table = [k \in Keys |-> NoRec]
  /\ lru = <<>>
  /\ alive = {}
  /\ key = [r \in Recs |-> NoRec]
  /\ mtime = [r \in Recs |-> 0]
  /\ expires = [r \in Recs |-> 0]
  /\ ref = [r \in Recs |-> 0]
  /\ pc = [t \in Threads |-> "idle"]
  /\ rkey = [t \in Threads |-> NoRec]
  /\ lm = [t \in Threads |-> 0]
  /\ newrec = [t \in Threads |-> NoRec]
  /\ held = [t \in Threads |-> NoRec]
  /\ now = [t \in Threads |-> 0]
  /\ fmtime \in [Keys -> Mtimes]

-----------------------------------------------------------------------------
(* The list and the table.                                                 *)

(* The table and the list without the records R.  The list is that of      *)
(* SelectSeq, written without recursion so that it can be reasoned about:  *)
(* its k-th record is the k-th that stays.                                 *)
TableWithout(tbl, R) == [k \in Keys |-> IF tbl[k] \in R THEN NoRec ELSE tbl[k]]
ListWithout(l, R) ==
  LET stays == {i \in 1 .. Len(l) : l[i] \notin R}
      rank == [i \in stays |-> Cardinality({j \in stays : j <= i})]
  IN  [k \in 1 .. Cardinality(stays) |-> l[CHOOSE i \in stays : rank[i] = k]]

(* A freed record has no fields any more.                                  *)
Freed(f, R, zero) == [r \in Recs |-> IF r \in R THEN zero ELSE f[r]]

(* Mutant of cache_check_size: ref_count is not looked at.                 *)
EvictAny(l, rf) ==
  {l[i] : i \in {j \in 1 .. Len(l) : Len(l) - j < Len(l) - MaxCached}}

(* cache_check_size: while there are too many records, the unreferenced    *)
(* record nearest to the tail goes.  The victims, for a list l whose       *)
(* records are exactly those of the table.                                 *)
cache_check_size(l, rf) ==
  LET unreferenced == {i \in 1 .. Len(l) : rf[l[i]] = 0}
      later(i) == {j \in unreferenced : j > i}
  IN  {l[i] : i \in {j \in unreferenced : Cardinality(later(j)) < Len(l) - MaxCached}}

-----------------------------------------------------------------------------
(* nxweb_cache_try(conn, resp, key, if_modified_since, revalidated_mtime), *)
(* all of it under the mutex.  onMiss: where the caller goes on MISS.      *)
nxweb_cache_try(t, k, ims, rev, onMiss) ==
  LET r == table[k]
      exp == IF mtime[r] = rev THEN now[t] + CachedTime ELSE expires[r]
  IN
  \/ /\ r = NoRec
     /\ pc' = [pc EXCEPT ![t] = onMiss]
     /\ UNCHANGED <<cacheVars, held>>
  \/ \* fresh: to the head of the list; 304, or the content with a reference
     /\ r # NoRec /\ now[t] <= exp
     /\ lru' = <<r>> \o ListWithout(lru, {r})
     /\ expires' = [expires EXCEPT ![r] = exp]
     /\ IF ims # 0 /\ mtime[r] <= ims
          THEN UNCHANGED <<ref, held>>
          ELSE ref' = [ref EXCEPT ![r] = @ + 1] /\ held' = [held EXCEPT ![t] = r]
     /\ pc' = [pc EXCEPT ![t] = "serving"]
     /\ UNCHANGED <<table, alive, key, mtime>>
  \/ \* NXWEB_REVALIDATE
     /\ r # NoRec /\ now[t] > exp /\ rev = 0
     /\ pc' = [pc EXCEPT ![t] = "handler"]
     /\ UNCHANGED <<cacheVars, held>>
  \/ \* expired and not confirmed: removed, and freed unless it is referenced
     /\ r # NoRec /\ now[t] > exp /\ rev # 0
     /\ table' = TableWithout(table, {r})
     /\ lru' = ListWithout(lru, {r})
     /\ LET gone == IF ref[r] = 0 THEN {r} ELSE {}
        IN  /\ alive' = alive \ gone
            /\ key' = Freed(key, gone, NoRec)
            /\ mtime' = Freed(mtime, gone, 0)
            /\ expires' = Freed(expires, gone, 0)
     /\ pc' = [pc EXCEPT ![t] = onMiss]
     /\ UNCHANGED <<ref, held>>

(* nxweb_select_handler asks the cache first.                              *)
SelectHandler(t, k, ims) ==
  /\ pc[t] = "idle"
  /\ rkey' = [rkey EXCEPT ![t] = k]
  /\ nxweb_cache_try(t, k, ims, 0, "handler")
  /\ UNCHANGED <<lm, newrec, now, fmtime>>

(* The handler answers with the file; the conditions under which           *)
(* nxweb_cache_store_response caches it may or may not hold.  The size is  *)
(* read without the mutex.                                                 *)
HandlerResponds(t) ==
  /\ pc[t] = "handler"
  /\ lm' = [lm EXCEPT ![t] = fmtime[rkey[t]]]
  /\ \/ size < MaxCached + Slack /\ pc' = [pc EXCEPT ![t] = "store"]
     \/ pc' = [pc EXCEPT ![t] = "serving"]
  /\ UNCHANGED <<cacheVars, rkey, newrec, held, now, fmtime>>

StoreTries(t) ==
  /\ pc[t] = "store"
  /\ nxweb_cache_try(t, rkey[t], 0, lm[t], "read")
  /\ UNCHANGED <<rkey, lm, newrec, now, fmtime>>

(* A record is filled from the file; if that fails it is freed and the     *)
(* response is 500.                                                        *)
StoreReads(t) ==
  /\ pc[t] = "read"
  /\ \/ \E r \in Recs \ alive :
          /\ alive' = alive \cup {r}
          /\ newrec' = [newrec EXCEPT ![t] = r]
          /\ key' = [key EXCEPT ![r] = rkey[t]]
          /\ mtime' = [mtime EXCEPT ![r] = lm[t]]
          /\ expires' = [expires EXCEPT ![r] = now[t] + CachedTime]
          /\ pc' = [pc EXCEPT ![t] = "insert"]
     \/ /\ pc' = [pc EXCEPT ![t] = "serving"]
        /\ UNCHANGED <<alive, newrec, key, mtime, expires>>
  /\ UNCHANGED <<table, lru, ref, rkey, lm, held, now, fmtime>>

(* Mutant of StoreInserts: a key that exists already is taken over without *)
(* unlinking the record of the other thread.                               *)
InsertReplaces(t) ==
  /\ pc[t] = "insert"
  /\ LET n == newrec[t]
     IN  /\ table' = [table EXCEPT ![rkey[t]] = n]
         /\ lru' = <<n>> \o lru
         /\ ref' = [ref EXCEPT ![n] = 1]
         /\ held' = [held EXCEPT ![t] = n]
         /\ UNCHANGED <<alive, key, mtime, expires>>
  /\ newrec' = [newrec EXCEPT ![t] = NoRec]
  /\ pc' = [pc EXCEPT ![t] = "serving"]
  /\ UNCHANGED <<rkey, lm, now, fmtime>>

(* Under the mutex: insert it and make room, or, when another thread has   *)
(* stored the key meanwhile, free it and share that thread's record.       *)
StoreInserts(t) ==
  /\ pc[t] = "insert"
  /\ LET n == newrec[t]
         r == table[rkey[t]]
     IN
     \/ /\ r = NoRec
        /\ LET l == <<n>> \o lru
               rf == [ref EXCEPT ![n] = 1]
               gone == cache_check_size(l, rf)
           IN  /\ table' = TableWithout([table EXCEPT ![rkey[t]] = n], gone)
               /\ lru' = ListWithout(l, gone)
               /\ alive' = alive \ gone
               /\ key' = Freed(key, gone, NoRec)
               /\ mtime' = Freed(mtime, gone, 0)
               /\ expires' = Freed(expires, gone, 0)
               /\ ref' = rf
        /\ held' = [held EXCEPT ![t] = n]
     \/ /\ r # NoRec
        /\ alive' = alive \ {n}
        /\ key' = Freed(key, {n}, NoRec)
        /\ mtime' = Freed(mtime, {n}, 0)
        /\ expires' = Freed(expires, {n}, 0)
        /\ ref' = [ref EXCEPT ![r] = @ + 1]
        /\ held' = [held EXCEPT ![t] = r]
        /\ UNCHANGED <<table, lru>>
  /\ newrec' = [newrec EXCEPT ![t] = NoRec]
  /\ pc' = [pc EXCEPT ![t] = "serving"]
  /\ UNCHANGED <<rkey, lm, now, fmtime>>

(* Mutant of cache_rec_unref: the reference is dropped twice.              *)
UnrefTwice(t) ==
  /\ ref' = [ref EXCEPT ![held[t]] = @ - 2]
  /\ UNCHANGED <<table, lru, alive, key, mtime, expires>>

(* cache_rec_unref: the last reference frees a record that has expired or  *)
(* is not linked any more; then room is made.                              *)
cache_rec_unref(t) ==
  LET r == held[t]
      rf == [ref EXCEPT ![r] = @ - 1]
      last == rf[r] = 0 /\ (now[t] > expires[r] \/ r \notin Linked)
      l == IF last THEN ListWithout(lru, {r}) ELSE lru
      gone == (IF last THEN {r} ELSE {}) \cup cache_check_size(l, rf)
  IN  /\ table' = TableWithout(table, gone)
      /\ lru' = ListWithout(lru, gone)
      /\ alive' = alive \ gone
      /\ key' = Freed(key, gone, NoRec)
      /\ mtime' = Freed(mtime, gone, 0)
      /\ expires' = Freed(expires, gone, 0)
      /\ ref' = rf

(* The response is sent or the connection fails: request_cleanup calls     *)
(* req_finalize.                                                           *)
RequestComplete(t) ==
  /\ pc[t] = "serving"
  /\ pc' = [pc EXCEPT ![t] = "idle"]
  /\ rkey' = [rkey EXCEPT ![t] = NoRec]
  /\ lm' = [lm EXCEPT ![t] = 0]
  /\ held' = [held EXCEPT ![t] = NoRec]
  /\ IF held[t] # NoRec THEN cache_rec_unref(t) ELSE UNCHANGED cacheVars
  /\ UNCHANGED <<newrec, now, fmtime>>

CacheTick(t) ==
  /\ now[t] < MaxClock
  /\ now' = [now EXCEPT ![t] = @ + 1]
  /\ UNCHANGED <<cacheVars, reqVars, fmtime>>

FileModified(k) ==
  /\ \E m \in Mtimes : m > fmtime[k] /\ fmtime' = [fmtime EXCEPT ![k] = m]
  /\ UNCHANGED <<cacheVars, reqVars, now>>

CacheNext ==
  \/ \E t \in Threads :
       \/ \E k \in Keys, ims \in Mtimes \cup {0} : SelectHandler(t, k, ims)
       \/ HandlerResponds(t) \/ StoreTries(t) \/ StoreReads(t) \/ StoreInserts(t)
       \/ RequestComplete(t)
       \/ CacheTick(t)
  \/ \E k \in Keys : FileModified(k)

CacheSpec == CacheInit /\ [][CacheNext]_memVars

-----------------------------------------------------------------------------
(* Properties.                                                             *)

(* Types; no reference count of a record drops below zero.                 *)
CacheTypeOK ==
  /\ table \in [Keys -> Recs \cup {NoRec}]
  /\ lru \in Seq(Recs)
  /\ alive \subseteq Recs
  /\ key \in [Recs -> Keys \cup {NoRec}]
  /\ mtime \in [Recs -> Nat] /\ expires \in [Recs -> Nat] /\ ref \in [Recs -> Nat]
  /\ pc \in [Threads -> {"idle", "handler", "store", "read", "insert", "serving"}]
  /\ rkey \in [Threads -> Keys \cup {NoRec}]
  /\ lm \in [Threads -> Nat]
  /\ newrec \in [Threads -> Recs \cup {NoRec}]
  /\ held \in [Threads -> Recs \cup {NoRec}]
  /\ now \in [Threads -> Nat]
  /\ fmtime \in [Keys -> Mtimes]

(* ref_count counts the responses whose content points into the record, so *)
(* cache_rec_unref never meets ref_count 0 (its assertion), and a record   *)
(* whose content a response still sends is never freed, although eviction, *)
(* expiry and revalidation run in other threads.                           *)
RefCountExact ==
  \A r \in Recs :
    /\ ref[r] = Cardinality({t \in Threads : held[t] = r})
    /\ ref[r] > 0 => r \in alive

(* The list and the table hold the same live records, each once: otherwise *)
(* cache_check_size trips its assertion or looks for a victim for ever.    *)
ListMatchesTable ==
  /\ \A i, j \in 1 .. Len(lru) : lru[i] = lru[j] => i = j
  /\ Linked = {table[k] : k \in Keys} \ {NoRec}
  /\ \A r \in Linked : r \in alive /\ table[key[r]] = r

(* No record is lost: it is in the table, or referenced by a response, or  *)
(* being filled.                                                           *)
NoLeak ==
  \A r \in alive : r \in Linked \/ ref[r] > 0 \/ \E t \in Threads : newrec[t] = r

(* The cache exceeds NXWEB_MAX_CACHED_ITEMS only while every record in it  *)
(* is in use.                                                              *)
OnlyUsedOverLimit == size > MaxCached => \A r \in Linked : ref[r] > 0

(* The table, the list and the records of cache.c agree whatever threads   *)
(* store, evict, expire and release at once: no record is lost, listed     *)
(* twice or kept over the limit without need.                              *)
CacheConsistent == ListMatchesTable /\ NoLeak /\ OnlyUsedOverLimit

-----------------------------------------------------------------------------
(* The strengthening of RefCountExact and CacheConsistent that every step  *)
(* preserves.                                                              *)

(* Only the thread that fills a record knows it before it is inserted, and *)
(* a request takes a reference at most once, as its last access.           *)
RequestInv ==
  \A t \in Threads :
    /\ pc[t] # "idle" => rkey[t] \in Keys
    /\ held[t] # NoRec => pc[t] = "serving"
    /\ pc[t] = "insert" <=> newrec[t] # NoRec
    /\ newrec[t] # NoRec =>
         /\ newrec[t] \in alive /\ newrec[t] \notin Linked
         /\ ref[newrec[t]] = 0 /\ key[newrec[t]] = rkey[t]
         /\ \A u \in Threads \ {t} : newrec[u] # newrec[t]

(* A record is found under its own key.                                    *)
KeyInv == \A k \in Keys : table[k] # NoRec => key[table[k]] = k

(* The inductive invariant.                                                *)
MemInv == CacheTypeOK /\ RefCountExact /\ CacheConsistent /\ RequestInv /\ KeyInv
=============================================================================
