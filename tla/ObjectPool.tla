------------------------------ MODULE ObjectPool ------------------------------
(***************************************************************************)
(* The pool of nx_pool.c, from which connections, buffers and events are   *)
(* allocated: chunks of objects, each larger than the one before, and one  *)
(* doubly linked list through the free objects of all chunks.  Objects of  *)
(* the last chunk are freed to the end of the list and those of the others *)
(* to its beginning, so that the last chunk falls idle and nxp_gc can give *)
(* it back.                                                                *)
(***************************************************************************)
EXTENDS Integers, Sequences, FiniteSets

CONSTANTS InitialItems,  \* objects of the first chunk
          MaxChunkItems,      \* most objects of a chunk, 1024 in the code
          MaxChunks      \* chunks that fit into memory

ASSUME PoolAssumption ==
  InitialItems \in Nat \ {0} /\ MaxChunkItems \in Nat /\ MaxChunkItems >= InitialItems /\ MaxChunks \in Nat \ {0}

VARIABLES
  nitems,      \* the objects of every chunk; the chunk's id is its index
  free_first, free_last,
  next, prev,  \* the links of every object
  in_use,      \* the objects with in_use set
  owned,        \* the objects that the program holds
  tripped      \* an assertion failed

poolVars == <<nitems, free_first, free_last, next, prev, in_use, owned, tripped>>

NoObject == <<0, 0>>
ChunkObjects(c, n) == {c} \X (1 .. n)
Objects == UNION {ChunkObjects(c, nitems[c]) : c \in DOMAIN nitems}
AllObjects == (1 .. MaxChunks) \X (1 .. MaxChunkItems)
LastChunk == Len(nitems)

(* nxp_init_chunk of a chunk of n objects, the list being empty.           *)
ChunkNext(c, n, links) ==
  [o \in AllObjects |-> IF o \notin ChunkObjects(c, n) THEN links[o]
                        ELSE IF o[2] < n THEN <<c, o[2] + 1>> ELSE NoObject]
ChunkPrev(c, n, links) ==
  [o \in AllObjects |-> IF o \notin ChunkObjects(c, n) THEN links[o]
                        ELSE IF o[2] > 1 THEN <<c, o[2] - 1>> ELSE NoObject]

(* nxp_init                                                                *)
PoolInit ==
  LET none == [o \in AllObjects |-> NoObject]
  IN  /\ nitems = <<InitialItems>>
      /\ next = ChunkNext(1, InitialItems, none) /\ prev = ChunkPrev(1, InitialItems, none)
      /\ free_first = <<1, 1>> /\ free_last = <<1, InitialItems>>
      /\ in_use = {} /\ owned = {} /\ tripped = FALSE

-----------------------------------------------------------------------------
(* The first object is unlinked from the list and handed out.              *)
TakeFirst(obj, nx, pv, last) ==
  /\ free_first' = nx[obj]
  /\ free_last' = IF nx[obj] = NoObject THEN NoObject ELSE last
  /\ next' = [nx EXCEPT ![obj] = NoObject]
  /\ prev' = [o \in AllObjects |-> IF o \in {nx[obj], obj} THEN NoObject ELSE pv[o]]
  /\ in_use' = in_use \cup {obj} /\ owned' = owned \cup {obj}

(* nxp_alloc from the list ...                                             *)
nxp_alloc ==
  /\ free_first # NoObject
  /\ TakeFirst(free_first, next, prev, free_last)
  /\ UNCHANGED <<nitems, tripped>>

(* ... or from a new chunk, twice as large as the last one; 0 is returned  *)
(* if there is no memory for it.                                           *)
NewItems == IF nitems[LastChunk] * 2 > MaxChunkItems THEN MaxChunkItems ELSE nitems[LastChunk] * 2
nxp_alloc_chunk ==
  /\ free_first = NoObject /\ LastChunk < MaxChunks
  /\ nitems' = Append(nitems, NewItems)
  /\ TakeFirst(<<LastChunk + 1, 1>>, ChunkNext(LastChunk + 1, NewItems, next),
               ChunkPrev(LastChunk + 1, NewItems, prev), <<LastChunk + 1, NewItems>>)
  /\ UNCHANGED tripped

Link(a, b, f) == IF a = NoObject THEN f ELSE [f EXCEPT ![a] = b]

(* Objects of the last chunk go to the end of the list.                    *)
AtEnd(obj) == obj[1] = LastChunk

(* Mutant of nxp_free: free_last is not moved.                             *)
FreeKeepsLast(obj) ==
  /\ in_use' = in_use \ {obj} /\ owned' = owned \ {obj}
  /\ tripped' = (tripped \/ obj \notin in_use \/ obj[1] > LastChunk)
  /\ IF AtEnd(obj)
     THEN /\ next' = Link(free_last, obj, [next EXCEPT ![obj] = NoObject])
          /\ prev' = [prev EXCEPT ![obj] = free_last]
          /\ free_first' = IF free_last = NoObject THEN obj ELSE free_first
          /\ free_last' = IF free_last = NoObject THEN obj ELSE free_last
     ELSE /\ prev' = Link(free_first, obj, [prev EXCEPT ![obj] = NoObject])
          /\ next' = [next EXCEPT ![obj] = free_first]
          /\ free_last' = IF free_first = NoObject THEN obj ELSE free_last
          /\ free_first' = obj
  /\ UNCHANGED nitems

nxp_free(obj) ==
  /\ in_use' = in_use \ {obj} /\ owned' = owned \ {obj}
  /\ tripped' = (tripped \/ obj \notin in_use \/ obj[1] > LastChunk)
  /\ IF AtEnd(obj)
     THEN /\ next' = Link(free_last, obj, [next EXCEPT ![obj] = NoObject])
          /\ prev' = [prev EXCEPT ![obj] = free_last]
          /\ free_first' = IF free_last = NoObject THEN obj ELSE free_first
          /\ free_last' = obj
     ELSE /\ prev' = Link(free_first, obj, [prev EXCEPT ![obj] = NoObject])
          /\ next' = [next EXCEPT ![obj] = free_first]
          /\ free_last' = IF free_first = NoObject THEN obj ELSE free_last
          /\ free_first' = obj
  /\ UNCHANGED nitems

(* The list without an object: its neighbours are linked to each other.    *)
Unlink(l, obj) ==
  [next |-> Link(l.prev[obj], l.next[obj], l.next),
   prev |-> Link(l.next[obj], l.prev[obj], l.prev),
   first |-> IF l.prev[obj] = NoObject THEN l.next[obj] ELSE l.first,
   last |-> IF l.next[obj] = NoObject THEN l.prev[obj] ELSE l.last]

(* The loop of nxp_gc: the list without the n objects of chunk c.          *)
Unlinked(l, c, n) ==
  LET list[i \in 0 .. n] == IF i = 0 THEN l ELSE Unlink(list[i - 1], <<c, i>>)
  IN  list[n]

(* No object of the last chunk is in use.                                  *)
LastIdle(n) == \A i \in 1 .. n : <<LastChunk, i>> \notin in_use

(* nxp_gc: the last chunk is given back if no object of it is in use.      *)
nxp_gc ==
  LET n == nitems[LastChunk]
      l == Unlinked([next |-> next, prev |-> prev, first |-> free_first, last |-> free_last], LastChunk, n)
      Kept(f) == [o \in AllObjects |-> IF o[1] = LastChunk THEN NoObject ELSE f[o]]
  IN  /\ LastChunk > 1 /\ LastIdle(n)
      /\ nitems' = SubSeq(nitems, 1, LastChunk - 1)
      /\ next' = Kept(l.next) /\ prev' = Kept(l.prev)
      /\ free_first' = l.first /\ free_last' = l.last
      /\ in_use' = {o \in in_use : o[1] # LastChunk} /\ UNCHANGED <<owned, tripped>>

PoolNext == nxp_alloc \/ nxp_alloc_chunk \/ (\E obj \in owned : nxp_free(obj)) \/ nxp_gc
PoolSpec == PoolInit /\ [][PoolNext]_poolVars

-----------------------------------------------------------------------------
(* Types; the pool has at least one chunk and no chunk is too large.       *)
PoolTypeOK ==
  /\ Len(nitems) \in 1 .. MaxChunks /\ \A c \in DOMAIN nitems : nitems[c] \in 1 .. MaxChunkItems
  /\ free_first \in AllObjects \cup {NoObject} /\ free_last \in AllObjects \cup {NoObject}
  /\ next \in [AllObjects -> AllObjects \cup {NoObject}]
  /\ prev \in [AllObjects -> AllObjects \cup {NoObject}]

(* nxp_iterate_allocated_objects: the objects in use, chunk by chunk.      *)
nxp_iterate_allocated_objects == Objects \cap in_use

(* What the program holds is in a chunk that exists and marked in use, so  *)
(* that no object is handed out twice or freed under its owner; and the    *)
(* iterator (the diagnostics, the shutdown) finds just these.              *)
HeldIsAllocated ==
  /\ ~ tripped /\ owned \subseteq Objects /\ owned = nxp_iterate_allocated_objects

(* The list through next, from free_first: its k-th object.                *)
ListAt[k \in 1 .. MaxChunks * MaxChunkItems + 1] ==
  IF k = 1 THEN free_first
  ELSE IF ListAt[k - 1] = NoObject THEN NoObject ELSE next[ListAt[k - 1]]

(* The list holds every object that is not in use exactly once, the links  *)
(* back are those forward reversed, and it ends at free_last: whatever was *)
(* allocated, freed and given back, in any order, nothing is lost.         *)
FreeListExact ==
  LET n == Cardinality(Objects \ in_use)
  IN  /\ {ListAt[k] : k \in 1 .. n} = Objects \ in_use /\ ListAt[n + 1] = NoObject
      /\ free_last = (IF n = 0 THEN NoObject ELSE ListAt[n])
      /\ \A k \in 1 .. n : prev[ListAt[k]] = IF k = 1 THEN NoObject ELSE ListAt[k - 1]

(* No sequence of allocations, frees and garbage collections makes nx_pool *)
(* hand out an object twice, lose one, or give back memory in use.         *)
PoolSound == HeldIsAllocated /\ FreeListExact
=============================================================================
