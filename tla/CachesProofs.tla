---------------------------- MODULE CachesProofs ----------------------------
(***************************************************************************)
(* Proofs about the caches: MemCache, for any number of threads, keys and  *)
(* records and any limit of the cache, and FileCache, for any set of       *)
(* requests of one key, any number of versions and pieces, and any number  *)
(* of failed writes and crashes.                                           *)
(***************************************************************************)
EXTENDS MemCache, FileCache, SequenceTheorems, FiniteSetTheorems, FunctionTheorems,
        WellFoundedInduction, TLAPS

-----------------------------------------------------------------------------
(* Lists without repetitions.                                              *)

Unique(l) == \A i, j \in 1 .. Len(l) : l[i] = l[j] => i = j

Rank(K) == [i \in K |-> Cardinality({j \in K : j <= i})]

(* Counting the elements up to each numbers the elements of a finite set.  *)
LEMMA Ranks ==
  ASSUME NEW n \in Nat, NEW K \in SUBSET (1 .. n)
  PROVE  /\ IsFiniteSet(K) /\ Cardinality(K) \in Nat
         /\ \A i \in K : Rank(K)[i] \in 1 .. Cardinality(K)
         /\ \A k \in 1 .. Cardinality(K) : \E i \in K : Rank(K)[i] = k
         /\ \A i, j \in K : Rank(K)[i] = Rank(K)[j] => i = j
<1> DEFINE upto(i) == {j \in K : j <= i}
<1>1. IsFiniteSet(K) /\ Cardinality(K) \in Nat
  <2>1. IsFiniteSet(1 .. n) BY FS_Interval
  <2>2. IsFiniteSet(K) BY <2>1, FS_Subset
  <2> QED BY <2>2, FS_CardinalityType
<1>2. ASSUME NEW i \in K
      PROVE  IsFiniteSet(upto(i)) /\ Cardinality(upto(i)) \in 1 .. Cardinality(K)
  <2>1. /\ IsFiniteSet(upto(i)) /\ Cardinality(upto(i)) <= Cardinality(K)
        /\ Cardinality(upto(i)) \in Nat
    BY <1>1, FS_Subset, FS_CardinalityType
  <2>2. i \in upto(i) OBVIOUS
  <2>3. Cardinality(upto(i)) # 0 BY <2>1, <2>2, FS_EmptySet
  <2> QED BY <1>1, <2>1, <2>3
<1>3. ASSUME NEW i \in K, NEW j \in K, i < j PROVE Cardinality(upto(i)) # Cardinality(upto(j))
  <2>1. upto(i) \subseteq upto(j) /\ j \in upto(j) /\ j \notin upto(i)
    <3>1. i \in Nat /\ j \in Nat /\ ~ (j <= i) /\ j <= j BY <1>3
    <3>2. ASSUME NEW k \in upto(i) PROVE k \in upto(j)
      <4>1. k \in K /\ k \in Nat /\ k <= i OBVIOUS
      <4> QED BY <1>3, <3>1, <4>1
    <3> QED BY <3>1, <3>2
  <2>2. IsFiniteSet(upto(j)) BY <1>2
  <2> QED BY <2>1, <2>2, FS_Subset
<1>4. Rank(K) \in [K -> 1 .. Cardinality(K)] BY <1>2 DEF Rank
<1>5. \A i, j \in K : Rank(K)[i] = Rank(K)[j] => i = j
  <2> SUFFICES ASSUME NEW i \in K, NEW j \in K, Rank(K)[i] = Rank(K)[j] PROVE i = j OBVIOUS
  <2>1. i \in Nat /\ j \in Nat OBVIOUS
  <2>2. Cardinality(upto(i)) = Cardinality(upto(j)) BY DEF Rank
  <2>3. ~ (i < j) /\ ~ (j < i) BY <1>3, <2>2
  <2> QED BY <2>1, <2>3
<1>6. Rank(K) \in Injection(K, 1 .. Cardinality(K)) BY <1>4, <1>5, Fun_IsInj
<1>7. IsFiniteSet(1 .. Cardinality(K)) /\ Cardinality(1 .. Cardinality(K)) = Cardinality(K)
  BY <1>1, FS_Interval
<1>8. Rank(K) \in Surjection(K, 1 .. Cardinality(K)) BY <1>6, <1>7, FS_Injection
<1>9. \A k \in 1 .. Cardinality(K) : \E i \in K : Rank(K)[i] = k
  BY <1>8, Fun_SurjectionProperties
<1>10. \A i \in K : Rank(K)[i] \in 1 .. Cardinality(K) BY <1>4
<1> QED BY <1>1, <1>5, <1>9, <1>10

(* What ListWithout keeps.                                                 *)
LEMMA Without ==
  ASSUME NEW S, NEW l \in Seq(S), Unique(l), NEW R
  PROVE  /\ ListWithout(l, R) \in Seq(S)
         /\ Unique(ListWithout(l, R))
         /\ ToSet(ListWithout(l, R)) = ToSet(l) \ R
<1> DEFINE stays == {i \in 1 .. Len(l) : l[i] \notin R}
           rank == Rank(stays)
           n == Cardinality(stays)
           at(k) == CHOOSE i \in stays : rank[i] = k
           m == [k \in 1 .. n |-> l[at(k)]]
<1>1. Len(l) \in Nat /\ stays \in SUBSET (1 .. Len(l)) /\ l \in [1 .. Len(l) -> S] OBVIOUS
<1>2. n \in Nat /\ (\A i \in stays : rank[i] \in 1 .. n)
      /\ (\A k \in 1 .. n : \E i \in stays : rank[i] = k)
      /\ \A i, j \in stays : rank[i] = rank[j] => i = j
  <2> HIDE DEF stays
  <2> QED BY <1>1, Ranks
<1>3. ListWithout(l, R) = m BY DEF ListWithout, Rank
<1> HIDE DEF rank, n
<1>4. \A k \in 1 .. n : at(k) \in stays /\ rank[at(k)] = k BY <1>2
<1>5. m \in [1 .. n -> S] BY <1>1, <1>4
<1>6. \A k \in 1 .. n : m[k] = l[at(k)] OBVIOUS
<1> HIDE DEF m, at
<1>7. m \in Seq(S) /\ Len(m) = n BY <1>2, <1>5
<1>8. Unique(m)
  <2> SUFFICES ASSUME NEW i \in 1 .. n, NEW j \in 1 .. n, m[i] = m[j] PROVE i = j
    BY <1>7 DEF Unique
  <2>1. l[at(i)] = l[at(j)] BY <1>6
  <2>2. at(i) = at(j) BY <1>4, <2>1 DEF Unique
  <2> QED BY <1>4, <2>2
<1>9. ToSet(m) = ToSet(l) \ R
  <2>1. ToSet(m) = {m[k] : k \in 1 .. n} /\ ToSet(l) = {l[i] : i \in 1 .. Len(l)}
    BY <1>1, <1>5 DEF ToSet
  <2>2. \A k \in 1 .. n : m[k] \in ToSet(l) /\ m[k] \notin R BY <1>4, <1>6, <2>1
  <2>3. ASSUME NEW i \in 1 .. Len(l), l[i] \notin R PROVE \E k \in 1 .. n : m[k] = l[i]
    <3>1. i \in stays BY <2>3
    <3>2. rank[i] \in 1 .. n /\ at(rank[i]) \in stays BY <1>2, <1>4, <3>1
    <3>3. at(rank[i]) = i BY <1>2, <1>4, <3>1, <3>2
    <3> QED BY <1>6, <3>2, <3>3
  <2>4. \A x \in ToSet(l) \ R : x \in ToSet(m) BY <2>1, <2>3
  <2>5. \A x \in ToSet(m) : x \in ToSet(l) \ R BY <2>1, <2>2
  <2> QED BY <2>4, <2>5
<1> QED BY <1>3, <1>7, <1>8, <1>9

(* A list without repetitions has as many elements as its length.          *)
LEMMA CountUnique ==
  ASSUME NEW S, NEW l \in Seq(S), Unique(l)
  PROVE  /\ IsFiniteSet(ToSet(l)) /\ Cardinality(ToSet(l)) = Len(l)
         /\ ToSet(l) \subseteq S
<1>1. Len(l) \in Nat /\ l \in [1 .. Len(l) -> S] OBVIOUS
<1>2. ToSet(l) = {l[i] : i \in 1 .. Len(l)} BY <1>1 DEF ToSet
<1>3. ToSet(l) \subseteq S BY <1>1, <1>2
<1>4. l \in [1 .. Len(l) -> ToSet(l)] BY <1>1, <1>2
<1>5. \A t \in ToSet(l) : \E i \in 1 .. Len(l) : l[i] = t BY <1>2
<1>6. \A i, j \in 1 .. Len(l) : l[i] = l[j] => i = j BY DEF Unique
<1>7. l \in Bijection(1 .. Len(l), ToSet(l)) BY <1>4, <1>5, <1>6, Fun_IsBij
<1>8. ExistsBijection(1 .. Len(l), ToSet(l)) BY <1>7, Fun_ExistsBij
<1>9. IsFiniteSet(ToSet(l)) BY <1>1, <1>8, FS_NatBijection
<1> QED BY <1>1, <1>3, <1>8, <1>9, FS_CountingElements

(* cache_check_size evicts unreferenced records only, and leaves the cache *)
(* over the limit only if all that remain are referenced: of the           *)
(* unreferenced records the last ones go, as many as there are too many.   *)
LEMMA Evicts ==
  ASSUME NEW l \in Seq(Recs), Unique(l), NEW rf \in [Recs -> Nat]
  PROVE  LET V == cache_check_size(l, rf)
         IN  /\ V \subseteq ToSet(l)
             /\ \A v \in V : rf[v] = 0
             /\ Cardinality(ToSet(l) \ V) > MaxCached => \A r \in ToSet(l) \ V : rf[r] > 0
<1> DEFINE n == Len(l)
           unref == {i \in 1 .. n : rf[l[i]] = 0}
           later(i) == {j \in unref : j > i}
           goes == {j \in unref : Cardinality(later(j)) < n - MaxCached}
           V == {l[i] : i \in goes}
<1>1. n \in Nat /\ l \in [1 .. n -> Recs] /\ MaxCached \in Nat BY CacheAssumption
<1>2. cache_check_size(l, rf) = V BY DEF cache_check_size
<1>3. ToSet(l) = {l[i] : i \in 1 .. n} BY <1>1 DEF ToSet
<1>4. V \subseteq ToSet(l) /\ \A v \in V : rf[v] = 0 BY <1>3
<1>5. ASSUME NEW r \in ToSet(l) \ V, ~ (rf[r] > 0)
      PROVE  Cardinality(ToSet(l) \ V) <= MaxCached
  <2>1. IsFiniteSet(ToSet(l)) /\ Cardinality(ToSet(l)) = n BY CountUnique
  <2>2. IsFiniteSet(1 .. n)
    <3> HIDE DEF n
    <3>1. 1 \in Int /\ n \in Int BY <1>1
    <3> QED BY <3>1, FS_Interval
  <2> DEFINE left == {n - i : i \in unref \ goes}
  <2>3. PICK i \in unref \ goes : \A j \in unref \ goes : ~ (j > i)
    <3>1. PICK k \in 1 .. n : l[k] = r BY <1>3
    <3>2. k \in unref \ goes
      <4>1. rf[r] \in Nat BY <1>1, <3>1
      <4>2. rf[l[k]] = 0 BY <1>5, <3>1, <4>1
      <4>3. k \in goes => l[k] \in V OBVIOUS
      <4> QED BY <1>5, <3>1, <4>2, <4>3
    <3>3. unref \ goes \subseteq 1 .. n OBVIOUS
    <3> HIDE DEF goes, unref, n
    <3>4. left \in SUBSET Nat /\ left # {} BY <1>1, <3>2, <3>3
    <3>5. PICK x \in left : \A y \in left : ~ (<<y, x>> \in OpToRel(<, Nat))
      BY <3>4, NatLessThanWellFounded, WFMin
    <3>6. x \in Nat /\ \A y \in left : y \in Nat /\ ~ (y < x)
      BY <3>4, <3>5 DEF OpToRel
    <3>7. PICK i \in unref \ goes : x = n - i BY <3>5
    <3>8. \A j \in unref \ goes : n - j \in left /\ j \in Nat /\ i \in Nat BY <1>1, <3>7, <3>3
    <3> HIDE DEF left
    <3> QED BY <1>1, <3>6, <3>7, <3>8
  <2>4. later(i) \subseteq goes BY <2>3
  <2>5. /\ IsFiniteSet(later(i)) /\ Cardinality(later(i)) \in Nat
        /\ n - MaxCached <= Cardinality(later(i))
    <3>1. IsFiniteSet(later(i)) BY <2>2, FS_Subset
    <3>2. Cardinality(later(i)) \in Nat BY <3>1, FS_CardinalityType
    <3>3. ~ (Cardinality(later(i)) < n - MaxCached) BY <2>3
    <3> QED BY <1>1, <3>1, <3>2, <3>3
  <2>6. IsFiniteSet(V) /\ Cardinality(V) \in Nat BY <1>4, <2>1, FS_Subset, FS_CardinalityType
  <2>7. Cardinality(later(i)) <= Cardinality(V)
    <3> DEFINE f == [j \in later(i) |-> l[j]]
    <3>1. f \in [later(i) -> V] BY <2>4
    <3>2. \A a, b \in later(i) : f[a] = f[b] => a = b BY DEF Unique
    <3>3. f \in Injection(later(i), V) BY <3>1, <3>2, Fun_IsInj
    <3> HIDE DEF f, later, V
    <3> QED BY <2>6, <3>3, FS_Injection
  <2>8. Cardinality(ToSet(l) \ V) = n - Cardinality(V)
    <3>1. ToSet(l) \cap V = V BY <1>4
    <3> QED BY <2>1, <3>1, FS_Difference
  <2> HIDE DEF V, later, n
  <2> QED BY <1>1, <2>5, <2>6, <2>7, <2>8
<1>6. IsFiniteSet(ToSet(l) \ V) /\ Cardinality(ToSet(l) \ V) \in Nat
  <2>1. IsFiniteSet(ToSet(l)) BY CountUnique
  <2>2. IsFiniteSet(ToSet(l) \ V) BY <2>1, FS_Difference
  <2> QED BY <2>2, FS_CardinalityType
<1> HIDE DEF V
<1>7. Cardinality(ToSet(l) \ V) > MaxCached => \A r \in ToSet(l) \ V : rf[r] > 0
  BY <1>1, <1>5, <1>6
<1> QED BY <1>2, <1>4, <1>7

-----------------------------------------------------------------------------
(* Table and references.                                                   *)

(* A table whose records are found under their own keys has as many        *)
(* records as the list that holds the same.                                *)
LEMMA SizeIsLength ==
  ASSUME NEW l \in Seq(Recs), Unique(l), NEW tbl, NEW ky,
         ToSet(l) = {tbl[k] : k \in Keys} \ {NoRec},
         \A k \in Keys : tbl[k] # NoRec => ky[tbl[k]] = k
  PROVE  /\ Cardinality({k \in Keys : tbl[k] # NoRec}) = Cardinality(ToSet(l))
         /\ IsFiniteSet(ToSet(l))
<1> DEFINE L == ToSet(l)
           used == {k \in Keys : tbl[k] # NoRec}
           f == [r \in L |-> ky[r]]
<1>1. IsFiniteSet(L) BY CountUnique
<1>2. \A k \in used : tbl[k] \in L /\ ky[tbl[k]] = k OBVIOUS
<1>3. \A r \in L : \E k \in used : tbl[k] = r OBVIOUS
<1> HIDE DEF L, used
<1>4. f \in [L -> used]
  <2>1. \A r \in L : ky[r] \in used BY <1>2, <1>3
  <2> QED BY <2>1
<1>5. \A a, b \in L : f[a] = f[b] => a = b BY <1>2, <1>3
<1>6. \A k \in used : \E r \in L : f[r] = k BY <1>2
<1> HIDE DEF f
<1>7. f \in Bijection(L, used) BY <1>4, <1>5, <1>6, Fun_IsBij
<1>8. ExistsBijection(L, used) BY <1>7, Fun_ExistsBij
<1>9. Cardinality(used) = Cardinality(L) BY <1>1, <1>8, FS_Bijection
<1> QED BY <1>1, <1>9 DEF used, L

Holders(h, r) == {t \in Threads : h[t] = r}

(* A request that holds nothing takes a reference, or one gives it back.   *)
LEMMA CountHolders ==
  ASSUME NEW h \in [Threads -> Recs \cup {NoRec}], NEW g \in [Threads -> Recs \cup {NoRec}],
         NEW t \in Threads, NEW q \in Recs, h[t] = NoRec, g[t] = q,
         \A u \in Threads \ {t} : g[u] = h[u]
  PROVE  \A r \in Recs :
           /\ Cardinality(Holders(h, r)) \in Nat
           /\ Cardinality(Holders(g, r)) = IF r = q THEN Cardinality(Holders(h, r)) + 1
                                            ELSE Cardinality(Holders(h, r))
<1> TAKE r \in Recs
<1>1. IsFiniteSet(Holders(h, r)) BY CacheAssumption, FS_Subset DEF Holders
<1>2. Cardinality(Holders(h, r)) \in Nat BY <1>1, FS_CardinalityType
<1>3. NoRec # q /\ NoRec # r BY CacheAssumption
<1>4. CASE r = q
  <2>1. Holders(g, r) = Holders(h, r) \cup {t} /\ t \notin Holders(h, r)
    BY <1>3, <1>4 DEF Holders
  <2>2. Cardinality(Holders(h, r) \cup {t}) = Cardinality(Holders(h, r)) + 1
    BY <1>1, <2>1, FS_AddElement
  <2> QED BY <1>2, <1>4, <2>1, <2>2
<1>5. CASE r # q
  <2>1. Holders(g, r) = Holders(h, r) BY <1>3, <1>5 DEF Holders
  <2> QED BY <1>2, <1>5, <2>1
<1> QED BY <1>4, <1>5

(* A record that is not in the list becomes its head.                      *)
LEMMA AtHead ==
  ASSUME NEW S, NEW l \in Seq(S), Unique(l), NEW r \in S, r \notin ToSet(l)
  PROVE  /\ <<r>> \o l \in Seq(S) /\ Unique(<<r>> \o l)
         /\ ToSet(<<r>> \o l) = ToSet(l) \cup {r}
<1> DEFINE m == <<r>> \o l
<1>1. /\ Len(l) \in Nat /\ l \in [1 .. Len(l) -> S] /\ <<r>> \in Seq(S) /\ Len(<<r>>) = 1
      /\ <<r>>[1] = r
  OBVIOUS
<1>2. m \in Seq(S) /\ Len(m) = Len(l) + 1 /\ m[1] = r
      /\ \A i \in 2 .. Len(l) + 1 : m[i] = l[i - 1]
  BY <1>1, ConcatProperties
<1> HIDE DEF m
<1>3. ToSet(l) = {l[i] : i \in 1 .. Len(l)} /\ ToSet(m) = {m[i] : i \in 1 .. Len(l) + 1}
  BY <1>1, <1>2 DEF ToSet
<1>4. \A i \in 2 .. Len(l) + 1 : i - 1 \in 1 .. Len(l) /\ m[i] \in ToSet(l)
  BY <1>1, <1>2, <1>3
<1>5. Unique(m)
  <2> SUFFICES ASSUME NEW i \in 1 .. Len(l) + 1, NEW j \in 1 .. Len(l) + 1, m[i] = m[j] PROVE i = j
    BY <1>2 DEF Unique
  <2>1. CASE i = 1 \/ j = 1 BY <1>1, <1>2, <1>4, <2>1
  <2>2. CASE i # 1 /\ j # 1
    <3>1. i \in 2 .. Len(l) + 1 /\ j \in 2 .. Len(l) + 1 BY <1>1, <2>2
    <3>2. i - 1 \in 1 .. Len(l) /\ j - 1 \in 1 .. Len(l) /\ l[i - 1] = l[j - 1]
      BY <1>2, <1>4, <3>1
    <3>3. i - 1 = j - 1 BY <3>2 DEF Unique
    <3> QED BY <3>1, <3>3
  <2> QED BY <2>1, <2>2
<1>6. ToSet(m) = ToSet(l) \cup {r}
  <2>1. \A x \in ToSet(m) : x \in ToSet(l) \cup {r} BY <1>1, <1>2, <1>3, <1>4
  <2>2. r \in ToSet(m) BY <1>1, <1>2, <1>3
  <2>3. ASSUME NEW i \in 1 .. Len(l) PROVE l[i] \in ToSet(m)
    <3>1. i + 1 \in 2 .. Len(l) + 1 /\ (i + 1) - 1 = i BY <1>1
    <3>2. m[i + 1] = l[i] BY <1>2, <3>1
    <3>3. i + 1 \in 1 .. Len(l) + 1 BY <1>1
    <3> QED BY <1>3, <3>2, <3>3
  <2> QED BY <1>3, <2>1, <2>2, <2>3
<1> QED BY <1>2, <1>5, <1>6 DEF m

-----------------------------------------------------------------------------
(* The steps.                                                              *)

LEMMA MemInit == CacheInit => MemInv
<1> SUFFICES ASSUME CacheInit PROVE MemInv OBVIOUS
<1>1. CacheTypeOK
  <2>1. lru \in Seq(Recs) BY DEF CacheInit
  <2> QED BY <2>1 DEF CacheInit, CacheTypeOK
<1>2. Linked = {} /\ Len(lru) = 0 BY DEF CacheInit, Linked, ToSet
<1>3. RefCountExact
  <2>1. \A r \in Recs : {t \in Threads : held[t] = r} = {}
    BY CacheAssumption DEF CacheInit
  <2>2. Cardinality({}) = 0 BY FS_EmptySet
  <2>3. \A r \in Recs : ref[r] = 0 /\ ~ (0 > 0) BY DEF CacheInit
  <2> QED BY <2>1, <2>2, <2>3 DEF RefCountExact
<1>4. ListMatchesTable BY <1>2 DEF CacheInit, ListMatchesTable
<1>5. NoLeak BY DEF CacheInit, NoLeak
<1>6. OnlyUsedOverLimit BY <1>2 DEF OnlyUsedOverLimit
<1>7. RequestInv BY DEF CacheInit, RequestInv
<1>8. KeyInv BY DEF CacheInit, KeyInv
<1> QED BY <1>1, <1>3, <1>4, <1>5, <1>6, <1>7, <1>8 DEF MemInv, CacheConsistent

(* The facts of MemInv about the list and its records that the steps use.  *)
LEMMA ListFacts ==
  ASSUME MemInv
  PROVE  /\ lru \in Seq(Recs) /\ Unique(lru) /\ Linked \subseteq Recs
         /\ Linked = {table[k] : k \in Keys} \ {NoRec}
         /\ \A r \in Linked : r \in alive /\ key[r] \in Keys /\ table[key[r]] = r
         /\ \A k \in Keys : table[k] # NoRec => table[k] \in Linked
         /\ size = Cardinality(Linked) /\ IsFiniteSet(Linked)
<1>1. lru \in Seq(Recs) /\ Unique(lru) /\ Linked = {table[k] : k \in Keys} \ {NoRec}
  BY DEF MemInv, CacheTypeOK, CacheConsistent, ListMatchesTable, Unique
<1>2. Linked \subseteq Recs BY <1>1, CountUnique DEF Linked
<1>3. \A r \in Linked : r \in alive /\ table[key[r]] = r
  BY DEF MemInv, CacheConsistent, ListMatchesTable
<1>4. \A k \in Keys : table[k] # NoRec => table[k] \in Linked BY <1>1
<1>5. \A r \in Linked : key[r] \in Keys BY <1>1 DEF MemInv, KeyInv
<1>6. size = Cardinality(Linked) /\ IsFiniteSet(Linked)
  BY <1>1, SizeIsLength DEF MemInv, KeyInv, Linked, size
<1> QED BY <1>1, <1>2, <1>3, <1>4, <1>5, <1>6

(* What has to be shown of a step that keeps the types, the references and *)
(* the list without repetitions.                                           *)
LEMMA ListKept ==
  ASSUME CacheTypeOK', Unique(lru'), (Linked = {table[k] : k \in Keys} \ {NoRec})', KeyInv',
         \A r \in Linked' : r \in alive'
  PROVE  ListMatchesTable' /\ size' = Cardinality(Linked') /\ IsFiniteSet(Linked')
<1>1. size' = Cardinality(Linked') /\ IsFiniteSet(Linked')
  BY SizeIsLength DEF CacheTypeOK, KeyInv, Linked, size
<1>2. \A r \in Linked' : r \in alive' /\ table'[key'[r]] = r BY DEF KeyInv
<1>3. \A i, j \in 1 .. Len(lru') : lru'[i] = lru'[j] => i = j BY DEF Unique
<1> QED BY <1>1, <1>2, <1>3 DEF ListMatchesTable

(* The records of a table and a list from which the same ones are removed. *)
LEMMA Removal ==
  ASSUME NEW tbl \in [Keys -> Recs \cup {NoRec}], NEW l \in Seq(Recs), Unique(l),
         ToSet(l) = {tbl[k] : k \in Keys} \ {NoRec}, NEW G \in SUBSET Recs
  PROVE  /\ TableWithout(tbl, G) \in [Keys -> Recs \cup {NoRec}]
         /\ ListWithout(l, G) \in Seq(Recs) /\ Unique(ListWithout(l, G))
         /\ ToSet(ListWithout(l, G)) = ToSet(l) \ G
         /\ ToSet(ListWithout(l, G)) = {TableWithout(tbl, G)[k] : k \in Keys} \ {NoRec}
<1>1. NoRec \notin G BY CacheAssumption
<1>2. /\ ListWithout(l, G) \in Seq(Recs) /\ Unique(ListWithout(l, G))
      /\ ToSet(ListWithout(l, G)) = ToSet(l) \ G
  BY Without
<1>3. TableWithout(tbl, G) \in [Keys -> Recs \cup {NoRec}] BY DEF TableWithout
<1>4. {TableWithout(tbl, G)[k] : k \in Keys} \ {NoRec} = ({tbl[k] : k \in Keys} \ {NoRec}) \ G
  BY <1>1 DEF TableWithout
<1> QED BY <1>2, <1>3, <1>4

(* nxweb_cache_try, whoever calls it.                                      *)
LEMMA TryStep ==
  ASSUME MemInv, NEW t \in Threads, NEW k \in Keys, NEW ims \in Nat, NEW rev \in Nat,
         NEW onMiss \in {"handler", "read"}, pc[t] \in {"idle", "store"},
         nxweb_cache_try(t, k, ims, rev, onMiss),
         rkey' = [rkey EXCEPT ![t] = k], UNCHANGED <<lm, newrec, now, fmtime>>
  PROVE  MemInv'
<1> DEFINE r == table[k]
           exp == IF mtime[r] = rev THEN now[t] + CachedTime ELSE expires[r]
<1> USE DEF recVars, cacheVars
<1>1. /\ lru \in Seq(Recs) /\ Unique(lru) /\ Linked \subseteq Recs
      /\ Linked = {table[j] : j \in Keys} \ {NoRec}
      /\ \A q \in Linked : q \in alive /\ key[q] \in Keys /\ table[key[q]] = q
      /\ r # NoRec => r \in Linked
      /\ size = Cardinality(Linked) /\ IsFiniteSet(Linked)
  BY ListFacts
<1>2. CacheTypeOK /\ RefCountExact /\ NoLeak /\ OnlyUsedOverLimit /\ RequestInv /\ KeyInv
      /\ ListMatchesTable
  BY DEF MemInv, CacheConsistent
<1>3. held[t] = NoRec /\ newrec[t] = NoRec BY <1>2 DEF RequestInv
<1>4. CachedTime \in Nat /\ NoRec \notin Recs BY CacheAssumption
<1>5. ASSUME NEW pc1 \in {"handler", "read"}, pc' = [pc EXCEPT ![t] = pc1],
             UNCHANGED <<cacheVars, held>>
      PROVE  MemInv'
  <2>1. CacheTypeOK' BY <1>2, <1>5 DEF CacheTypeOK
  <2>2. RefCountExact' BY <1>2, <1>5 DEF RefCountExact
  <2>3. CacheConsistent'
    BY <1>2, <1>5 DEF CacheConsistent, ListMatchesTable, NoLeak, OnlyUsedOverLimit, Linked, size
  <2>4. RequestInv' BY <1>2, <1>3, <1>5 DEF RequestInv, Linked, CacheTypeOK
  <2>5. KeyInv' BY <1>2, <1>5 DEF KeyInv
  <2> QED BY <2>1, <2>2, <2>3, <2>4, <2>5 DEF MemInv
<1>6. ASSUME r # NoRec,
             lru' = <<r>> \o ListWithout(lru, {r}),
             expires' = [expires EXCEPT ![r] = exp],
             \/ UNCHANGED <<ref, held>>
             \/ ref' = [ref EXCEPT ![r] = @ + 1] /\ held' = [held EXCEPT ![t] = r],
             pc' = [pc EXCEPT ![t] = "serving"],
             UNCHANGED <<table, alive, key, mtime>>
      PROVE  MemInv'
  <2>1. r \in Linked /\ r \in Recs /\ r \in alive BY <1>1, <1>6
  <2>2. /\ ListWithout(lru, {r}) \in Seq(Recs) /\ Unique(ListWithout(lru, {r}))
        /\ ToSet(ListWithout(lru, {r})) = Linked \ {r}
    BY <1>1, Without DEF Linked
  <2>3. lru' \in Seq(Recs) /\ Unique(lru') /\ Linked' = Linked
    <3>1. r \notin ToSet(ListWithout(lru, {r})) BY <2>2
    <3>2. /\ lru' \in Seq(Recs) /\ Unique(lru')
          /\ ToSet(lru') = ToSet(ListWithout(lru, {r})) \cup {r}
      <4> DEFINE m == ListWithout(lru, {r})
      <4>1. lru' = <<r>> \o m /\ m \in Seq(Recs) /\ Unique(m) /\ r \notin ToSet(m)
        BY <1>6, <2>2, <3>1
      <4> HIDE DEF r, m
      <4>2. /\ <<r>> \o m \in Seq(Recs) /\ Unique(<<r>> \o m)
            /\ ToSet(<<r>> \o m) = ToSet(m) \cup {r}
        BY <2>1, <4>1, AtHead
      <4> QED BY <4>1, <4>2 DEF m
    <3> QED BY <2>1, <2>2, <3>2 DEF Linked
  <2>4. exp \in Nat BY <1>2, <1>4, <2>1 DEF CacheTypeOK
  <2>5. CacheTypeOK'
    <3> HIDE DEF exp, r
    <3>1. ref' \in [Recs -> Nat] /\ held' \in [Threads -> Recs \cup {NoRec}]
      <4>1. CASE UNCHANGED <<ref, held>> BY <1>2, <4>1 DEF CacheTypeOK
      <4>2. CASE ref' = [ref EXCEPT ![r] = @ + 1] /\ held' = [held EXCEPT ![t] = r]
        BY <1>2, <2>1, <4>2 DEF CacheTypeOK
      <4> QED BY <1>6, <4>1, <4>2 DEF r
    <3>2. expires' \in [Recs -> Nat] BY <1>2, <1>6, <2>4 DEF CacheTypeOK
    <3> QED BY <1>2, <1>6, <2>3, <3>1, <3>2 DEF CacheTypeOK
  <2>6. RefCountExact' /\ (\A q \in Recs : ref'[q] >= ref[q])
    <3>1. CASE UNCHANGED <<ref, held>>
      <4>1. RefCountExact' BY <1>2, <1>6, <3>1 DEF RefCountExact
      <4>2. \A q \in Recs : ref[q] \in Nat BY <1>2 DEF CacheTypeOK
      <4> QED BY <3>1, <4>1, <4>2
    <3>2. CASE ref' = [ref EXCEPT ![r] = @ + 1] /\ held' = [held EXCEPT ![t] = r]
      <4>1. \A q \in Recs : /\ Cardinality(Holders(held, q)) \in Nat
                            /\ Cardinality(Holders(held', q)) =
                                 IF q = r THEN Cardinality(Holders(held, q)) + 1
                                 ELSE Cardinality(Holders(held, q))
        <5> HIDE DEF r
        <5>1. held \in [Threads -> Recs \cup {NoRec}] /\ held' \in [Threads -> Recs \cup {NoRec}]
          BY <1>2, <2>5 DEF CacheTypeOK
        <5>2. held'[t] = r /\ \A u \in Threads \ {t} : held'[u] = held[u]
          BY <3>2, <5>1
        <5> QED BY <1>3, <2>1, <5>1, <5>2, CountHolders
      <4>2. \A q \in Recs : /\ ref[q] = Cardinality(Holders(held, q)) /\ ref[q] \in Nat
                            /\ ref[q] > 0 => q \in alive
        BY <1>2 DEF RefCountExact, Holders, CacheTypeOK
      <4>3. \A q \in Recs : ref'[q] = Cardinality(Holders(held', q)) /\ ref'[q] >= ref[q]
        <5>1. \A q \in Recs : ref'[q] = IF q = r THEN ref[q] + 1 ELSE ref[q]
          BY <1>2, <3>2 DEF CacheTypeOK
        <5> HIDE DEF r
        <5> QED BY <4>1, <4>2, <5>1
      <4>4. \A q \in Recs : ref'[q] > 0 => q \in alive'
        BY <1>2, <1>6, <2>1, <3>2, <4>2 DEF CacheTypeOK
      <4> QED BY <4>3, <4>4 DEF RefCountExact, Holders
    <3> QED BY <1>6, <3>1, <3>2
  <2>7. KeyInv' BY <1>2, <1>6 DEF KeyInv
  <2>8. ListMatchesTable' /\ size' = Cardinality(Linked')
    <3>1. (Linked = {table[j] : j \in Keys} \ {NoRec})' BY <1>1, <1>6, <2>3
    <3> QED BY <1>1, <1>6, <2>3, <2>5, <2>7, <3>1, ListKept
  <2>9. NoLeak'
    <3>1. \A q \in alive : ref[q] \in Nat /\ ref'[q] \in Nat /\ ref'[q] >= ref[q]
      BY <1>2, <2>5, <2>6 DEF CacheTypeOK
    <3>2. \A q \in alive : ref[q] > 0 => ref'[q] > 0 BY <3>1
    <3> QED BY <1>2, <1>6, <2>3, <3>2 DEF NoLeak
  <2>10. OnlyUsedOverLimit' BY <1>1, <1>2, <2>3, <2>5, <2>6, <2>8 DEF OnlyUsedOverLimit, CacheTypeOK
  <2>11. RequestInv'
    <3>1. \A u \in Threads : newrec[u] # NoRec => newrec[u] # r /\ newrec[u] \in Recs
      BY <1>2, <2>1 DEF RequestInv, CacheTypeOK
    <3>2. \A u \in Threads : newrec[u] # NoRec => ref'[newrec[u]] = 0
      BY <1>2, <1>6, <3>1 DEF RequestInv, CacheTypeOK
    <3> QED BY <1>2, <1>3, <1>6, <2>3, <3>2 DEF RequestInv, CacheTypeOK
  <2> QED BY <2>5, <2>6, <2>7, <2>8, <2>9, <2>10, <2>11 DEF MemInv, CacheConsistent
<1>7. ASSUME NEW gone \in SUBSET Recs, r # NoRec, gone = (IF ref[r] = 0 THEN {r} ELSE {}),
             table' = TableWithout(table, {r}), lru' = ListWithout(lru, {r}),
             alive' = alive \ gone, key' = Freed(key, gone, NoRec),
             mtime' = Freed(mtime, gone, 0), expires' = Freed(expires, gone, 0),
             pc' = [pc EXCEPT ![t] = onMiss], UNCHANGED <<ref, held>>
      PROVE  MemInv'
  <2>1. r \in Linked /\ r \in Recs /\ r \in alive BY <1>1, <1>7
  <2>2. /\ table' \in [Keys -> Recs \cup {NoRec}] /\ lru' \in Seq(Recs) /\ Unique(lru')
        /\ Linked' = Linked \ {r}
        /\ (Linked = {table[j] : j \in Keys} \ {NoRec})'
    <3> DEFINE G == {r}
    <3>1. table \in [Keys -> Recs \cup {NoRec}] /\ G \in SUBSET Recs
      BY <1>2, <2>1 DEF CacheTypeOK
    <3>2. /\ lru \in Seq(Recs) /\ Unique(lru)
          /\ ToSet(lru) = {table[j] : j \in Keys} \ {NoRec}
          /\ table' = TableWithout(table, G) /\ lru' = ListWithout(lru, G)
      BY <1>1, <1>7 DEF Linked
    <3> HIDE DEF G
    <3>3. /\ table' \in [Keys -> Recs \cup {NoRec}] /\ lru' \in Seq(Recs) /\ Unique(lru')
          /\ ToSet(lru') = ToSet(lru) \ G
          /\ ToSet(lru') = {table'[j] : j \in Keys} \ {NoRec}
      BY <3>1, <3>2, Removal
    <3> QED BY <3>3 DEF Linked, G
  <2>3. CacheTypeOK' BY <1>2, <1>7, <2>2 DEF CacheTypeOK, Freed
  <2>4. RefCountExact'
    <3>1. \A q \in Recs : ref[q] > 0 => q \notin gone BY <1>7
    <3>2. \A q \in Recs : ref[q] > 0 => q \in alive' BY <1>2, <1>7, <3>1 DEF RefCountExact
    <3> QED BY <1>2, <1>7, <3>2 DEF RefCountExact
  <2>5. KeyInv'
    <3>1. \A j \in Keys : table'[j] # NoRec => table'[j] = table[j] /\ table[j] # r /\ table[j] \in Recs
      BY <1>2, <1>7, <2>2 DEF TableWithout, CacheTypeOK
    <3>2. \A q \in Recs : q # r => key'[q] = key[q] BY <1>7 DEF Freed
    <3> QED BY <1>2, <3>1, <3>2 DEF KeyInv
  <2>6. ListMatchesTable' /\ size' = Cardinality(Linked')
    <3>1. \A q \in Linked' : q \in alive' BY <1>1, <1>7, <2>2
    <3> QED BY <2>2, <2>3, <2>5, <3>1, ListKept
  <2>7. NoLeak' BY <1>2, <1>7, <2>1, <2>2 DEF NoLeak, CacheTypeOK
  <2>8. OnlyUsedOverLimit'
    <3>1. /\ Cardinality(Linked') <= Cardinality(Linked)
          /\ Cardinality(Linked) \in Nat /\ Cardinality(Linked') \in Nat /\ MaxCached \in Nat
      BY <1>1, <2>2, FS_Subset, FS_CardinalityType, CacheAssumption
    <3>2. size' > MaxCached => size > MaxCached BY <1>1, <2>6, <3>1
    <3> QED BY <1>2, <1>7, <2>2, <3>2 DEF OnlyUsedOverLimit
  <2>9. RequestInv'
    <3>1. \A u \in Threads : newrec[u] # NoRec => newrec[u] # r /\ newrec[u] \in Recs
      BY <1>2, <2>1 DEF RequestInv, CacheTypeOK
    <3>2. \A q \in Recs : q # r => key'[q] = key[q] /\ (q \in alive => q \in alive')
      BY <1>7 DEF Freed
    <3>3. \A u \in Threads : newrec[u] # NoRec =>
            newrec[u] \in alive' /\ newrec[u] \notin Linked' /\ key'[newrec[u]] = key[newrec[u]]
      BY <1>2, <2>2, <3>1, <3>2 DEF RequestInv
    <3>4. \A u \in Threads \ {t} : pc'[u] = pc[u] /\ rkey'[u] = rkey[u]
      BY <1>2, <1>7 DEF CacheTypeOK
    <3>5. pc'[t] = onMiss /\ rkey'[t] = k BY <1>2, <1>7 DEF CacheTypeOK
    <3>6. pc'[t] # "insert" /\ pc'[t] # "idle" /\ newrec'[t] = NoRec /\ held'[t] = NoRec
      BY <1>3, <1>7, <3>5
    <3>7. UNCHANGED <<ref, held, newrec>> BY <1>7
    <3> HIDE DEF r
    <3> QED BY <1>2, <3>3, <3>4, <3>5, <3>6, <3>7 DEF RequestInv
  <2> QED BY <2>3, <2>4, <2>5, <2>6, <2>7, <2>8, <2>9 DEF MemInv, CacheConsistent
<1> QED
  <2>1. CASE r = NoRec /\ pc' = [pc EXCEPT ![t] = onMiss] /\ UNCHANGED <<cacheVars, held>>
    BY <1>5, <2>1
  <2>2. CASE pc' = [pc EXCEPT ![t] = "handler"] /\ UNCHANGED <<cacheVars, held>>
    BY <1>5, <2>2
  <2>3. CASE /\ r # NoRec /\ now[t] <= exp
             /\ lru' = <<r>> \o ListWithout(lru, {r})
             /\ expires' = [expires EXCEPT ![r] = exp]
             /\ IF ims # 0 /\ mtime[r] <= ims
                  THEN UNCHANGED <<ref, held>>
                  ELSE ref' = [ref EXCEPT ![r] = @ + 1] /\ held' = [held EXCEPT ![t] = r]
             /\ pc' = [pc EXCEPT ![t] = "serving"]
             /\ UNCHANGED <<table, alive, key, mtime>>
    <3>1. \/ UNCHANGED <<ref, held>>
          \/ ref' = [ref EXCEPT ![r] = @ + 1] /\ held' = [held EXCEPT ![t] = r]
      BY <2>3
    <3> HIDE DEF r, exp
    <3> QED BY <1>6, <2>3, <3>1
  <2>4. CASE /\ r # NoRec /\ table' = TableWithout(table, {r}) /\ lru' = ListWithout(lru, {r})
             /\ LET gone == IF ref[r] = 0 THEN {r} ELSE {}
                IN  /\ alive' = alive \ gone
                    /\ key' = Freed(key, gone, NoRec)
                    /\ mtime' = Freed(mtime, gone, 0)
                    /\ expires' = Freed(expires, gone, 0)
             /\ pc' = [pc EXCEPT ![t] = onMiss]
             /\ UNCHANGED <<ref, held>>
    <3> DEFINE gone == IF ref[r] = 0 THEN {r} ELSE {}
    <3>1. gone \in SUBSET Recs BY <1>1, <2>4
    <3> QED BY <1>7, <2>4, <3>1
  <2> QED BY <2>1, <2>2, <2>3, <2>4 DEF nxweb_cache_try

(* Records are removed from the cache and freed, from a table and a list   *)
(* that agree.                                                             *)
LEMMA RemoveAndFree ==
  ASSUME CacheTypeOK, NEW tbl \in [Keys -> Recs \cup {NoRec}], NEW l \in Seq(Recs), Unique(l),
         ToSet(l) = {tbl[k] : k \in Keys} \ {NoRec}, ToSet(l) \subseteq alive,
         \A k \in Keys : tbl[k] # NoRec => key[tbl[k]] = k,
         NEW G \in SUBSET Recs,
         table' = TableWithout(tbl, G), lru' = ListWithout(l, G), alive' = alive \ G,
         key' = Freed(key, G, NoRec), mtime' = Freed(mtime, G, 0), expires' = Freed(expires, G, 0)
  PROVE  /\ table' \in [Keys -> Recs \cup {NoRec}] /\ lru' \in Seq(Recs) /\ Unique(lru')
         /\ Linked' = ToSet(l) \ G
         /\ (Linked = {table[k] : k \in Keys} \ {NoRec})'
         /\ alive' \subseteq Recs /\ key' \in [Recs -> Keys \cup {NoRec}]
         /\ mtime' \in [Recs -> Nat] /\ expires' \in [Recs -> Nat]
         /\ KeyInv' /\ \A r \in Linked' : r \in alive'
<1>1. /\ table' \in [Keys -> Recs \cup {NoRec}] /\ lru' \in Seq(Recs) /\ Unique(lru')
      /\ ToSet(lru') = ToSet(l) \ G
      /\ ToSet(lru') = {table'[k] : k \in Keys} \ {NoRec}
  BY Removal
<1>2. Linked' = ToSet(l) \ G /\ (Linked = {table[k] : k \in Keys} \ {NoRec})'
  BY <1>1 DEF Linked
<1>3. /\ alive' \subseteq Recs /\ key' \in [Recs -> Keys \cup {NoRec}]
      /\ mtime' \in [Recs -> Nat] /\ expires' \in [Recs -> Nat]
  BY DEF CacheTypeOK, Freed
<1>4. KeyInv'
  <2>1. \A k \in Keys : table'[k] # NoRec =>
          table'[k] = tbl[k] /\ tbl[k] \notin G /\ tbl[k] \in Recs
    BY DEF TableWithout
  <2>2. \A q \in Recs : q \notin G => key'[q] = key[q] BY DEF Freed
  <2> QED BY <2>1, <2>2 DEF KeyInv
<1>5. \A r \in Linked' : r \in alive' BY <1>2
<1> QED BY <1>1, <1>2, <1>3, <1>4, <1>5

(* Steps that leave the cache alone.                                       *)
LEMMA QuietStep ==
  ASSUME MemInv,
         \/ \E t \in Threads : \/ HandlerResponds(t) \/ CacheTick(t)
                               \/ RequestComplete(t) /\ held[t] = NoRec
         \/ \E k \in Keys : FileModified(k)
         \/ UNCHANGED memVars
  PROVE  MemInv'
<1> USE DEF recVars, cacheVars, reqVars, memVars
<1>1. CacheTypeOK /\ RefCountExact /\ CacheConsistent /\ RequestInv /\ KeyInv BY DEF MemInv
<1>2. SUFFICES ASSUME UNCHANGED <<cacheVars, held, newrec>>, CacheTypeOK', RequestInv' PROVE MemInv'
  <2>1. ASSUME NEW t \in Threads, HandlerResponds(t)
        PROVE  UNCHANGED <<cacheVars, held, newrec>> /\ CacheTypeOK' /\ RequestInv'
    <3>1. rkey[t] \in Keys BY <1>1, <2>1 DEF RequestInv, HandlerResponds
    <3>2. fmtime[rkey[t]] \in Nat BY <1>1, <3>1, CacheAssumption DEF CacheTypeOK
    <3>3. CacheTypeOK' BY <1>1, <2>1, <3>2 DEF HandlerResponds, CacheTypeOK
    <3>4. RequestInv' BY <1>1, <2>1 DEF HandlerResponds, RequestInv, Linked, CacheTypeOK
    <3> QED BY <2>1, <3>3, <3>4 DEF HandlerResponds
  <2>2. ASSUME NEW t \in Threads, CacheTick(t)
        PROVE  UNCHANGED <<cacheVars, held, newrec>> /\ CacheTypeOK' /\ RequestInv'
    BY <1>1, <2>2 DEF CacheTick, CacheTypeOK, RequestInv, Linked
  <2>3. ASSUME NEW t \in Threads, RequestComplete(t), held[t] = NoRec
        PROVE  UNCHANGED <<cacheVars, held, newrec>> /\ CacheTypeOK' /\ RequestInv'
    <3>1. UNCHANGED <<cacheVars, held, newrec>> BY <1>1, <2>3 DEF RequestComplete, CacheTypeOK
    <3>2. CacheTypeOK' BY <1>1, <2>3, <3>1 DEF RequestComplete, CacheTypeOK
    <3>3. RequestInv'
      <4>1. /\ pc[t] = "serving" /\ pc'[t] = "idle"
            /\ \A u \in Threads \ {t} : pc'[u] = pc[u] /\ rkey'[u] = rkey[u]
        BY <1>1, <2>3 DEF RequestComplete, CacheTypeOK
      <4>2. newrec[t] = NoRec /\ Linked' = Linked BY <1>1, <3>1, <4>1 DEF RequestInv, Linked
      <4> QED BY <1>1, <2>3, <3>1, <4>1, <4>2 DEF RequestInv
    <3> QED BY <3>1, <3>2, <3>3
  <2>4. CASE (\E k \in Keys : FileModified(k)) \/ UNCHANGED memVars
    <3>1. UNCHANGED <<cacheVars, reqVars, now>> BY <2>4 DEF FileModified
    <3>2. fmtime' \in [Keys -> Mtimes] BY <1>1, <2>4 DEF FileModified, CacheTypeOK
    <3> QED BY <1>1, <3>1, <3>2, <1>2 DEF CacheTypeOK, RequestInv, Linked
  <2> QED BY <1>2, <2>1, <2>2, <2>3, <2>4
<1>3. RefCountExact' BY <1>1, <1>2 DEF RefCountExact
<1>4. CacheConsistent'
  BY <1>1, <1>2 DEF CacheConsistent, ListMatchesTable, NoLeak, OnlyUsedOverLimit, Linked, size
<1>5. KeyInv' BY <1>1, <1>2 DEF KeyInv
<1> QED BY <1>2, <1>3, <1>4, <1>5 DEF MemInv

(* A record is allocated and filled.                                       *)
LEMMA ReadStep ==
  ASSUME MemInv, NEW t \in Threads, StoreReads(t)
  PROVE  MemInv'
<1>1. CacheTypeOK /\ RefCountExact /\ NoLeak /\ OnlyUsedOverLimit /\ RequestInv /\ KeyInv
      /\ ListMatchesTable /\ CacheConsistent
  BY DEF MemInv, CacheConsistent
<1>2. rkey[t] \in Keys /\ newrec[t] = NoRec /\ pc[t] = "read" BY <1>1 DEF RequestInv, StoreReads
<1>3. Linked' = Linked /\ size' = size /\ UNCHANGED <<table, lru, ref, rkey, lm, held, now, fmtime>>
  BY DEF StoreReads, Linked, size
<1>4. CASE pc' = [pc EXCEPT ![t] = "serving"] /\ UNCHANGED <<alive, newrec, key, mtime, expires>>
  <2>1. CacheTypeOK' BY <1>1, <1>3, <1>4 DEF CacheTypeOK
  <2>2. RefCountExact' BY <1>1, <1>3, <1>4 DEF RefCountExact
  <2>3. CacheConsistent'
    BY <1>1, <1>3, <1>4 DEF CacheConsistent, ListMatchesTable, NoLeak, OnlyUsedOverLimit
  <2>4. RequestInv' BY <1>1, <1>2, <1>3, <1>4 DEF RequestInv, CacheTypeOK
  <2>5. KeyInv' BY <1>1, <1>3, <1>4 DEF KeyInv
  <2> QED BY <2>1, <2>2, <2>3, <2>4, <2>5 DEF MemInv
<1>5. ASSUME NEW r \in Recs \ alive, alive' = alive \cup {r},
             newrec' = [newrec EXCEPT ![t] = r], key' = [key EXCEPT ![r] = rkey[t]],
             mtime' = [mtime EXCEPT ![r] = lm[t]],
             expires' = [expires EXCEPT ![r] = now[t] + CachedTime],
             pc' = [pc EXCEPT ![t] = "insert"]
      PROVE  MemInv'
  <2>1. CacheTypeOK'
    <3>1. now[t] + CachedTime \in Nat /\ lm[t] \in Nat BY <1>1, CacheAssumption DEF CacheTypeOK
    <3>2. /\ alive' \subseteq Recs /\ key' \in [Recs -> Keys \cup {NoRec}]
          /\ mtime' \in [Recs -> Nat] /\ expires' \in [Recs -> Nat]
      BY <1>1, <1>2, <1>5, <3>1 DEF CacheTypeOK
    <3>3. newrec' \in [Threads -> Recs \cup {NoRec}] BY <1>1, <1>5 DEF CacheTypeOK
    <3> QED BY <1>1, <1>3, <1>5, <3>2, <3>3 DEF CacheTypeOK
  <2>2. RefCountExact' BY <1>1, <1>3, <1>5 DEF RefCountExact
  <2>3. r \notin Linked /\ ref[r] = 0 /\ r # NoRec
    <3>1. r \notin Linked BY <1>1 DEF ListMatchesTable
    <3>2. ref[r] \in Nat /\ ~ (ref[r] > 0) BY <1>1 DEF RefCountExact, CacheTypeOK
    <3> QED BY <3>1, <3>2, CacheAssumption
  <2>4. \A k \in Keys : table[k] # NoRec => table[k] \in Recs /\ table[k] # r
    BY <1>1, <2>3 DEF ListMatchesTable, CacheTypeOK
  <2>5. KeyInv' BY <1>1, <1>3, <1>5, <2>4 DEF KeyInv, CacheTypeOK
  <2>6. ListMatchesTable'
    <3>1. \A q \in Linked : q \in Recs /\ q # r BY <1>1, <2>3 DEF ListMatchesTable, CacheTypeOK
    <3> QED BY <1>1, <1>3, <1>5, <3>1 DEF ListMatchesTable, CacheTypeOK
  <2>7. NoLeak'
    <3>1. newrec'[t] = r /\ \A u \in Threads \ {t} : newrec'[u] = newrec[u]
      BY <1>1, <1>5 DEF CacheTypeOK
    <3>2. \A q \in alive : q # NoRec BY <1>1, CacheAssumption DEF CacheTypeOK
    <3>3. \A q \in alive : (\E u \in Threads : newrec[u] = q) => \E u \in Threads : newrec'[u] = q
      BY <1>2, <3>1, <3>2
    <3> QED BY <1>1, <1>3, <1>5, <3>1, <3>3 DEF NoLeak
  <2>8. OnlyUsedOverLimit' BY <1>1, <1>3 DEF OnlyUsedOverLimit
  <2>9. RequestInv'
    <3>1. \A u \in Threads : newrec[u] # NoRec => newrec[u] # r /\ newrec[u] \in Recs
      BY <1>1, <1>5 DEF RequestInv, CacheTypeOK
    <3>2. \A u \in Threads \ {t} : pc'[u] = pc[u] /\ newrec'[u] = newrec[u]
      BY <1>1, <1>5 DEF CacheTypeOK
    <3>3. \A q \in Recs : q # r => key'[q] = key[q] BY <1>1, <1>5 DEF CacheTypeOK
    <3>4. newrec'[t] = r /\ pc'[t] = "insert" /\ key'[r] = rkey[t] BY <1>1, <1>5 DEF CacheTypeOK
    <3>5. held[t] = NoRec BY <1>1, <1>2 DEF RequestInv
    <3> QED BY <1>1, <1>2, <1>3, <1>5, <2>3, <3>1, <3>2, <3>3, <3>4, <3>5 DEF RequestInv
  <2> QED BY <2>1, <2>2, <2>5, <2>6, <2>7, <2>8, <2>9 DEF MemInv, CacheConsistent
<1> QED BY <1>4, <1>5 DEF StoreReads

(* The record is inserted, or the one another thread has inserted is       *)
(* shared.                                                                 *)
LEMMA InsertStep ==
  ASSUME MemInv, NEW t \in Threads, StoreInserts(t)
  PROVE  MemInv'
<1> DEFINE n == newrec[t]
           k == rkey[t]
           r == table[k]
<1>1. CacheTypeOK /\ RefCountExact /\ NoLeak /\ OnlyUsedOverLimit /\ RequestInv /\ KeyInv
      /\ ListMatchesTable
  BY DEF MemInv, CacheConsistent
<1>2. /\ lru \in Seq(Recs) /\ Unique(lru) /\ Linked \subseteq Recs
      /\ Linked = {table[j] : j \in Keys} \ {NoRec}
      /\ \A q \in Linked : q \in alive
      /\ r # NoRec => r \in Linked
      /\ size = Cardinality(Linked) /\ IsFiniteSet(Linked)
  <2>1. k \in Keys BY <1>1 DEF RequestInv, StoreInserts
  <2> QED BY <2>1, ListFacts
<1>3. /\ pc[t] = "insert" /\ k \in Keys /\ n \in Recs /\ n # NoRec /\ n \in alive /\ n \notin Linked
      /\ ref[n] = 0 /\ key[n] = k /\ (\A u \in Threads \ {t} : newrec[u] # n) /\ held[t] = NoRec
  BY <1>1 DEF RequestInv, StoreInserts, CacheTypeOK
<1>4. /\ newrec' = [newrec EXCEPT ![t] = NoRec] /\ pc' = [pc EXCEPT ![t] = "serving"]
      /\ UNCHANGED <<rkey, lm, now, fmtime>>
  BY DEF StoreInserts
<1>5. ASSUME NEW q \in Recs, held' = [held EXCEPT ![t] = q],
             \A p \in Recs : ref'[p] = IF p = q THEN ref[p] + 1 ELSE ref[p],
             q \in alive', \A p \in Recs : ref[p] > 0 /\ p \in alive => p \in alive'
      PROVE  RefCountExact'
  <2>1. held \in [Threads -> Recs \cup {NoRec}] /\ held' \in [Threads -> Recs \cup {NoRec}]
    BY <1>1, <1>5 DEF CacheTypeOK
  <2>2. held'[t] = q /\ \A u \in Threads \ {t} : held'[u] = held[u] BY <1>5, <2>1
  <2>3. \A p \in Recs : /\ Cardinality(Holders(held, p)) \in Nat
                        /\ Cardinality(Holders(held', p)) =
                             IF p = q THEN Cardinality(Holders(held, p)) + 1
                             ELSE Cardinality(Holders(held, p))
    BY <1>3, <2>1, <2>2, CountHolders
  <2>4. \A p \in Recs : /\ ref[p] = Cardinality(Holders(held, p)) /\ ref[p] \in Nat
                        /\ ref[p] > 0 => p \in alive
    BY <1>1 DEF RefCountExact, Holders, CacheTypeOK
  <2>5. \A p \in Recs : ref'[p] = Cardinality(Holders(held', p)) BY <1>5, <2>3, <2>4
  <2>6. \A p \in Recs : ref'[p] > 0 => p \in alive' BY <1>5, <2>4
  <2> QED BY <2>5, <2>6 DEF RefCountExact, Holders
<1>6. ASSUME NEW A, alive' = alive \ A, n \notin alive' \/ n \in Linked',
             \A u \in Threads \ {t} : newrec[u] # NoRec =>
               /\ newrec[u] \notin A /\ newrec[u] \notin Linked'
               /\ ref'[newrec[u]] = 0 /\ key'[newrec[u]] = key[newrec[u]],
             held'[t] # NoRec, \A u \in Threads \ {t} : held'[u] = held[u],
             CacheTypeOK', \A q \in Recs : ref'[q] >= ref[q],
             \A q \in Linked : q \in Linked' \/ q \in A
      PROVE  RequestInv' /\ NoLeak'
  <2>1. /\ newrec'[t] = NoRec /\ \A u \in Threads \ {t} : newrec'[u] = newrec[u]
        /\ pc'[t] = "serving" /\ \A u \in Threads \ {t} : pc'[u] = pc[u]
    BY <1>1, <1>4 DEF CacheTypeOK
  <2>2. RequestInv' BY <1>1, <1>3, <1>4, <1>6, <2>1 DEF RequestInv
  <2>3. NoLeak'
    <3>1. ASSUME NEW q \in alive', q \notin Linked' PROVE ref'[q] > 0 \/ \E u \in Threads : newrec'[u] = q
      <4>1. q \in Recs /\ q \in alive /\ q # n /\ q \notin A BY <1>1, <1>6, <3>1 DEF CacheTypeOK
      <4>2. ref[q] \in Nat /\ ref'[q] \in Nat /\ ref'[q] >= ref[q] BY <1>1, <1>6, <4>1 DEF CacheTypeOK
      <4>3. q \notin Linked BY <1>6, <3>1, <4>1
      <4>4. ref[q] > 0 \/ \E u \in Threads \ {t} : newrec[u] = q BY <1>1, <4>1, <4>3 DEF NoLeak
      <4> QED BY <2>1, <4>2, <4>4
    <3> QED BY <3>1 DEF NoLeak
  <2> QED BY <2>2, <2>3
<1>7. ASSUME r # NoRec, alive' = alive \ {n}, key' = Freed(key, {n}, NoRec),
             mtime' = Freed(mtime, {n}, 0), expires' = Freed(expires, {n}, 0),
             ref' = [ref EXCEPT ![r] = @ + 1], held' = [held EXCEPT ![t] = r],
             UNCHANGED <<table, lru>>
      PROVE  MemInv'
  <2>1. r \in Linked /\ r \in Recs /\ r # n /\ Linked' = Linked BY <1>2, <1>3, <1>7 DEF Linked
  <2> HIDE DEF r
  <2>2. CacheTypeOK'
    <3>1. ref' \in [Recs -> Nat] /\ held' \in [Threads -> Recs \cup {NoRec}]
      BY <1>1, <1>7, <2>1 DEF CacheTypeOK
    <3> QED BY <1>1, <1>4, <1>7, <3>1 DEF CacheTypeOK, Freed
  <2>3. \A p \in Recs : ref'[p] = IF p = r THEN ref[p] + 1 ELSE ref[p]
    BY <1>1, <1>7 DEF CacheTypeOK
  <2>4. RefCountExact'
    <3>1. r \in alive' BY <1>2, <1>7, <2>1
    <3>2. \A p \in Recs : ref[p] > 0 /\ p \in alive => p \in alive' BY <1>3, <1>7
    <3> QED BY <1>5, <1>7, <2>1, <2>3, <3>1, <3>2
  <2>5. \A q \in Recs : q # n => key'[q] = key[q] BY <1>7 DEF Freed
  <2>6. KeyInv'
    <3>1. \A j \in Keys : table[j] # NoRec => table[j] \in Recs /\ table[j] # n BY <1>2, <1>3
    <3> QED BY <1>1, <1>7, <2>5, <3>1 DEF KeyInv
  <2>7. ListMatchesTable' /\ size' = Cardinality(Linked')
    <3>1. (Linked = {table[j] : j \in Keys} \ {NoRec})' /\ Unique(lru') BY <1>2, <1>7, <2>1
    <3>2. \A q \in Linked' : q \in alive' BY <1>2, <1>3, <1>7, <2>1
    <3> QED BY <2>2, <2>6, <3>1, <3>2, ListKept
  <2>8. \A q \in Recs : ref'[q] >= ref[q]
    <3>1. \A q \in Recs : ref[q] \in Nat BY <1>1 DEF CacheTypeOK
    <3> QED BY <2>3, <3>1
  <2>9. OnlyUsedOverLimit'
    <3>1. \A q \in Linked : ref[q] \in Nat /\ ref'[q] \in Nat /\ ref'[q] >= ref[q]
      BY <1>1, <1>2, <2>2, <2>8 DEF CacheTypeOK
    <3> QED BY <1>1, <1>2, <2>1, <2>7, <3>1 DEF OnlyUsedOverLimit
  <2>10. RequestInv' /\ NoLeak'
    <3>1. \A u \in Threads \ {t} : newrec[u] # NoRec =>
            /\ newrec[u] \notin {n} /\ newrec[u] \notin Linked'
            /\ ref'[newrec[u]] = 0 /\ key'[newrec[u]] = key[newrec[u]]
      BY <1>1, <1>3, <2>1, <2>3, <2>5 DEF RequestInv, CacheTypeOK
    <3>2. held'[t] # NoRec /\ \A u \in Threads \ {t} : held'[u] = held[u]
      BY <1>1, <1>7, <2>1, CacheAssumption DEF CacheTypeOK
    <3>3. n \notin alive' /\ \A q \in Linked : q \in Linked' BY <1>7, <2>1
    <3> HIDE DEF n
    <3> QED BY <1>6, <1>7, <2>2, <2>8, <3>1, <3>2, <3>3
  <2> QED BY <2>2, <2>4, <2>6, <2>7, <2>9, <2>10 DEF MemInv, CacheConsistent
<1>8. ASSUME NEW l, NEW rf, NEW gone, r = NoRec, l = <<n>> \o lru, rf = [ref EXCEPT ![n] = 1],
             gone = cache_check_size(l, rf),
             table' = TableWithout([table EXCEPT ![k] = n], gone),
             lru' = ListWithout(l, gone), alive' = alive \ gone, key' = Freed(key, gone, NoRec),
             mtime' = Freed(mtime, gone, 0), expires' = Freed(expires, gone, 0),
             ref' = rf, held' = [held EXCEPT ![t] = n]
      PROVE  MemInv'
  <2> DEFINE tbl == [table EXCEPT ![k] = n]
  <2>1. l \in Seq(Recs) /\ Unique(l) /\ ToSet(l) = Linked \cup {n}
    <3> HIDE DEF n
    <3> QED BY <1>2, <1>3, <1>8, AtHead DEF Linked
  <2>2. rf \in [Recs -> Nat] BY <1>1, <1>8 DEF CacheTypeOK
  <2>3. \A p \in Recs : rf[p] = IF p = n THEN ref[p] + 1 ELSE ref[p]
    BY <1>1, <1>3, <1>8 DEF CacheTypeOK
  <2>4. /\ gone \subseteq ToSet(l) /\ (\A v \in gone : rf[v] = 0)
        /\ Cardinality(ToSet(l) \ gone) > MaxCached => \A q \in ToSet(l) \ gone : rf[q] > 0
    BY <1>8, <2>1, <2>2, Evicts
  <2>5. n \notin gone /\ gone \in SUBSET Recs
    BY <1>2, <1>3, <2>1, <2>3, <2>4
  <2>6. /\ tbl \in [Keys -> Recs \cup {NoRec}]
        /\ \A j \in Keys : tbl[j] = IF j = k THEN n ELSE table[j]
    BY <1>1, <1>3 DEF CacheTypeOK
  <2>7. table' = TableWithout(tbl, gone) /\ table[k] = NoRec BY <1>8
  <2> HIDE DEF tbl, n, r
  <2>8. ToSet(l) = {tbl[j] : j \in Keys} \ {NoRec}
    <3>1. \A x \in Linked : \E j \in Keys : tbl[j] = x BY <1>2, <2>6, <2>7
    <3>2. \A j \in Keys : tbl[j] # NoRec => tbl[j] \in Linked \cup {n} BY <1>2, <2>6
    <3>3. tbl[k] = n BY <1>3, <2>6
    <3>4. NoRec \notin Linked BY <1>2
    <3> QED BY <1>3, <2>1, <3>1, <3>2, <3>3, <3>4
  <2>9. ToSet(l) \subseteq alive BY <1>2, <1>3, <2>1
  <2>10. \A j \in Keys : tbl[j] # NoRec => key[tbl[j]] = j BY <1>1, <1>3, <2>6 DEF KeyInv
  <2>11. /\ table' \in [Keys -> Recs \cup {NoRec}] /\ lru' \in Seq(Recs) /\ Unique(lru')
         /\ Linked' = ToSet(l) \ gone
         /\ (Linked = {table[j] : j \in Keys} \ {NoRec})'
         /\ alive' \subseteq Recs /\ key' \in [Recs -> Keys \cup {NoRec}]
         /\ mtime' \in [Recs -> Nat] /\ expires' \in [Recs -> Nat]
         /\ KeyInv' /\ \A q \in Linked' : q \in alive'
    <3>1. /\ lru' = ListWithout(l, gone) /\ alive' = alive \ gone /\ key' = Freed(key, gone, NoRec)
          /\ mtime' = Freed(mtime, gone, 0) /\ expires' = Freed(expires, gone, 0)
      BY <1>8
    <3> QED BY <1>1, <2>1, <2>5, <2>6, <2>7, <2>8, <2>9, <2>10, <3>1, RemoveAndFree
  <2>12. CacheTypeOK'
    <3>1. ref' \in [Recs -> Nat] BY <1>8, <2>2
    <3> QED BY <1>1, <1>3, <1>4, <1>8, <2>11, <3>1 DEF CacheTypeOK
  <2>13. ListMatchesTable' /\ size' = Cardinality(Linked') BY <2>11, <2>12, ListKept
  <2>14. OnlyUsedOverLimit' BY <1>8, <2>4, <2>11, <2>13 DEF OnlyUsedOverLimit
  <2>15. \A q \in Recs : ref[q] > 0 => q \notin gone
    <3>1. \A q \in Recs : ref[q] \in Nat BY <1>1 DEF CacheTypeOK
    <3>2. \A q \in Recs : q \in gone => ref[q] = 0 BY <2>3, <2>4, <2>5
    <3> QED BY <3>1, <3>2
  <2>16. RefCountExact'
    <3>1. \A p \in Recs : ref'[p] = IF p = n THEN ref[p] + 1 ELSE ref[p] BY <1>8, <2>3
    <3>2. n \in alive' BY <1>3, <1>8, <2>5
    <3>3. \A p \in Recs : ref[p] > 0 /\ p \in alive => p \in alive' BY <1>8, <2>15
    <3> QED BY <1>3, <1>5, <1>8, <3>1, <3>2, <3>3
  <2>17. RequestInv' /\ NoLeak'
    <3>1. ASSUME NEW u \in Threads \ {t}, newrec[u] # NoRec
          PROVE  /\ newrec[u] \notin gone /\ newrec[u] \notin Linked'
                 /\ ref'[newrec[u]] = 0 /\ key'[newrec[u]] = key[newrec[u]]
      <4>1. newrec[u] \in Recs /\ newrec[u] # n /\ newrec[u] \notin Linked /\ ref[newrec[u]] = 0
        BY <1>1, <1>3, <3>1 DEF RequestInv, CacheTypeOK
      <4>2. newrec[u] \notin ToSet(l) BY <2>1, <4>1
      <4>3. key'[newrec[u]] = key[newrec[u]] BY <1>8, <2>4, <4>1, <4>2 DEF Freed
      <4>4. ref'[newrec[u]] = 0 BY <1>8, <2>3, <4>1
      <4> QED BY <2>4, <2>11, <4>2, <4>3, <4>4
    <3>2. held'[t] # NoRec /\ \A u \in Threads \ {t} : held'[u] = held[u]
      BY <1>1, <1>3, <1>8 DEF CacheTypeOK
    <3>3. n \in Linked' /\ \A q \in Linked : q \in Linked' \/ q \in gone BY <2>1, <2>5, <2>11
    <3>4. \A q \in Recs : ref'[q] >= ref[q] BY <1>1, <1>8, <2>3 DEF CacheTypeOK
    <3> QED BY <1>6, <1>8, <2>12, <3>1, <3>2, <3>3, <3>4
  <2> QED BY <2>11, <2>12, <2>13, <2>14, <2>16, <2>17 DEF MemInv, CacheConsistent
<1> QED BY <1>7, <1>8 DEF StoreInserts

(* A response gives its reference back: cache_rec_unref.                   *)
LEMMA UnrefStep ==
  ASSUME MemInv, NEW t \in Threads, RequestComplete(t), held[t] # NoRec
  PROVE  MemInv'
<1> DEFINE r == held[t]
           rf == [ref EXCEPT ![r] = @ - 1]
           last == rf[r] = 0 /\ (now[t] > expires[r] \/ r \notin Linked)
           l == IF last THEN ListWithout(lru, {r}) ELSE lru
           victims == cache_check_size(l, rf)
           gone == (IF last THEN {r} ELSE {}) \cup victims
<1>1. CacheTypeOK /\ RefCountExact /\ NoLeak /\ OnlyUsedOverLimit /\ RequestInv /\ KeyInv
      /\ ListMatchesTable
  BY DEF MemInv, CacheConsistent
<1>2. /\ lru \in Seq(Recs) /\ Unique(lru) /\ Linked \subseteq Recs
      /\ Linked = {table[j] : j \in Keys} \ {NoRec}
      /\ \A q \in Linked : q \in alive
  BY ListFacts
<1>3. r \in Recs /\ pc[t] = "serving" BY <1>1 DEF CacheTypeOK, RequestComplete
<1>4. /\ pc' = [pc EXCEPT ![t] = "idle"] /\ rkey' = [rkey EXCEPT ![t] = NoRec]
      /\ lm' = [lm EXCEPT ![t] = 0] /\ held' = [held EXCEPT ![t] = NoRec]
      /\ UNCHANGED <<newrec, now, fmtime>>
  BY DEF RequestComplete
<1>5. /\ table' = TableWithout(table, gone) /\ lru' = ListWithout(lru, gone) /\ alive' = alive \ gone
      /\ key' = Freed(key, gone, NoRec) /\ mtime' = Freed(mtime, gone, 0)
      /\ expires' = Freed(expires, gone, 0) /\ ref' = rf
  BY DEF RequestComplete, cache_rec_unref
<1> HIDE DEF r
<1>6. \A p \in Recs : /\ ref[p] \in Nat /\ ref[p] = Cardinality(Holders(held, p))
                      /\ Cardinality(Holders(held', p)) \in Nat
                      /\ Cardinality(Holders(held, p)) =
                           IF p = r THEN Cardinality(Holders(held', p)) + 1
                           ELSE Cardinality(Holders(held', p))
  <2>1. held \in [Threads -> Recs \cup {NoRec}] /\ held' \in [Threads -> Recs \cup {NoRec}]
    BY <1>1, <1>4 DEF CacheTypeOK
  <2>2. held[t] = r /\ held'[t] = NoRec /\ \A u \in Threads \ {t} : held[u] = held'[u]
    BY <1>4, <2>1 DEF r
  <2>3. \A p \in Recs : /\ Cardinality(Holders(held', p)) \in Nat
                        /\ Cardinality(Holders(held, p)) =
                             IF p = r THEN Cardinality(Holders(held', p)) + 1
                             ELSE Cardinality(Holders(held', p))
    BY <1>3, <2>1, <2>2, CountHolders
  <2>4. \A p \in Recs : ref[p] = Cardinality(Holders(held, p)) /\ ref[p] \in Nat
    BY <1>1 DEF RefCountExact, Holders, CacheTypeOK
  <2> QED BY <2>3, <2>4
<1>7. /\ ref[r] > 0 /\ rf \in [Recs -> Nat]
      /\ \A p \in Recs : rf[p] = IF p = r THEN ref[p] - 1 ELSE ref[p]
  <2>1. ref[r] > 0 BY <1>3, <1>6
  <2>2. ref[r] - 1 \in Nat /\ ref \in [Recs -> Nat] BY <1>1, <1>3, <2>1 DEF CacheTypeOK
  <2> QED BY <1>3, <2>1, <2>2
<1>8. \A p \in Recs : rf[p] = Cardinality(Holders(held', p)) BY <1>6, <1>7
<1> HIDE DEF rf
<1>9. l \in Seq(Recs) /\ Unique(l) /\ ToSet(l) = (IF last THEN Linked \ {r} ELSE Linked)
  <2>1. CASE last BY <1>2, <2>1, Without DEF Linked
  <2>2. CASE ~ last BY <1>2, <2>2 DEF Linked
  <2> QED BY <2>1, <2>2
<1>10. last => rf[r] = 0 OBVIOUS
<1>11. ~ last /\ rf[r] = 0 => r \in Linked OBVIOUS
<1> HIDE DEF last, l
<1>12. /\ victims \subseteq ToSet(l) /\ (\A v \in victims : rf[v] = 0)
       /\ Cardinality(ToSet(l) \ victims) > MaxCached => \A q \in ToSet(l) \ victims : rf[q] > 0
  BY <1>7, <1>9, Evicts
<1> HIDE DEF victims
<1>13. /\ gone \in SUBSET Recs /\ Linked \ gone = ToSet(l) \ victims
       /\ \A q \in gone : rf[q] = 0
       /\ \A q \in gone : q \in Linked \/ q = r
  BY <1>2, <1>3, <1>9, <1>10, <1>12
<1> HIDE DEF gone
<1>14. /\ table' \in [Keys -> Recs \cup {NoRec}] /\ lru' \in Seq(Recs) /\ Unique(lru')
       /\ Linked' = Linked \ gone
       /\ (Linked = {table[j] : j \in Keys} \ {NoRec})'
       /\ alive' \subseteq Recs /\ key' \in [Recs -> Keys \cup {NoRec}]
       /\ mtime' \in [Recs -> Nat] /\ expires' \in [Recs -> Nat]
       /\ KeyInv' /\ \A q \in Linked' : q \in alive'
  <2>1. /\ table \in [Keys -> Recs \cup {NoRec}] /\ ToSet(lru) \subseteq alive
        /\ ToSet(lru) = {table[j] : j \in Keys} \ {NoRec}
        /\ \A j \in Keys : table[j] # NoRec => key[table[j]] = j
    BY <1>1, <1>2 DEF CacheTypeOK, Linked, KeyInv
  <2>2. /\ table' \in [Keys -> Recs \cup {NoRec}] /\ lru' \in Seq(Recs) /\ Unique(lru')
        /\ Linked' = ToSet(lru) \ gone
        /\ (Linked = {table[j] : j \in Keys} \ {NoRec})'
        /\ alive' \subseteq Recs /\ key' \in [Recs -> Keys \cup {NoRec}]
        /\ mtime' \in [Recs -> Nat] /\ expires' \in [Recs -> Nat]
        /\ KeyInv' /\ \A q \in Linked' : q \in alive'
    BY <1>1, <1>2, <1>5, <1>13, <2>1, RemoveAndFree
  <2> QED BY <2>2 DEF Linked
<1>15. CacheTypeOK'
  <2>1. ref' \in [Recs -> Nat] BY <1>5, <1>7
  <2> QED BY <1>1, <1>4, <1>14, <2>1 DEF CacheTypeOK
<1>16. ListMatchesTable' /\ size' = Cardinality(Linked') BY <1>14, <1>15, ListKept
<1>17. OnlyUsedOverLimit' BY <1>5, <1>12, <1>13, <1>14, <1>16 DEF OnlyUsedOverLimit
<1>18. RefCountExact'
  <2>1. \A p \in Recs : rf[p] > 0 => p \in alive'
    <3>1. \A p \in Recs : ref[p] > 0 => p \in alive BY <1>1 DEF RefCountExact
    <3>2. \A p \in Recs : rf[p] > 0 => ref[p] > 0 BY <1>3, <1>6, <1>7
    <3>3. \A p \in Recs : rf[p] > 0 => p \notin gone BY <1>13
    <3> QED BY <1>5, <3>1, <3>2, <3>3
  <2> QED BY <1>5, <1>8, <2>1 DEF RefCountExact, Holders
<1>19. NoLeak'
  <2>1. ASSUME NEW q \in alive', q \notin Linked', ~ (ref'[q] > 0)
        PROVE  \E u \in Threads : newrec'[u] = q
    <3>1. q \in alive /\ q \notin gone /\ q \in Recs /\ q \notin Linked
      BY <1>1, <1>5, <1>14, <2>1 DEF CacheTypeOK
    <3>2. rf[q] \in Nat /\ rf[q] = 0 BY <1>5, <1>7, <2>1, <3>1
    <3>3. q # r
      <4>1. q = r => last BY <1>11, <3>1, <3>2
      <4> QED BY <3>1, <4>1 DEF gone
    <3>4. ~ (ref[q] > 0) BY <1>7, <3>1, <3>2, <3>3
    <3> QED BY <1>1, <1>4, <3>1, <3>4 DEF NoLeak
  <2> QED BY <2>1 DEF NoLeak
<1>20. RequestInv'
  <2>1. ASSUME NEW u \in Threads, newrec[u] # NoRec
        PROVE  /\ newrec[u] \in alive' /\ newrec[u] \notin Linked'
               /\ ref'[newrec[u]] = 0 /\ key'[newrec[u]] = key[newrec[u]]
    <3>1. newrec[u] \in Recs /\ newrec[u] \in alive /\ newrec[u] \notin Linked /\ ref[newrec[u]] = 0
      BY <1>1, <2>1 DEF RequestInv, CacheTypeOK
    <3>2. newrec[u] # r BY <1>7, <3>1
    <3>3. newrec[u] \notin gone BY <1>13, <3>1, <3>2
    <3>4. key'[newrec[u]] = key[newrec[u]] BY <1>5, <3>1, <3>3 DEF Freed
    <3> QED BY <1>5, <1>7, <1>14, <3>1, <3>2, <3>3, <3>4
  <2>2. /\ pc'[t] = "idle" /\ held'[t] = NoRec
        /\ \A u \in Threads \ {t} : pc'[u] = pc[u] /\ held'[u] = held[u] /\ rkey'[u] = rkey[u]
    BY <1>1, <1>4 DEF CacheTypeOK
  <2>3. newrec[t] = NoRec BY <1>1, <1>3 DEF RequestInv
  <2> QED BY <1>1, <1>4, <2>1, <2>2, <2>3 DEF RequestInv
<1> QED BY <1>14, <1>15, <1>16, <1>17, <1>18, <1>19, <1>20 DEF MemInv, CacheConsistent

-----------------------------------------------------------------------------
(* The inductive invariant of the cache.                                   *)
THEOREM MemInvariant == CacheSpec => []MemInv
<1>1. ASSUME MemInv, [CacheNext]_memVars PROVE MemInv'
  <2>1. CASE \E t \in Threads, k \in Keys, ims \in Mtimes \cup {0} : SelectHandler(t, k, ims)
    <3>1. PICK t \in Threads, k \in Keys, ims \in Mtimes \cup {0} : SelectHandler(t, k, ims) BY <2>1
    <3>2. ims \in Nat BY CacheAssumption
    <3>3. /\ pc[t] = "idle" /\ nxweb_cache_try(t, k, ims, 0, "handler")
          /\ rkey' = [rkey EXCEPT ![t] = k] /\ UNCHANGED <<lm, newrec, now, fmtime>>
      BY <3>1 DEF SelectHandler
    <3> QED BY <1>1, <3>2, <3>3, TryStep
  <2>2. CASE \E t \in Threads : StoreTries(t)
    <3>1. PICK t \in Threads : StoreTries(t) BY <2>2
    <3>2. /\ pc[t] = "store" /\ nxweb_cache_try(t, rkey[t], 0, lm[t], "read")
          /\ UNCHANGED <<rkey, lm, newrec, now, fmtime>>
      BY <3>1 DEF StoreTries
    <3>3. rkey[t] \in Keys /\ lm[t] \in Nat /\ rkey \in [Threads -> Keys \cup {NoRec}]
      BY <1>1, <3>2 DEF MemInv, RequestInv, CacheTypeOK
    <3>4. rkey' = [rkey EXCEPT ![t] = rkey[t]] BY <3>2, <3>3
    <3> QED BY <1>1, <3>2, <3>3, <3>4, TryStep
  <2>3. ASSUME NEW t \in Threads, HandlerResponds(t) \/ CacheTick(t) PROVE MemInv'
    BY <1>1, <2>3, QuietStep
  <2>4. ASSUME NEW t \in Threads, StoreReads(t) PROVE MemInv' BY <1>1, <2>4, ReadStep
  <2>5. ASSUME NEW t \in Threads, StoreInserts(t) PROVE MemInv' BY <1>1, <2>5, InsertStep
  <2>6. ASSUME NEW t \in Threads, RequestComplete(t) PROVE MemInv'
    BY <1>1, <2>6, QuietStep, UnrefStep
  <2>7. CASE (\E k \in Keys : FileModified(k)) \/ UNCHANGED memVars BY <1>1, <2>7, QuietStep
  <2> QED BY <1>1, <2>1, <2>2, <2>3, <2>4, <2>5, <2>6, <2>7 DEF CacheNext
<1> QED BY <1>1, MemInit, PTL DEF CacheSpec

(* The fields of the cache and of the requests have their types.           *)
THEOREM CacheTypeCorrect == CacheSpec => []CacheTypeOK
<1>1. MemInv => CacheTypeOK BY DEF MemInv
<1> QED BY <1>1, MemInvariant, PTL

(* However many threads hit, store, evict, expire and release at once, the *)
(* reference count of a record is the number of responses that point into  *)
(* it, and none of them sees it freed.                                     *)
THEOREM ReferencesCounted == CacheSpec => []RefCountExact
<1>1. MemInv => RefCountExact BY DEF MemInv
<1> QED BY <1>1, MemInvariant, PTL

(* The table and the LRU list always hold the same live records, none of   *)
(* them is lost, and more than NXWEB_MAX_CACHED_ITEMS of them only while   *)
(* all are in use, whatever the limit and the number of records.           *)
THEOREM CacheAgrees == CacheSpec => []CacheConsistent
<1>1. MemInv => CacheConsistent BY DEF MemInv
<1> QED BY <1>1, MemInvariant, PTL

-----------------------------------------------------------------------------
(* The pieces of a version.                                                *)

LEMMA ContentSeq ==
  ASSUME NEW v \in Versions
  PROVE  Content(v) \in Seq(Pieces) /\ Len(Content(v)) = Size
<1>1. Size \in Nat BY FileCacheAssumption
<1>2. Content(v) \in [1 .. Size -> Pieces] BY DEF Content, Pieces
<1> QED BY <1>1, <1>2

(* The first n pieces.                                                     *)
LEMMA PartSeq ==
  ASSUME NEW v \in Versions, NEW n \in 0 .. Size
  PROVE  /\ SubSeq(Content(v), 1, n) \in Seq(Pieces)
         /\ Len(SubSeq(Content(v), 1, n)) = n
         /\ \A k \in 1 .. n : SubSeq(Content(v), 1, n)[k] = <<v, k>>
<1>1. Size \in Nat BY FileCacheAssumption
<1>2. \A k \in 1 .. n : k \in 1 .. Size BY <1>1
<1>3. Content(v) \in Seq(Pieces) /\ Len(Content(v)) = Size BY ContentSeq
<1>4. SubSeq(Content(v), 1, n) = [k \in 1 .. n |-> Content(v)[k]]
  BY <1>1, <1>3
<1>5. \A k \in 1 .. n : Content(v)[k] = <<v, k>> /\ Content(v)[k] \in Pieces
  BY <1>2 DEF Content, Pieces
<1>6. SubSeq(Content(v), 1, n) \in [1 .. n -> Pieces] BY <1>4, <1>5
<1>7. n \in Nat BY <1>1
<1>8. SubSeq(Content(v), 1, n) \in Seq(Pieces) /\ Len(SubSeq(Content(v), 1, n)) = n
  <2> DEFINE a == SubSeq(Content(v), 1, n)
  <2>1. a \in [1 .. n -> Pieces] BY <1>6
  <2> HIDE DEF a
  <2>2. a \in Seq(Pieces) /\ Len(a) = n BY <1>7, <2>1
  <2> QED BY <2>2 DEF a
<1>9. \A k \in 1 .. n : SubSeq(Content(v), 1, n)[k] = <<v, k>> BY <1>4, <1>5
<1> QED BY <1>8, <1>9

(* One piece more, and all of them.                                        *)
LEMMA PartExtended ==
  ASSUME NEW v \in Versions, NEW n \in 0 .. Size, n < Size
  PROVE  Append(SubSeq(Content(v), 1, n), <<v, n + 1>>) = SubSeq(Content(v), 1, n + 1)
<1> DEFINE a == SubSeq(Content(v), 1, n)
           b == Append(a, <<v, n + 1>>)
           c == SubSeq(Content(v), 1, n + 1)
<1>1. Size \in Nat /\ n \in Nat /\ n + 1 \in 0 .. Size BY FileCacheAssumption
<1>2. a \in Seq(Pieces) /\ Len(a) = n /\ \A k \in 1 .. n : a[k] = <<v, k>> BY PartSeq
<1>3. /\ c \in Seq(Pieces) /\ Len(c) = n + 1
      /\ \A k \in 1 .. n + 1 : c[k] = <<v, k>> BY <1>1, PartSeq
<1>4. <<v, n + 1>> \in Pieces BY <1>1 DEF Pieces
<1> HIDE DEF a, c
<1>5. /\ b \in Seq(Pieces) /\ Len(b) = n + 1
      /\ \A k \in 1 .. n : b[k] = a[k]
      /\ b[n + 1] = <<v, n + 1>>
  BY <1>1, <1>2, <1>4, AppendProperties
<1> HIDE DEF b
<1>6. \A k \in 1 .. n + 1 : k = n + 1 \/ k \in 1 .. n BY <1>1
<1>7. \A k \in 1 .. n + 1 : b[k] = c[k] BY <1>2, <1>3, <1>5, <1>6
<1>8. b = c BY <1>3, <1>5, <1>7, SeqEqual
<1> QED BY <1>8 DEF a, b, c

LEMMA PartWhole ==
  ASSUME NEW v \in Versions
  PROVE  SubSeq(Content(v), 1, Size) = Content(v)
<1>1. Size \in Nat /\ Size \in 0 .. Size BY FileCacheAssumption
<1>2. Content(v) \in Seq(Pieces) /\ Len(Content(v)) = Size BY ContentSeq
<1>3. /\ SubSeq(Content(v), 1, Size) \in Seq(Pieces)
      /\ Len(SubSeq(Content(v), 1, Size)) = Size
      /\ \A k \in 1 .. Size : SubSeq(Content(v), 1, Size)[k] = <<v, k>>
  BY <1>1, PartSeq
<1>4. \A k \in 1 .. Size : Content(v)[k] = <<v, k>> BY DEF Content
<1> QED BY <1>2, <1>3, <1>4, SeqEqual

LEMMA PartEmpty ==
  ASSUME NEW v \in Versions
  PROVE  SubSeq(Content(v), 1, 0) = <<>>
<1>1. 0 \in 0 .. Size BY FileCacheAssumption
<1>2. /\ SubSeq(Content(v), 1, 0) \in Seq(Pieces)
      /\ Len(SubSeq(Content(v), 1, 0)) = 0
  BY <1>1, PartSeq
<1> QED BY <1>2, EmptySeq

-----------------------------------------------------------------------------
(* The requests' records.                                                  *)

(* Values that belong to the fields' types.                                *)
LEMMA Zeros ==
  /\ 0 \in Versions /\ 0 \in Dates /\ 0 \in Ages /\ 0 \in InodeOrNone /\ 0 \in Nat
  /\ <<>> \in Seq(Pieces)
BY FileCacheAssumption DEF Versions, Dates, Ages, InodeOrNone

LEMMA StatusValues ==
  0 \in Statuses /\ 200 \in Statuses /\ 304 \in Statuses /\ 500 \in Statuses
BY DEF Statuses

LEMMA ProgramPoints ==
  {"new", "asked", "answered", "sending", "serving", "unlink", "link", "untmp", "finish",
   "done"} \subseteq States
BY DEF States

LEMMA NewRequestTyped ==
  /\ NewRequest \in Request
  /\ \A to \in States : [NewRequest EXCEPT !.pc = to] \in Request
<1> DEFINE z == 0
           p == "new"
           e == <<>>
           b == FALSE
<1>1. /\ z \in Versions /\ z \in Dates /\ z \in Ages /\ z \in InodeOrNone /\ z \in Nat
      /\ z \in Statuses /\ e \in Seq(Pieces) /\ p \in States /\ b \in BOOLEAN
  BY Zeros, StatusValues, ProgramPoints
<1> HIDE DEF z, p, e, b
<1>2. [pc |-> p, since |-> z, ims |-> z, revalidation |-> b, fd |-> z, sendfile |-> z,
       open |-> z, hdr |-> z, age |-> z, status |-> z, ver |-> z, max_age |-> z,
       storing |-> b, out |-> e] \in Request
  BY <1>1 DEF Request
<1>3. NewRequest \in Request BY <1>2 DEF z, p, e, b, NewRequest
<1>4. ASSUME NEW to \in States PROVE [NewRequest EXCEPT !.pc = to] \in Request
  BY <1>3 DEF Request
<1> QED BY <1>3, <1>4

(* A response that starts: all that nxd_http_server_proto does to the      *)
(* request is to make it a 304.                                            *)
LEMMA SendingFields ==
  ASSUME NEW q \in Request, NEW to \in States
  PROVE  LET s == Sending(q, to)
         IN  /\ s \in Request
             /\ s.fd = q.fd /\ s.sendfile = q.sendfile /\ s.open = q.open /\ s.ver = q.ver
             /\ s.storing = q.storing /\ s.out = q.out /\ ~ s.revalidation
             /\ \/ s.pc = "finish" /\ s.status = 304
                \/ s.pc = to /\ s.status = q.status
<1> DEFINE s == Sending(q, to)
           z == 0
           st == 304
           p == "finish"
           b == FALSE
<1>1. /\ z \in Versions /\ z \in Dates /\ z \in Ages /\ z \in Nat /\ st \in Statuses
      /\ p \in States /\ b \in BOOLEAN
  BY Zeros, StatusValues, ProgramPoints
<1>2. CASE q.since # 0 /\ q.ver <= q.since
  <2>1. s = [q EXCEPT !.hdr = z, !.age = z, !.revalidation = b, !.since = z, !.ims = z,
                      !.pc = p, !.status = st]
    BY <1>2 DEF Sending, Request
  <2>2. s.fd = q.fd /\ s.sendfile = q.sendfile /\ s.open = q.open /\ s.ver = q.ver
    BY <2>1 DEF Request
  <2>3. s.storing = q.storing /\ s.out = q.out /\ ~ s.revalidation
    BY <2>1 DEF Request
  <2>4. s.pc = "finish" /\ s.status = 304 BY <2>1 DEF Request
  <2> HIDE DEF z, st, p, b, s
  <2>5. s \in Request BY <1>1, <2>1 DEF Request
  <2> QED BY <2>2, <2>3, <2>4, <2>5 DEF s
<1>3. CASE ~ (q.since # 0 /\ q.ver <= q.since)
  <2>1. s = [q EXCEPT !.hdr = z, !.age = z, !.revalidation = b, !.since = z, !.ims = z,
                      !.pc = to]
    BY <1>3 DEF Sending, Request
  <2>2. s.fd = q.fd /\ s.sendfile = q.sendfile /\ s.open = q.open /\ s.ver = q.ver
    BY <2>1 DEF Request
  <2>3. s.storing = q.storing /\ s.out = q.out /\ ~ s.revalidation
    BY <2>1 DEF Request
  <2>4. s.pc = to /\ s.status = q.status BY <2>1 DEF Request
  <2> HIDE DEF z, st, p, b, s
  <2>5. s \in Request BY <1>1, <2>1 DEF Request
  <2> QED BY <2>2, <2>3, <2>4, <2>5 DEF s
<1> QED BY <1>2, <1>3

(* What is left of a request, by the finalizers, which close every         *)
(* descriptor that is open, or by a crash.                                 *)
IsDone(s) ==
  /\ s \in Request
  /\ s.pc = "done" /\ s.fd = 0 /\ s.sendfile = 0 /\ s.open = 0 /\ ~ s.storing
  /\ ~ s.revalidation /\ s.out = <<>> /\ s.ver = 0

LEMMA LostFields == IsDone([NewRequest EXCEPT !.pc = "done"])
<1> DEFINE s == [NewRequest EXCEPT !.pc = "done"]
<1>1. s \in Request BY NewRequestTyped, ProgramPoints
<1>2. s.pc = "done" /\ s.fd = 0 /\ s.sendfile = 0 /\ s.open = 0 BY DEF NewRequest
<1>3. ~ s.storing /\ ~ s.revalidation /\ s.out = <<>> /\ s.ver = 0 BY DEF NewRequest
<1> QED BY <1>1, <1>2, <1>3 DEF IsDone

LEMMA EndedFields ==
  ASSUME NEW q \in Request,
         q.open = (IF q.fd # 0 THEN 1 ELSE 0) + (IF q.sendfile # 0 THEN 1 ELSE 0)
  PROVE  IsDone(Ended(q))
<1> DEFINE n == q.open - (IF q.fd # 0 THEN 1 ELSE 0) - (IF q.sendfile # 0 THEN 1 ELSE 0)
           p == "done"
           s == [NewRequest EXCEPT !.pc = p, !.open = n]
<1>1. n = 0 /\ n \in Nat /\ p \in States BY ProgramPoints DEF Request
<1>2. Ended(q) = s BY DEF Ended
<1> HIDE DEF n
<1>3. s.pc = "done" /\ s.fd = 0 /\ s.sendfile = 0 /\ s.open = 0 BY <1>1 DEF NewRequest
<1>4. ~ s.storing /\ ~ s.revalidation /\ s.out = <<>> /\ s.ver = 0 BY DEF NewRequest
<1> HIDE DEF p
<1>5. s \in Request BY <1>1, NewRequestTyped DEF Request
<1> QED BY <1>2, <1>3, <1>4, <1>5 DEF IsDone

-----------------------------------------------------------------------------
(* The inductive invariant.                                                *)

LEMMA FileInvInit == FileCacheInit => FileInv
<1> SUFFICES ASSUME FileCacheInit PROVE FileInv OBVIOUS
<1>1. \A r \in FcRequests : req[r] = NewRequest BY DEF FileCacheInit
<1>2. /\ NewRequest.pc = "new" /\ NewRequest.fd = 0 /\ NewRequest.sendfile = 0
      /\ NewRequest.open = 0 /\ ~ NewRequest.storing /\ ~ NewRequest.revalidation
      /\ NewRequest.out = <<>> /\ NewRequest.ver = 0
  BY DEF NewRequest
<1>3. FileCacheTypeOK
  <2>1. NoFile \in Inode BY Zeros DEF NoFile, Inode
  <2>2. time \in 1 .. MaxTime /\ origin \in 1 .. MaxVersion /\ ttl \in Ages
    BY FileCacheAssumption DEF FileCacheInit, Ages
  <2> QED BY <2>1, <2>2, NewRequestTyped, Zeros DEF FileCacheInit, FileCacheTypeOK
<1>4. FdInv BY <1>1, <1>2 DEF FdInv
<1>5. TmpInv BY <1>1, <1>2 DEF TmpInv, Linking, FileCacheInit
<1>6. HiddenInv BY <1>1, <1>2, FileCacheAssumption DEF HiddenInv, FileCacheInit
<1>7. WholeInv BY <1>1, <1>2 DEF WholeInv, Linking, FileCacheInit
<1>8. OutInv
  <2>1. <<>> = SubSeq(Content(0), 1, 0) BY PartEmpty, Zeros
  <2>2. Len(<<>>) = 0 /\ 0 <= Size BY FileCacheAssumption
  <2> QED BY <1>1, <1>2, <2>1, <2>2 DEF OutInv, Linking
<1> QED BY <1>3, <1>4, <1>5, <1>6, <1>7, <1>8 DEF FileInv

(* A step of a request that is not storing and changes no content: what it *)
(* refers to afterwards it could reach before.                             *)
Reads(r, s) ==
  /\ ~ s.storing /\ s.pc \notin Linking
  /\ s.pc \in {"new", "asked", "answered"} => req[r].pc \in {"new", "asked", "answered"}
  /\ s.fd \in {0, req[r].fd, cache} /\ s.sendfile \in {0, req[r].fd, req[r].sendfile, cache}
  /\ s.fd # 0 => s.pc \in {"asked", "answered"} /\ s.hdr = inode[s.fd].ver
  /\ s.sendfile # 0 => s.pc \in {"serving", "finish"} /\ s.ver = inode[s.sendfile].ver
  /\ s.pc = "serving" => s.sendfile # 0
  /\ s.revalidation => s.fd # 0
  /\ s.open = (IF s.fd # 0 THEN 1 ELSE 0) + (IF s.sendfile # 0 THEN 1 ELSE 0)
  /\ Len(s.out) <= Size /\ s.out = SubSeq(Content(s.ver), 1, Len(s.out))
  /\ s.pc \in {"new", "asked", "answered", "done"} => s.out = <<>>
  /\ s.pc = "finish" /\ s.status = 200 => Len(s.out) = Size

SameContents ==
  /\ UNCHANGED <<time, origin, ttl, crashes, cache, tmp>> /\ faults' \in Nat
  /\ inode' \in [FcRequests -> Inode]
  /\ \A i \in FcRequests : inode'[i].ver = inode[i].ver /\ inode'[i].data = inode[i].data

LEMMA RequestStep ==
  ASSUME FileInv, NEW r \in FcRequests, NEW s \in Request,
         req' = [req EXCEPT ![r] = s], SameContents,
         ~ req[r].storing, req[r].pc \notin Linking, Reads(r, s)
  PROVE  FileInv'
<1> USE DEF FileInv, SameContents, Reads
<1>1. FileCacheTypeOK' BY DEF FileCacheTypeOK, SameContents
<1>2. /\ req'[r] = s /\ \A x \in FcRequests \ {r} : req'[x] = req[x]
      /\ cache \in InodeOrNone /\ tmp \in InodeOrNone
  BY DEF FileCacheTypeOK
<1>3. FdInv' BY <1>2 DEF FdInv
<1>4. TmpInv' BY <1>2 DEF TmpInv, InodeOrNone
<1>5. HiddenInv'
  <2> SUFFICES ASSUME NEW x \in FcRequests
               PROVE  /\ \/ req'[x].pc \in {"new", "asked", "answered", "unlink", "link"}
                         \/ req'[x].storing
                         => /\ cache # x
                            /\ \A y \in FcRequests : /\ req'[y].sendfile # x
                                                     /\ req'[y].fd = x => y = x
                      /\ req'[x].pc \in {"new", "asked", "answered"}
                         => tmp # x /\ req'[x].fd # x
    BY DEF HiddenInv
  <2>1. x # 0 BY FileCacheAssumption
  <2>2. \/ req'[x].pc \in {"new", "asked", "answered", "unlink", "link"} \/ req'[x].storing
        => \/ req[x].pc \in {"new", "asked", "answered", "unlink", "link"} \/ req[x].storing
    BY <1>2 DEF Linking
  <2>3. req'[x].pc \in {"new", "asked", "answered"}
        => req[x].pc \in {"new", "asked", "answered"}
    BY <1>2
  <2>4. ASSUME \/ req[x].pc \in {"new", "asked", "answered", "unlink", "link"} \/ req[x].storing
        PROVE  /\ cache # x
               /\ \A y \in FcRequests : req[y].sendfile # x /\ (req[y].fd = x => y = x)
    BY <2>4 DEF HiddenInv
  <2>5. ASSUME req[x].pc \in {"new", "asked", "answered"}
        PROVE  tmp # x /\ req[x].fd # x
    BY <2>5 DEF HiddenInv
  <2>6. CASE x = r
    <3>1. \/ s.pc \in {"new", "asked", "answered", "unlink", "link"} \/ s.storing
          => s.pc \in {"new", "asked", "answered"}
      BY DEF Linking
    <3> QED BY <1>2, <2>1, <2>2, <2>3, <2>4, <2>5, <2>6, <3>1
  <2>7. CASE x # r
    BY <1>2, <2>1, <2>2, <2>3, <2>4, <2>5, <2>7
  <2> QED BY <2>6, <2>7
<1>6. WholeInv'
  <2> DEFINE W(i) == inode'[i].data = Content(inode'[i].ver)
  <2>1. \A i \in FcRequests : Whole(i) => W(i) BY DEF Whole, SameContents
  <2>2. cache # 0 => W(cache) BY <1>2, <2>1 DEF WholeInv, InodeOrNone
  <2> SUFFICES ASSUME NEW x \in FcRequests
               PROVE  LET q == req'[x]
                      IN  /\ q.fd # 0 /\ ~ q.storing => W(q.fd) /\ q.hdr = inode'[q.fd].ver
                          /\ q.sendfile # 0 => W(q.sendfile) /\ q.ver = inode'[q.sendfile].ver
                          /\ q.storing => inode'[x].data = q.out /\ inode'[x].ver = q.ver
                          /\ q.pc \in Linking => W(x)
    BY <1>2, <2>2 DEF WholeInv, Whole
  <2> HIDE DEF W
  <2>3. /\ req[x] \in Request /\ req[r] \in Request
        /\ req[x].fd \in InodeOrNone /\ req[x].sendfile \in InodeOrNone
        /\ req[r].fd \in InodeOrNone /\ req[r].sendfile \in InodeOrNone
    BY DEF FileCacheTypeOK, Request
  <2>4. \A i \in InodeOrNone : i # 0 => i \in FcRequests BY DEF InodeOrNone
  <2>5. CASE x = r
    <3>1. /\ req[r].fd # 0 => Whole(req[r].fd)
          /\ req[r].sendfile # 0 => Whole(req[r].sendfile)
      BY DEF WholeInv
    <3>2. s.fd # 0 => W(s.fd) /\ s.hdr = inode'[s.fd].ver
      BY <1>2, <2>1, <2>2, <2>3, <2>4, <3>1 DEF SameContents
    <3>3. s.sendfile # 0 => W(s.sendfile) /\ s.ver = inode'[s.sendfile].ver
      BY <1>2, <2>1, <2>2, <2>3, <2>4, <3>1 DEF SameContents
    <3> QED BY <1>2, <2>5, <3>2, <3>3
  <2>6. CASE x # r
    <3>1. req'[x] = req[x] BY <1>2, <2>6
    <3>2. LET q == req[x]
          IN  /\ q.fd # 0 /\ ~ q.storing => Whole(q.fd) /\ q.hdr = inode[q.fd].ver
              /\ q.sendfile # 0 => Whole(q.sendfile) /\ q.ver = inode[q.sendfile].ver
              /\ q.storing => inode[x].data = q.out /\ inode[x].ver = q.ver
              /\ q.pc \in Linking => Whole(x)
      BY DEF WholeInv
    <3> QED BY <2>1, <2>3, <2>4, <3>1, <3>2 DEF SameContents
  <2> QED BY <2>5, <2>6
<1>7. OutInv' BY <1>2 DEF OutInv
<1> QED BY <1>1, <1>3, <1>4, <1>5, <1>6, <1>7

LEMMA UnchangedFiles ==
  ASSUME FileInv, UNCHANGED <<World, Files>>
  PROVE  SameContents
BY DEF FileInv, FileCacheTypeOK, Files, World, SameContents

(* fc_read_header opens the cached file and takes its header.              *)
LEMMA ReadFields ==
  ASSUME FileCacheTypeOK, cache # 0, NEW q \in Request
  PROVE  LET h == fc_read_header(q)
         IN  /\ h \in Request /\ h.fd = cache /\ h.open = q.open + 1 /\ h.hdr = inode[cache].ver
             /\ h.pc = q.pc /\ h.since = q.since /\ h.sendfile = q.sendfile /\ h.ver = q.ver
             /\ h.status = q.status /\ h.storing = q.storing /\ h.out = q.out
             /\ h.revalidation = q.revalidation
<1> DEFINE h == fc_read_header(q)
           n == q.open + 1
<1>1. /\ cache \in InodeOrNone /\ inode[cache].ver \in Versions /\ inode[cache].age \in Ages
      /\ n \in Nat
  BY DEF FileCacheTypeOK, InodeOrNone, Inode, Request
<1>2. h = [q EXCEPT !.fd = cache, !.open = n, !.hdr = inode[cache].ver, !.age = inode[cache].age]
  BY DEF fc_read_header, Request
<1> HIDE DEF h, n
<1>3. h \in Request BY <1>1, <1>2 DEF Request
<1>4. h.fd = cache /\ h.open = n /\ h.hdr = inode[cache].ver /\ h.pc = q.pc
  BY <1>2 DEF Request
<1>5. h.since = q.since /\ h.sendfile = q.sendfile /\ h.ver = q.ver /\ h.status = q.status
  BY <1>2 DEF Request
<1>6. h.storing = q.storing /\ h.out = q.out /\ h.revalidation = q.revalidation
  BY <1>2 DEF Request
<1> QED BY <1>3, <1>4, <1>5, <1>6 DEF h, n

(* fc_serve passes the descriptor on.                                      *)
LEMMA ServeFields ==
  ASSUME NEW q \in Request
  PROVE  LET s == fc_serve(q)
         IN  /\ s \in Request /\ s.fd = 0 /\ s.sendfile = q.fd /\ s.open = q.open /\ s.ver = q.hdr
             /\ s.storing = q.storing /\ s.out = q.out /\ ~ s.revalidation
             /\ \/ s.pc = "finish" /\ s.status = 304
                \/ s.pc = "serving" /\ s.status = 200
<1> DEFINE z == 0
           st == 200
           p == [q EXCEPT !.sendfile = q.fd, !.fd = z, !.status = st, !.ver = q.hdr]
<1>1. z \in InodeOrNone /\ st \in Statuses BY Zeros, StatusValues
<1>2. p.fd = 0 /\ p.sendfile = q.fd /\ p.open = q.open /\ p.ver = q.hdr BY DEF Request
<1>3. p.storing = q.storing /\ p.out = q.out /\ p.status = 200 BY DEF Request
<1>4. fc_serve(q) = Sending(p, "serving") BY DEF fc_serve
<1>5. "serving" \in States BY ProgramPoints
<1> HIDE DEF z, st
<1>6. p \in Request BY <1>1 DEF Request
<1> HIDE DEF p
<1> QED BY <1>2, <1>3, <1>4, <1>5, <1>6, SendingFields

(* What the invariant says of a request before its response starts.        *)
LEMMA NotStarted ==
  ASSUME FileInv, NEW r \in FcRequests, req[r].pc \in {"new", "asked", "answered"}
  PROVE  /\ req[r] \in Request /\ ~ req[r].storing /\ req[r].pc \notin Linking
         /\ req[r].sendfile = 0 /\ req[r].out = <<>> /\ Len(req[r].out) = 0
         /\ req[r].open = (IF req[r].fd # 0 THEN 1 ELSE 0)
         /\ req[r].pc = "new" => req[r].fd = 0 /\ ~ req[r].revalidation
         /\ req[r].fd # 0 => req[r].hdr = inode[req[r].fd].ver
         /\ req[r].revalidation => req[r].fd # 0
<1>1. req[r] \in Request BY DEF FileInv, FileCacheTypeOK
<1>2. /\ ~ req[r].storing /\ req[r].sendfile = 0 /\ req[r].revalidation => req[r].fd # 0
      /\ req[r].open = (IF req[r].fd # 0 THEN 1 ELSE 0)
      /\ req[r].pc = "new" => req[r].fd = 0
  BY <1>1 DEF FileInv, FdInv
<1>3. req[r].out = <<>> BY DEF FileInv, OutInv
<1>4. req[r].fd # 0 /\ ~ req[r].storing
      => Whole(req[r].fd) /\ req[r].hdr = inode[req[r].fd].ver
  BY DEF FileInv, WholeInv
<1> QED BY <1>1, <1>2, <1>3, <1>4 DEF Linking, FileInv, FdInv

LEMMA EmptyOut ==
  ASSUME NEW s \in Request, s.out = <<>>
  PROVE  /\ Len(s.out) <= Size /\ Len(s.out) # Size
         /\ s.out = SubSeq(Content(s.ver), 1, Len(s.out))
<1>1. Len(s.out) = 0 OBVIOUS
<1>2. 0 <= Size /\ 0 # Size BY FileCacheAssumption
<1>3. s.ver \in Versions BY DEF Request
<1> QED BY <1>1, <1>2, <1>3, PartEmpty

LEMMA InvServeFromCache ==
  ASSUME FileInv, NEW r \in FcRequests, fc_serve_from_cache(r)
  PROVE  FileInv'
<1> DEFINE q(x) == [req[r] EXCEPT !.since = x]
<1>1. FileCacheTypeOK /\ req[r].pc = "new" BY DEF FileInv, fc_serve_from_cache
<1>2. /\ req[r] \in Request /\ ~ req[r].storing /\ req[r].pc \notin Linking
      /\ req[r].sendfile = 0 /\ req[r].out = <<>> /\ req[r].open = 0
      /\ req[r].fd = 0 /\ ~ req[r].revalidation
  BY <1>1, NotStarted
<1>3. PICK since \in 0 .. 1 :
        LET h == fc_read_header(q(since))
        IN  CASE cache = 0 -> Set(r, [q(since) EXCEPT !.pc = "asked", !.ims = 0])
              [] cache # 0 /\ inode[cache].mtime < time ->
                   Set(r, [h EXCEPT !.pc = "asked", !.ims = h.hdr, !.revalidation = TRUE])
              [] cache # 0 /\ inode[cache].mtime >= time -> Set(r, fc_serve(h))
  BY DEF fc_serve_from_cache
<1> DEFINE h == fc_read_header(q(since))
<1>4. SameContents BY UnchangedFiles DEF fc_serve_from_cache
<1>5. since \in Dates BY DEF Dates
<1>6. /\ q(since) \in Request /\ q(since).pc = "new" /\ q(since).sendfile = 0
      /\ q(since).fd = 0 /\ q(since).open = 0 /\ q(since).ver = req[r].ver
      /\ ~ q(since).storing /\ q(since).out = <<>> /\ ~ q(since).revalidation
  BY <1>1, <1>2, <1>5 DEF Request
<1> HIDE DEF q
<1>7. CASE cache = 0
  <2> DEFINE p == "asked"
             z == 0
             s == [q(since) EXCEPT !.pc = p, !.ims = z]
  <2>1. p \in States /\ z \in Nat BY ProgramPoints
  <2>2. req' = [req EXCEPT ![r] = s] BY <1>3, <1>7 DEF Set
  <2>3. s.pc = "asked" /\ s.fd = 0 /\ s.sendfile = 0 /\ s.open = 0 /\ s.ver = req[r].ver
    BY <1>6 DEF Request
  <2>4. ~ s.storing /\ s.out = <<>> /\ ~ s.revalidation BY <1>6 DEF Request
  <2> HIDE DEF p, z
  <2>5. s \in Request BY <1>6, <2>1 DEF Request
  <2> HIDE DEF s
  <2>6. s.pc \notin Linking BY <2>3 DEF Linking
  <2>7. Reads(r, s) BY <1>1, <2>3, <2>4, <2>5, <2>6, EmptyOut DEF Reads
  <2> QED BY <1>2, <1>4, <2>2, <2>5, <2>7, RequestStep
<1>8. CASE cache # 0
  <2>1. /\ h \in Request /\ h.fd = cache /\ h.open = 1 /\ h.hdr = inode[cache].ver
        /\ h.pc = "new" /\ h.sendfile = 0 /\ h.ver = req[r].ver
        /\ ~ h.storing /\ h.out = <<>>
    BY <1>1, <1>6, <1>8, ReadFields
  <2> HIDE DEF h
  <2>2. CASE inode[cache].mtime < time
    <3> DEFINE p == "asked"
               b == TRUE
               n == h.hdr
               s == [h EXCEPT !.pc = p, !.ims = n, !.revalidation = b]
    <3>1. p \in States /\ b \in BOOLEAN /\ n \in Nat
      BY <2>1, ProgramPoints, FileCacheAssumption DEF Request, Versions
    <3>2. req' = [req EXCEPT ![r] = s]
      <4>1. ~ (inode[cache].mtime >= time)
        BY <1>1, <1>8, <2>2 DEF FileCacheTypeOK, InodeOrNone, Inode
      <4> QED BY <1>3, <1>8, <2>2, <4>1 DEF Set, h
    <3>3. s.pc = "asked" /\ s.fd = cache /\ s.sendfile = 0 /\ s.open = 1 /\ s.ver = req[r].ver
      BY <2>1 DEF Request
    <3>4. ~ s.storing /\ s.out = <<>> /\ s.hdr = inode[cache].ver BY <2>1 DEF Request
    <3> HIDE DEF p, b, n
    <3>5. s \in Request BY <2>1, <3>1 DEF Request
    <3> HIDE DEF s
    <3>6. s.pc \notin Linking BY <3>3 DEF Linking
    <3>7. Reads(r, s) BY <1>1, <1>8, <3>3, <3>4, <3>5, <3>6, EmptyOut DEF Reads
    <3> QED BY <1>2, <1>4, <3>2, <3>5, <3>7, RequestStep
  <2>3. CASE ~ (inode[cache].mtime < time)
    <3> DEFINE s == fc_serve(h)
    <3>1. inode[cache].mtime >= time
      BY <1>1, <1>8, <2>3 DEF FileCacheTypeOK, InodeOrNone, Inode
    <3>2. req' = [req EXCEPT ![r] = s] BY <1>3, <1>8, <2>3, <3>1 DEF Set, h
    <3>3. /\ s \in Request /\ s.fd = 0 /\ s.sendfile = cache /\ s.open = 1
          /\ s.ver = inode[cache].ver /\ ~ s.storing /\ s.out = <<>> /\ ~ s.revalidation
          /\ \/ s.pc = "finish" /\ s.status = 304
             \/ s.pc = "serving" /\ s.status = 200
      BY <2>1, ServeFields
    <3> HIDE DEF s
    <3>4. s.pc \notin Linking BY <3>3 DEF Linking
    <3>5. Reads(r, s) BY <1>8, <3>3, <3>4, EmptyOut DEF Reads
    <3> QED BY <1>2, <1>4, <3>2, <3>3, <3>5, RequestStep
  <2> QED BY <2>2, <2>3
<1> QED BY <1>7, <1>8

LEMMA InvBackendAnswers ==
  ASSUME FileInv, NEW r \in FcRequests, BackendAnswers(r)
  PROVE  FileInv'
<1>1. FileCacheTypeOK /\ req[r].pc = "asked" BY DEF FileInv, BackendAnswers
<1>2. /\ req[r] \in Request /\ ~ req[r].storing /\ req[r].pc \notin Linking
      /\ req[r].sendfile = 0 /\ req[r].out = <<>>
      /\ req[r].open = (IF req[r].fd # 0 THEN 1 ELSE 0)
      /\ req[r].fd # 0 => req[r].hdr = inode[req[r].fd].ver
      /\ req[r].revalidation => req[r].fd # 0
  BY <1>1, NotStarted
<1>3. SameContents BY UnchangedFiles DEF BackendAnswers
<1>4. PICK st \in {200, 304, 500} :
        /\ st = 304 => req[r].ims = origin
        /\ Set(r, [req[r] EXCEPT !.pc = "answered", !.status = st, !.ver = origin, !.max_age = ttl])
  BY DEF BackendAnswers
<1> DEFINE p == "answered"
           t == st
           s == [req[r] EXCEPT !.pc = p, !.status = t, !.ver = origin, !.max_age = ttl]
<1>5. t \in Statuses /\ origin \in Versions /\ ttl \in Ages /\ p \in States
  BY <1>1, StatusValues, ProgramPoints, FileCacheAssumption DEF FileCacheTypeOK, Versions
<1>6. req' = [req EXCEPT ![r] = s] BY <1>4 DEF Set
<1>7. s.pc = "answered" /\ s.fd = req[r].fd /\ s.sendfile = 0 /\ s.open = req[r].open
  BY <1>2 DEF Request
<1>8. s.hdr = req[r].hdr /\ ~ s.storing /\ s.out = <<>> /\ s.revalidation = req[r].revalidation
  BY <1>2 DEF Request
<1> HIDE DEF p, t
<1>9. s \in Request
  <2>1. req[r] \in Request BY <1>2
  <2> QED BY <1>5, <2>1 DEF Request
<1> HIDE DEF s
<1>10. s.pc \notin Linking BY <1>7 DEF Linking
<1>11. Reads(r, s) BY <1>1, <1>2, <1>7, <1>8, <1>9, <1>10, EmptyOut DEF Reads
<1>12. ~ req[r].storing /\ req[r].pc \notin Linking BY <1>2
<1> QED BY <1>3, <1>6, <1>9, <1>11, <1>12, RequestStep

(* The cached file is served: its time to expire may change, by name, and  *)
(* the descriptor that was opened before the backend was asked is used.    *)
LEMMA InvRevalidate ==
  ASSUME FileInv, NEW r \in FcRequests, fc_revalidate(r)
  PROVE  FileInv'
<1>1. FileCacheTypeOK /\ req[r].pc = "answered" /\ req[r].revalidation
  BY DEF FileInv, fc_revalidate
<1>2. /\ req[r] \in Request /\ ~ req[r].storing /\ req[r].pc \notin Linking
      /\ req[r].sendfile = 0 /\ req[r].out = <<>> /\ req[r].fd # 0
      /\ req[r].open = 1 /\ req[r].hdr = inode[req[r].fd].ver
  BY <1>1, NotStarted
<1> DEFINE n == req[r].since
           q == [req[r] EXCEPT !.ims = n]
           s == fc_serve(q)
           age == IF req[r].max_age > 0 THEN req[r].max_age ELSE req[r].age
<1>3. req' = [req EXCEPT ![r] = s] BY DEF fc_revalidate, Set
<1>4. n \in Nat BY <1>2 DEF Request, Dates
<1>5. /\ q.fd = req[r].fd /\ q.hdr = req[r].hdr /\ q.open = 1 /\ ~ q.storing /\ q.out = <<>>
  BY <1>2 DEF Request
<1> HIDE DEF n
<1>6. q \in Request BY <1>2, <1>4 DEF Request
<1> HIDE DEF q
<1>7. /\ s \in Request /\ s.fd = 0 /\ s.sendfile = req[r].fd /\ s.open = 1
      /\ s.ver = req[r].hdr /\ ~ s.storing /\ s.out = <<>> /\ ~ s.revalidation
      /\ \/ s.pc = "finish" /\ s.status = 304
         \/ s.pc = "serving" /\ s.status = 200
  BY <1>5, <1>6, ServeFields
<1> HIDE DEF s
<1>8. s.pc \notin Linking BY <1>7 DEF Linking
<1>9. Reads(r, s) BY <1>2, <1>7, <1>8, EmptyOut DEF Reads
<1>10. SameContents
  <2> DEFINE t == time + age
  <2>1. /\ inode' = inode \/ (cache # 0 /\ inode' = [inode EXCEPT ![cache].mtime = t])
        /\ UNCHANGED <<time, origin, ttl, crashes, cache, tmp, faults>>
    BY DEF fc_revalidate, World
  <2>2. t \in Nat BY <1>1, <1>2, FileCacheAssumption DEF FileCacheTypeOK, Request, Ages
  <2>3. inode \in [FcRequests -> Inode] /\ cache \in InodeOrNone /\ faults \in Nat
    BY <1>1 DEF FileCacheTypeOK
  <2> HIDE DEF t
  <2>4. cache # 0 => cache \in FcRequests BY <2>3 DEF InodeOrNone
  <2>5. CASE inode' = inode BY <2>1, <2>3, <2>5 DEF SameContents
  <2>6. CASE cache # 0 /\ inode' = [inode EXCEPT ![cache].mtime = t]
    <3>1. inode' \in [FcRequests -> Inode] BY <2>2, <2>3, <2>4, <2>6 DEF Inode
    <3>2. \A i \in FcRequests : inode'[i].ver = inode[i].ver /\ inode'[i].data = inode[i].data
      BY <2>2, <2>3, <2>4, <2>6 DEF Inode
    <3> QED BY <2>1, <2>3, <3>1, <3>2 DEF SameContents
  <2> QED BY <2>1, <2>5, <2>6
<1> QED BY <1>2, <1>3, <1>7, <1>9, <1>10, RequestStep

(* The response before it is known whether it is stored.                   *)
LEMMA BeforeStore ==
  ASSUME FileInv, NEW r \in FcRequests, req[r].pc = "answered"
  PROVE  LET q == [req[r] EXCEPT !.ims = req[r].since, !.fd = 0,
                                 !.open = @ - (IF req[r].fd # 0 THEN 1 ELSE 0)]
         IN  /\ q \in Request /\ q.fd = 0 /\ q.sendfile = 0 /\ q.open = 0 /\ ~ q.storing
             /\ q.out = <<>> /\ q.pc = "answered"
<1>1. /\ req[r] \in Request /\ ~ req[r].storing /\ req[r].sendfile = 0 /\ req[r].out = <<>>
      /\ req[r].open = (IF req[r].fd # 0 THEN 1 ELSE 0)
  BY NotStarted
<1> DEFINE n == req[r].since
           z == 0
           m == req[r].open - (IF req[r].fd # 0 THEN 1 ELSE 0)
           q == [req[r] EXCEPT !.ims = n, !.fd = z, !.open = m]
<1>2. n \in Nat /\ z \in InodeOrNone /\ m = 0 /\ m \in Nat BY <1>1, Zeros DEF Request, Dates
<1>3. [req[r] EXCEPT !.ims = req[r].since, !.fd = 0,
                     !.open = @ - (IF req[r].fd # 0 THEN 1 ELSE 0)] = q
  BY <1>1 DEF Request
<1> HIDE DEF m
<1>4. q.fd = 0 /\ q.sendfile = 0 /\ q.open = 0 /\ ~ q.storing BY <1>1, <1>2 DEF Request
<1>5. q.out = <<>> /\ q.pc = "answered" BY <1>1 DEF Request
<1> HIDE DEF n, z
<1>6. q \in Request BY <1>1, <1>2 DEF Request
<1> HIDE DEF q
<1> QED BY <1>3, <1>4, <1>5, <1>6

(* The response is passed on and not stored; one write may have failed.    *)
LEMMA InvNotStored ==
  ASSUME FileInv, NEW r \in FcRequests, req[r].pc = "answered", NEW q \in Request,
         q.fd = 0, q.sendfile = 0, q.open = 0, ~ q.storing, q.out = <<>>,
         Set(r, Sending(q, "sending")), SameContents
  PROVE  FileInv'
<1> DEFINE s == Sending(q, "sending")
<1>1. ~ req[r].storing /\ req[r].pc \notin Linking BY NotStarted
<1>2. req' = [req EXCEPT ![r] = s] BY DEF Set
<1>3. "sending" \in States BY ProgramPoints
<1>4. /\ s \in Request /\ s.fd = 0 /\ s.sendfile = 0 /\ s.open = 0 /\ ~ s.storing
      /\ s.out = <<>> /\ ~ s.revalidation
      /\ \/ s.pc = "finish" /\ s.status = 304
         \/ s.pc = "sending" /\ s.status = q.status
  BY <1>3, SendingFields
<1> HIDE DEF s
<1>5. s.pc \notin Linking BY <1>4 DEF Linking
<1>6. Reads(r, s) BY <1>4, <1>5, EmptyOut DEF Reads
<1> QED BY <1>1, <1>2, <1>4, <1>6, RequestStep

-----------------------------------------------------------------------------
(* A step of a request that stores: the file it writes is its own, and     *)
(* nobody else can reach it.                                               *)

Owns(r) ==
  /\ tmp \in {0, r} /\ cache # r
  /\ \A x \in FcRequests : req[x].sendfile # r /\ (req[x].fd = r => x = r)

Writes(r, s) ==
  /\ UNCHANGED <<time, origin, ttl, crashes, cache>> /\ faults' \in Nat
  /\ inode' \in [FcRequests -> Inode] /\ \A i \in FcRequests \ {r} : inode'[i] = inode[i]
  /\ tmp' = (IF s.storing \/ s.pc \in Linking THEN r ELSE 0)
  /\ s.pc \in {"sending", "finish", "unlink"}
  /\ s.storing => s.pc # "unlink"
  /\ s.fd = (IF s.storing THEN r ELSE 0) /\ s.sendfile = 0
  /\ s.open = (IF s.storing THEN 1 ELSE 0) /\ ~ s.revalidation
  /\ s.storing => inode'[r].data = s.out /\ inode'[r].ver = s.ver
  /\ s.pc = "unlink" => inode'[r].data = Content(inode'[r].ver)
  /\ Len(s.out) <= Size /\ s.out = SubSeq(Content(s.ver), 1, Len(s.out))
  /\ s.pc = "unlink" \/ (s.pc = "finish" /\ s.status = 200) => Len(s.out) = Size

LEMMA WriterStep ==
  ASSUME FileInv, NEW r \in FcRequests, NEW s \in Request,
         req' = [req EXCEPT ![r] = s], Owns(r), Writes(r, s)
  PROVE  FileInv'
<1> USE DEF FileInv, Writes
<1>1. r \in InodeOrNone /\ 0 \in InodeOrNone /\ r # 0
  BY FileCacheAssumption DEF InodeOrNone
<1>2. FileCacheTypeOK' BY <1>1 DEF FileCacheTypeOK
<1>3. req'[r] = s /\ \A x \in FcRequests \ {r} : req'[x] = req[x] BY DEF FileCacheTypeOK
<1>4. s.pc \in Linking <=> s.pc = "unlink" BY DEF Linking
<1>5. FdInv' BY <1>1, <1>3 DEF FdInv
<1>6. TmpInv'
  <2>1. \A x \in FcRequests : x # r => ~ (req[x].storing \/ req[x].pc \in Linking)
    BY <1>1, FileCacheAssumption DEF TmpInv, Owns
  <2> QED BY <1>1, <1>3, <2>1 DEF TmpInv
<1>7. HiddenInv'
  <2> SUFFICES ASSUME NEW x \in FcRequests
               PROVE  /\ \/ req'[x].pc \in {"new", "asked", "answered", "unlink", "link"}
                         \/ req'[x].storing
                         => /\ cache # x
                            /\ \A y \in FcRequests : /\ req'[y].sendfile # x
                                                     /\ req'[y].fd = x => y = x
                      /\ req'[x].pc \in {"new", "asked", "answered"}
                         => tmp' # x /\ req'[x].fd # x
    BY DEF HiddenInv
  <2>1. x # 0 BY FileCacheAssumption
  <2>2. CASE x = r BY <1>3, <2>1, <2>2 DEF Owns
  <2>3. CASE x # r
    <3>1. /\ \/ req[x].pc \in {"new", "asked", "answered", "unlink", "link"}
             \/ req[x].storing
             => /\ cache # x
                /\ \A y \in FcRequests : req[y].sendfile # x /\ (req[y].fd = x => y = x)
          /\ req[x].pc \in {"new", "asked", "answered"} => tmp # x /\ req[x].fd # x
      BY DEF HiddenInv
    <3> QED BY <1>3, <2>1, <2>3, <3>1
  <2> QED BY <2>2, <2>3
<1>8. WholeInv'
  <2> DEFINE W(i) == inode'[i].data = Content(inode'[i].ver)
  <2>1. \A i \in FcRequests \ {r} : Whole(i) => W(i) BY DEF Whole
  <2>2. cache # 0 => W(cache)
    <3>1. cache # 0 => Whole(cache) /\ cache \in FcRequests \ {r}
      BY DEF WholeInv, Owns, FileCacheTypeOK, InodeOrNone
    <3> QED BY <2>1, <3>1
  <2> SUFFICES ASSUME NEW x \in FcRequests
               PROVE  LET q == req'[x]
                      IN  /\ q.fd # 0 /\ ~ q.storing => W(q.fd) /\ q.hdr = inode'[q.fd].ver
                          /\ q.sendfile # 0 => W(q.sendfile) /\ q.ver = inode'[q.sendfile].ver
                          /\ q.storing => inode'[x].data = q.out /\ inode'[x].ver = q.ver
                          /\ q.pc \in Linking => W(x)
    BY <2>2 DEF WholeInv, Whole
  <2>3. CASE x = r
    <3>1. s.pc \in Linking => W(r) BY <1>4
    <3> QED BY <1>3, <2>3, <3>1
  <2>4. CASE x # r
    <3>1. req'[x] = req[x] BY <1>3, <2>4
    <3>2. LET q == req[x]
          IN  /\ q.fd # 0 /\ ~ q.storing => Whole(q.fd) /\ q.hdr = inode[q.fd].ver
              /\ q.sendfile # 0 => Whole(q.sendfile) /\ q.ver = inode[q.sendfile].ver
              /\ q.storing => inode[x].data = q.out /\ inode[x].ver = q.ver
              /\ q.pc \in Linking => Whole(x)
      BY DEF WholeInv
    <3>3. req[x].fd # 0 => req[x].fd \in FcRequests \ {r}
      BY <2>4 DEF Owns, FileCacheTypeOK, Request, InodeOrNone
    <3>4. req[x].sendfile # 0 => req[x].sendfile \in FcRequests \ {r}
      BY <2>4 DEF Owns, FileCacheTypeOK, Request, InodeOrNone
    <3>5. inode'[x] = inode[x] BY <2>4
    <3> HIDE DEF W
    <3> QED BY <2>1, <2>4, <3>1, <3>2, <3>3, <3>4, <3>5
  <2> QED BY <2>3, <2>4
<1>9. OutInv'
  <2> SUFFICES ASSUME NEW x \in FcRequests
               PROVE  LET q == req'[x]
                      IN  /\ Len(q.out) <= Size /\ q.out = SubSeq(Content(q.ver), 1, Len(q.out))
                          /\ q.pc \in {"new", "asked", "answered", "done"} => q.out = <<>>
                          /\ q.pc \in Linking \/ (q.pc = "finish" /\ q.status = 200)
                             => Len(q.out) = Size
    BY DEF OutInv
  <2>1. CASE x = r BY <1>3, <1>4, <2>1
  <2>2. CASE x # r
    <3>1. req'[x] = req[x] BY <1>3, <2>2
    <3> QED BY <3>1 DEF OutInv
  <2> QED BY <2>1, <2>2
<1> QED BY <1>2, <1>5, <1>6, <1>7, <1>8, <1>9

LEMMA InvStoreBegin ==
  ASSUME FileInv, NEW r \in FcRequests, req[r].pc = "answered", NEW q \in Request,
         q.fd = 0, q.sendfile = 0, q.open = 0, ~ q.storing, q.out = <<>>, CanCreate(q),
         tmp' = (IF tmp = 0 THEN r ELSE tmp),
         Set(r, Sending([q EXCEPT !.fd = tmp', !.storing = TRUE, !.open = @ + 1], "sending")),
         inode' = [inode EXCEPT ![tmp'] = [ver |-> q.ver, age |-> q.max_age, data |-> <<>>,
                                           mtime |-> 0]],
         UNCHANGED <<World, cache>>
  PROVE  FileInv'
<1> DEFINE n == q.open + 1
           b == TRUE
           p == [q EXCEPT !.fd = r, !.storing = b, !.open = n]
           s == Sending(p, "sending")
           f == [ver |-> q.ver, age |-> q.max_age, data |-> <<>>, mtime |-> 0]
<1>1. FileCacheTypeOK BY DEF FileInv
<1>2. tmp = 0 /\ tmp' = r BY DEF CanCreate
<1>3. r \in InodeOrNone /\ n \in Nat /\ n = 1 /\ b \in BOOLEAN /\ "sending" \in States
  BY ProgramPoints DEF InodeOrNone
<1>4. req' = [req EXCEPT ![r] = s] BY <1>2 DEF Set
<1> HIDE DEF n
<1>5. p.fd = r /\ p.storing /\ p.open = 1 /\ p.sendfile = 0 /\ p.out = <<>> /\ p.ver = q.ver
  BY <1>3 DEF Request
<1> HIDE DEF b
<1>6. p \in Request BY <1>3 DEF Request
<1> HIDE DEF p
<1>7. /\ s \in Request /\ s.fd = r /\ s.sendfile = 0 /\ s.open = 1 /\ s.storing
      /\ s.out = <<>> /\ s.ver = q.ver /\ ~ s.revalidation
      /\ \/ s.pc = "finish" /\ s.status = 304
         \/ s.pc = "sending"
  BY <1>3, <1>5, <1>6, SendingFields
<1> HIDE DEF s
<1>8. f \in Inode /\ f.data = <<>> /\ f.ver = q.ver
  BY Zeros DEF Inode, Request
<1>9. inode' \in [FcRequests -> Inode] /\ inode'[r] = f
      /\ \A i \in FcRequests \ {r} : inode'[i] = inode[i]
  <2>1. inode' = [inode EXCEPT ![r] = f] BY <1>2
  <2> HIDE DEF f
  <2> QED BY <1>1, <1>8, <2>1 DEF FileCacheTypeOK
<1> HIDE DEF f
<1>10. Owns(r) BY <1>2 DEF FileInv, HiddenInv, Owns
<1>11. Writes(r, s)
  <2>1. faults' \in Nat BY <1>1 DEF FileCacheTypeOK, World
  <2>2. Len(s.out) <= Size /\ s.out = SubSeq(Content(s.ver), 1, Len(s.out))
    BY <1>7, EmptyOut
  <2> QED BY <1>2, <1>7, <1>8, <1>9, <2>1, <2>2 DEF Writes, World
<1> QED BY <1>4, <1>7, <1>10, <1>11, WriterStep

LEMMA InvStore ==
  ASSUME FileInv, NEW r \in FcRequests, fc_store(r)
  PROVE  FileInv'
<1> DEFINE q == [req[r] EXCEPT !.ims = req[r].since, !.fd = 0,
                               !.open = @ - (IF req[r].fd # 0 THEN 1 ELSE 0)]
<1>1. /\ req[r] \in Request /\ q.pc = "answered"
      /\ (CanCreate(q) /\ fc_store_begin(r, q)) \/ NotStored(r, q)
  BY DEF fc_store, FileInv, FileCacheTypeOK
<1>2. req[r].pc = "answered" BY <1>1 DEF Request
<1>3. /\ q \in Request /\ q.fd = 0 /\ q.sendfile = 0 /\ q.open = 0 /\ ~ q.storing
      /\ q.out = <<>>
  BY <1>2, BeforeStore
<1> HIDE DEF q
<1>4. CASE NotStored(r, q)
  <2>1. Set(r, Sending(q, "sending")) /\ SameContents BY <1>4, UnchangedFiles DEF NotStored
  <2> QED BY <1>2, <1>3, <2>1, InvNotStored
<1>5. CASE CanCreate(q) /\ fc_store_begin(r, q)
  <2>1. CASE /\ tmp' = IF tmp = 0 THEN r ELSE tmp
             /\ Set(r, Sending([q EXCEPT !.fd = tmp', !.storing = TRUE, !.open = @ + 1],
                               "sending"))
             /\ inode' = [inode EXCEPT ![tmp'] = [ver |-> q.ver, age |-> q.max_age,
                                                  data |-> <<>>, mtime |-> 0]]
             /\ UNCHANGED <<World, cache>>
    BY <1>2, <1>3, <1>5, <2>1, InvStoreBegin
  <2>2. CASE /\ faults + crashes < MaxFaults /\ faults' = faults + 1
             /\ Set(r, Sending(q, "sending")) /\ UNCHANGED <<time, origin, ttl, crashes, Files>>
    <3>1. SameContents
      BY <2>2 DEF SameContents, Files, FileInv, FileCacheTypeOK
    <3> QED BY <1>2, <1>3, <2>2, <3>1, InvNotStored
  <2> QED BY <1>5, <2>1, <2>2 DEF fc_store_begin
<1> QED BY <1>1, <1>4, <1>5

(* The client takes the next piece.                                        *)
LEMMA OutGrows ==
  ASSUME NEW q \in Request, Len(q.out) < Size, q.out = SubSeq(Content(q.ver), 1, Len(q.out)),
         NEW o, o = Append(q.out, <<q.ver, Len(q.out) + 1>>)
  PROVE  /\ o \in Seq(Pieces) /\ Len(o) = Len(q.out) + 1 /\ Len(o) <= Size
         /\ o = SubSeq(Content(q.ver), 1, Len(o))
<1> DEFINE n == Len(q.out)
           a == SubSeq(Content(q.ver), 1, n)
<1>1. Size \in Nat /\ q.ver \in Versions /\ q.out \in Seq(Pieces) BY FileCacheAssumption DEF Request
<1>2. n \in Nat BY <1>1
<1>3. n \in 0 .. Size /\ n < Size /\ n + 1 \in 0 .. Size BY <1>1, <1>2
<1>4. a = q.out OBVIOUS
<1> HIDE DEF n, a
<1>5. o = SubSeq(Content(q.ver), 1, n + 1) BY <1>1, <1>3, <1>4, PartExtended DEF n, a
<1>6. o \in Seq(Pieces) /\ Len(o) = n + 1 BY <1>1, <1>3, <1>5, PartSeq
<1>7. Len(o) <= Size BY <1>1, <1>2, <1>3, <1>6
<1> QED BY <1>5, <1>6, <1>7 DEF n

(* What the invariant says of a request whose response is being sent.      *)
LEMMA WhileSending ==
  ASSUME FileInv, NEW r \in FcRequests, req[r].pc = "sending"
  PROVE  /\ req[r] \in Request /\ req[r].sendfile = 0 /\ ~ req[r].revalidation
         /\ req[r].pc \notin Linking
         /\ Len(req[r].out) <= Size /\ req[r].out = SubSeq(Content(req[r].ver), 1, Len(req[r].out))
         /\ req[r].fd = (IF req[r].storing THEN r ELSE 0)
         /\ req[r].open = (IF req[r].storing THEN 1 ELSE 0)
         /\ req[r].storing => /\ Owns(r) /\ tmp = r
                              /\ inode[r].data = req[r].out /\ inode[r].ver = req[r].ver
<1>1. req[r] \in Request BY DEF FileInv, FileCacheTypeOK
<1>2. Len(req[r].out) <= Size /\ req[r].out = SubSeq(Content(req[r].ver), 1, Len(req[r].out))
  BY DEF FileInv, OutInv
<1>3. /\ req[r].sendfile = 0 /\ ~ req[r].revalidation
      /\ req[r].fd = (IF req[r].storing THEN r ELSE 0)
      /\ req[r].open = (IF req[r].storing THEN 1 ELSE 0)
  <2> DEFINE q == req[r]
  <2>1. /\ q.storing => q.fd = r
        /\ q.fd # 0 => q.storing
        /\ q.sendfile = 0
        /\ ~ q.revalidation
        /\ q.open = (IF q.fd # 0 THEN 1 ELSE 0) + (IF q.sendfile # 0 THEN 1 ELSE 0)
    BY DEF FileInv, FdInv
  <2>2. r # 0 BY FileCacheAssumption
  <2> QED BY <2>1, <2>2
<1>4. req[r].storing => Owns(r) /\ tmp = r BY DEF FileInv, TmpInv, HiddenInv, Owns
<1>5. req[r].storing => inode[r].data = req[r].out /\ inode[r].ver = req[r].ver
  BY DEF FileInv, WholeInv
<1> QED BY <1>1, <1>2, <1>3, <1>4, <1>5 DEF Linking

LEMMA InvDataInWrite ==
  ASSUME FileInv, NEW r \in FcRequests, fc_data_in_write(r)
  PROVE  FileInv'
<1> DEFINE q == req[r]
           piece == <<q.ver, Len(q.out) + 1>>
           o == Append(q.out, piece)
           sent == [q EXCEPT !.out = o]
<1>1. FileCacheTypeOK /\ q.pc = "sending" /\ Len(q.out) < Size BY DEF FileInv, fc_data_in_write
<1>2. /\ q \in Request /\ q.sendfile = 0 /\ ~ q.revalidation /\ q.pc \notin Linking
      /\ q.out = SubSeq(Content(q.ver), 1, Len(q.out))
      /\ q.fd = (IF q.storing THEN r ELSE 0) /\ q.open = (IF q.storing THEN 1 ELSE 0)
      /\ q.storing => /\ Owns(r) /\ tmp = r /\ inode[r].data = q.out /\ inode[r].ver = q.ver
  BY <1>1, WhileSending
<1>3. /\ o \in Seq(Pieces) /\ Len(o) <= Size /\ o = SubSeq(Content(q.ver), 1, Len(o))
  BY <1>1, <1>2, OutGrows
<1>4. \/ /\ Set(r, sent)
         /\ inode' = IF q.storing THEN Appended(q, piece) ELSE inode
         /\ UNCHANGED <<World, cache, tmp>>
      \/ /\ q.storing /\ faults + crashes < MaxFaults /\ faults' = faults + 1
         /\ Set(r, [sent EXCEPT !.fd = 0, !.storing = FALSE, !.open = @ - 1])
         /\ tmp' = 0 /\ UNCHANGED <<time, origin, ttl, crashes, cache, inode>>
  BY <1>2 DEF fc_data_in_write, Request
<1> HIDE DEF o
<1>5. /\ sent \in Request /\ sent.out = o /\ sent.ver = q.ver /\ sent.pc = "sending"
      /\ sent.sendfile = 0 /\ sent.fd = q.fd /\ sent.open = q.open /\ sent.storing = q.storing
      /\ ~ sent.revalidation
  BY <1>1, <1>2, <1>3 DEF Request
<1> HIDE DEF sent
<1>6. CASE ~ q.storing
  <2>1. req' = [req EXCEPT ![r] = sent] BY <1>4, <1>6 DEF Set
  <2>2. SameContents BY <1>1, <1>4, <1>6 DEF SameContents, FileCacheTypeOK, World
  <2>3. sent.pc \notin Linking BY <1>5 DEF Linking
  <2>4. Reads(r, sent) BY <1>2, <1>3, <1>5, <1>6, <2>3 DEF Reads
  <2> QED BY <1>2, <1>5, <1>6, <2>1, <2>2, <2>4, RequestStep
<1>7. CASE q.storing /\ Set(r, sent) /\ inode' = Appended(q, piece) /\ UNCHANGED <<World, cache, tmp>>
  <2>1. req' = [req EXCEPT ![r] = sent] BY <1>7 DEF Set
  <2>2. q.fd = r /\ inode[r] \in Inode /\ inode[r].data = q.out /\ inode[r].ver = q.ver
    BY <1>1, <1>2, <1>7 DEF FileCacheTypeOK
  <2>3. inode' = [inode EXCEPT ![r].data = o]
    <3>1. inode' = [inode EXCEPT ![r].data = Append(inode[r].data, piece)]
      BY <1>7, <2>2, Zenon DEF Appended
    <3> QED BY <2>2, <3>1 DEF o
  <2>4. /\ inode' \in [FcRequests -> Inode] /\ \A i \in FcRequests \ {r} : inode'[i] = inode[i]
        /\ inode'[r].data = o /\ inode'[r].ver = q.ver
    BY <1>1, <1>3, <2>2, <2>3 DEF FileCacheTypeOK, Inode
  <2>5. Writes(r, sent)
    BY <1>1, <1>2, <1>3, <1>5, <1>7, <2>2, <2>4 DEF Writes, World, FileCacheTypeOK
  <2> QED BY <1>2, <1>5, <1>7, <2>1, <2>5, WriterStep
<1>8. CASE /\ q.storing /\ faults' = faults + 1
           /\ Set(r, [sent EXCEPT !.fd = 0, !.storing = FALSE, !.open = @ - 1])
           /\ tmp' = 0 /\ UNCHANGED <<time, origin, ttl, crashes, cache, inode>>
  <2> DEFINE z == 0
             b == FALSE
             n == sent.open - 1
             s == [sent EXCEPT !.fd = z, !.storing = b, !.open = n]
  <2>1. z \in InodeOrNone /\ b \in BOOLEAN /\ n = 0 /\ n \in Nat
    BY <1>2, <1>5, <1>8, Zeros
  <2>2. req' = [req EXCEPT ![r] = s] BY <1>5, <1>8 DEF Set, Request
  <2>3. s.fd = 0 /\ ~ s.storing /\ s.pc = "sending" /\ s.sendfile = 0 /\ ~ s.revalidation
    BY <1>5 DEF Request
  <2>4. s.out = o /\ s.ver = q.ver /\ s.open = n BY <1>5 DEF Request
  <2> HIDE DEF z, b, n
  <2>5. s \in Request BY <1>5, <2>1 DEF Request
  <2> HIDE DEF s
  <2>6. s.pc \notin Linking BY <2>3 DEF Linking
  <2>7. inode' \in [FcRequests -> Inode] /\ faults' \in Nat BY <1>1, <1>8 DEF FileCacheTypeOK
  <2>8. Writes(r, s) BY <1>3, <1>8, <2>1, <2>3, <2>4, <2>6, <2>7 DEF Writes
  <2> QED BY <1>2, <1>8, <2>2, <2>5, <2>8, WriterStep
<1> QED BY <1>4, <1>6, <1>7, <1>8

LEMMA InvStoreClose ==
  ASSUME FileInv, NEW r \in FcRequests, fc_store_close(r)
  PROVE  FileInv'
<1> DEFINE q == req[r]
<1>1. FileCacheTypeOK /\ q.pc = "sending" /\ Len(q.out) = Size BY DEF FileInv, fc_store_close
<1>2. /\ q \in Request /\ q.sendfile = 0 /\ ~ q.revalidation /\ q.pc \notin Linking
      /\ q.out = SubSeq(Content(q.ver), 1, Len(q.out)) /\ Len(q.out) <= Size
      /\ q.fd = (IF q.storing THEN r ELSE 0) /\ q.open = (IF q.storing THEN 1 ELSE 0)
      /\ q.storing => /\ Owns(r) /\ tmp = r /\ inode[r].data = q.out /\ inode[r].ver = q.ver
  BY <1>1, WhileSending
<1>3. CASE ~ q.storing
  <2> DEFINE p == "finish"
             s == [q EXCEPT !.pc = p]
  <2>1. p \in States BY ProgramPoints
  <2>2. req' = [req EXCEPT ![r] = s] BY <1>3 DEF Set, fc_store_close
  <2>3. SameContents
    BY <1>1, <1>3 DEF SameContents, FileCacheTypeOK, World, fc_store_close
  <2>4. s \in Request BY <1>2, <2>1 DEF Request
  <2>5. /\ s.pc = "finish" /\ s.fd = 0 /\ s.sendfile = 0 /\ s.open = 0 /\ ~ s.storing
        /\ s.out = q.out /\ s.ver = q.ver /\ ~ s.revalidation
    BY <1>2, <1>3 DEF Request
  <2> HIDE DEF s
  <2>6. s.pc \notin Linking BY <2>5 DEF Linking
  <2>7. Reads(r, s) BY <1>1, <1>2, <2>5, <2>6 DEF Reads
  <2> QED BY <1>2, <1>3, <2>2, <2>3, <2>4, <2>7, RequestStep
<1>4. CASE q.storing
  <2> DEFINE z == 0
             b == FALSE
             p == "unlink"
             n == q.open - 1
             s == [q EXCEPT !.pc = p, !.fd = z, !.storing = b, !.open = n]
             t == Expires(q)
  <2>1. z \in InodeOrNone /\ b \in BOOLEAN /\ n = 0 /\ n \in Nat /\ p \in States
    BY <1>2, <1>4, Zeros, ProgramPoints
  <2>2. t \in Nat
    <3>1. time \in Nat /\ time > 0 /\ q.max_age \in Nat
      BY <1>1, <1>2, FileCacheAssumption DEF FileCacheTypeOK, Request, Ages
    <3> QED BY <3>1 DEF Expires
  <2>3. /\ req' = [req EXCEPT ![r] = s] /\ inode' = [inode EXCEPT ![r].mtime = t]
        /\ UNCHANGED <<World, cache, tmp>>
    BY <1>2, <1>4 DEF Set, fc_store_close, Request
  <2>4. s.fd = 0 /\ ~ s.storing /\ s.pc = "unlink" /\ s.sendfile = 0 /\ ~ s.revalidation
    BY <1>2 DEF Request
  <2>5. s.out = q.out /\ s.ver = q.ver /\ s.open = n BY <1>2 DEF Request
  <2> HIDE DEF z, b, n, p, t
  <2>6. s \in Request
    <3>1. q \in Request BY <1>2
    <3> QED BY <2>1, <3>1 DEF Request
  <2> HIDE DEF s
  <2>7. /\ inode' \in [FcRequests -> Inode] /\ \A i \in FcRequests \ {r} : inode'[i] = inode[i]
        /\ inode'[r].data = inode[r].data /\ inode'[r].ver = inode[r].ver
    BY <1>1, <2>2, <2>3 DEF FileCacheTypeOK, Inode
  <2>8. inode'[r].data = Content(inode'[r].ver)
    <3>1. q.ver \in Versions BY <1>2 DEF Request
    <3>2. q.out = Content(q.ver) BY <1>1, <1>2, <3>1, PartWhole
    <3> QED BY <1>2, <1>4, <2>7, <3>2
  <2>9. s.pc \in Linking BY <2>4 DEF Linking
  <2>10. faults' \in Nat BY <1>1, <2>3 DEF World, FileCacheTypeOK
  <2>11. Writes(r, s)
    BY <1>1, <1>2, <1>4, <2>1, <2>3, <2>4, <2>5, <2>7, <2>8, <2>9, <2>10 DEF Writes, World
  <2> QED BY <1>2, <1>4, <2>3, <2>6, <2>11, WriterStep
<1> QED BY <1>3, <1>4

-----------------------------------------------------------------------------
(* The names change: unlink, link, unlink.                                 *)

LEMMA LinkStep ==
  ASSUME FileInv, NEW r \in FcRequests, req[r].pc \in Linking, NEW p \in {"link", "untmp", "finish"},
         Set(r, [req[r] EXCEPT !.pc = p]), UNCHANGED <<World, inode>>,
         tmp' = (IF p = "finish" THEN 0 ELSE tmp),
         cache' \in {0, cache, r}, p = "link" => req[r].pc = "unlink" /\ cache' = 0
  PROVE  FileInv'
<1> DEFINE q == req[r]
           s == [q EXCEPT !.pc = p]
<1> USE DEF FileInv, World
<1>1. r \in InodeOrNone /\ 0 \in InodeOrNone /\ r # 0 /\ p \in States
  BY FileCacheAssumption, ProgramPoints DEF InodeOrNone
<1>2. q \in Request /\ cache \in InodeOrNone /\ tmp \in InodeOrNone BY DEF FileCacheTypeOK
<1>3. s \in Request BY <1>1, <1>2 DEF Request
<1>4. /\ s.pc = p /\ s.fd = q.fd /\ s.sendfile = q.sendfile /\ s.open = q.open
      /\ s.storing = q.storing /\ s.revalidation = q.revalidation /\ s.out = q.out
      /\ s.ver = q.ver /\ s.status = q.status
  BY <1>2 DEF Request
<1>5. req' = [req EXCEPT ![r] = s] BY DEF Set
<1> HIDE DEF s
<1>6. FileCacheTypeOK' BY <1>1, <1>3, <1>5 DEF FileCacheTypeOK
<1>7. req'[r] = s /\ \A x \in FcRequests \ {r} : req'[x] = req[x] BY <1>5 DEF FileCacheTypeOK
<1>8. q.fd = 0 /\ q.sendfile = 0 /\ ~ q.storing /\ q.open = 0 /\ ~ q.revalidation
  BY <1>2 DEF FdInv, Linking
<1>9. FdInv' BY <1>4, <1>7, <1>8 DEF FdInv
<1>10. TmpInv'
  <2>1. tmp = r BY DEF TmpInv
  <2>2. p \in Linking <=> p # "finish" BY DEF Linking
  <2>3. \A x \in FcRequests \ {r} : ~ (req[x].storing \/ req[x].pc \in Linking)
    BY <2>1 DEF TmpInv
  <2> QED BY <1>1, <1>4, <1>7, <1>8, <2>1, <2>2, <2>3 DEF TmpInv
<1>11. HiddenInv'
  <2> SUFFICES ASSUME NEW x \in FcRequests
               PROVE  /\ \/ req'[x].pc \in {"new", "asked", "answered", "unlink", "link"}
                         \/ req'[x].storing
                         => /\ cache' # x
                            /\ \A y \in FcRequests : /\ req'[y].sendfile # x
                                                     /\ req'[y].fd = x => y = x
                      /\ req'[x].pc \in {"new", "asked", "answered"}
                         => tmp' # x /\ req'[x].fd # x
    BY DEF HiddenInv
  <2>1. x # 0 BY FileCacheAssumption
  <2>2. CASE x = r
    <3>1. q.pc \in {"unlink", "link"}
          => \A y \in FcRequests : req[y].sendfile # r /\ (req[y].fd = r => y = r)
      BY DEF HiddenInv
    <3> QED BY <1>1, <1>4, <1>7, <1>8, <2>1, <2>2, <3>1
  <2>3. CASE x # r
    <3>1. /\ \/ req[x].pc \in {"new", "asked", "answered", "unlink", "link"}
             \/ req[x].storing
             => /\ cache # x
                /\ \A y \in FcRequests : req[y].sendfile # x /\ (req[y].fd = x => y = x)
          /\ req[x].pc \in {"new", "asked", "answered"} => tmp # x /\ req[x].fd # x
      BY DEF HiddenInv
    <3> QED BY <1>4, <1>7, <1>8, <2>1, <2>3, <3>1
  <2> QED BY <2>2, <2>3
<1>12. WholeInv'
  <2>1. \A i : Whole(i)' <=> Whole(i) BY DEF Whole
  <2>2. Whole(r) BY DEF WholeInv
  <2>3. cache' # 0 => Whole(cache)' BY <2>2 DEF WholeInv, Whole
  <2> QED BY <1>4, <1>7, <1>8, <2>2, <2>3 DEF WholeInv, Whole
<1>13. OutInv' BY <1>4, <1>7 DEF OutInv, Linking
<1> QED BY <1>6, <1>9, <1>10, <1>11, <1>12, <1>13

LEMMA InvNames ==
  ASSUME FileInv, NEW r \in FcRequests, CloseUnlink(r) \/ CloseLink(r) \/ CloseUnlinkTmp(r)
  PROVE  FileInv'
<1>1. CASE CloseUnlink(r)
  <2>1. req[r].pc = "unlink" /\ req[r].pc \in Linking BY <1>1 DEF CloseUnlink, Linking
  <2> QED BY <1>1, <2>1, LinkStep DEF CloseUnlink
<1>2. CASE CloseLink(r)
  <2>1. req[r].pc \in Linking BY <1>2 DEF CloseLink, Linking
  <2>2. tmp = r BY <2>1 DEF FileInv, TmpInv
  <2>3. cache' \in {0, cache, r} BY <1>2, <2>2 DEF CloseLink
  <2> QED BY <1>2, <2>1, <2>3, LinkStep DEF CloseLink
<1>3. CASE CloseUnlinkTmp(r)
  <2>1. req[r].pc \in Linking BY <1>3 DEF CloseUnlinkTmp, Linking
  <2> QED BY <1>3, <2>1, LinkStep DEF CloseUnlinkTmp
<1> QED BY <1>1, <1>2, <1>3

(* The pieces come from the file the descriptor was opened on, whatever    *)
(* its name leads to by now.                                               *)
LEMMA InvSendCached ==
  ASSUME FileInv, NEW r \in FcRequests, SendCached(r)
  PROVE  FileInv'
<1> DEFINE q == req[r]
           i == q.sendfile
<1>1. FileCacheTypeOK /\ q.pc = "serving" /\ SameContents
  BY UnchangedFiles DEF FileInv, SendCached
<1>2. q \in Request /\ i \in InodeOrNone BY <1>1 DEF FileCacheTypeOK, Request
<1>3. /\ i # 0 /\ ~ q.storing /\ q.fd = 0 /\ ~ q.revalidation /\ q.open = 1
  BY <1>1, <1>2 DEF FileInv, FdInv
<1>4. Whole(i) /\ q.ver = inode[i].ver BY <1>3 DEF FileInv, WholeInv
<1>5. Len(q.out) <= Size /\ q.out = SubSeq(Content(q.ver), 1, Len(q.out)) /\ q.pc \notin Linking
  BY <1>1 DEF FileInv, OutInv, Linking
<1>6. q.ver \in Versions /\ q.out \in Seq(Pieces) /\ Len(q.out) \in Nat /\ Size \in Nat
  BY <1>2, FileCacheAssumption DEF Request
<1>7. inode[i].data = Content(q.ver) /\ Len(inode[i].data) = Size
  BY <1>4, <1>6, ContentSeq DEF Whole
<1>8. CASE Len(q.out) < Size
  <2> DEFINE o == Append(q.out, <<q.ver, Len(q.out) + 1>>)
             s == [q EXCEPT !.out = o]
  <2>1. inode[i].data[Len(q.out) + 1] = <<q.ver, Len(q.out) + 1>>
    <3>1. Len(q.out) + 1 \in 1 .. Size BY <1>6, <1>8
    <3> QED BY <1>7, <3>1 DEF Content
  <2>2. req' = [req EXCEPT ![r] = s]
    <3>1. Set(r, [q EXCEPT !.out = Append(@, inode[q.sendfile].data[Len(q.out) + 1])])
      BY <1>7, <1>8 DEF SendCached
    <3> QED BY <1>2, <2>1, <3>1 DEF Set, Request
  <2>3. /\ o \in Seq(Pieces) /\ Len(o) <= Size /\ o = SubSeq(Content(q.ver), 1, Len(o))
    BY <1>2, <1>5, <1>8, OutGrows
  <2> HIDE DEF o
  <2>4. s \in Request BY <1>2, <2>3 DEF Request
  <2>5. /\ s.pc = "serving" /\ s.fd = 0 /\ s.sendfile = i /\ s.open = 1 /\ ~ s.storing
        /\ s.out = o /\ s.ver = q.ver /\ ~ s.revalidation
    BY <1>1, <1>2, <1>3 DEF Request
  <2> HIDE DEF s
  <2>6. s.pc \notin Linking BY <2>5 DEF Linking
  <2>7. Reads(r, s) BY <1>3, <1>4, <2>3, <2>5, <2>6 DEF Reads
  <2> QED BY <1>1, <1>3, <1>5, <2>2, <2>4, <2>7, RequestStep
<1>9. CASE Len(q.out) = Size
  <2> DEFINE p == "finish"
             s == [q EXCEPT !.pc = p]
  <2>1. p \in States BY ProgramPoints
  <2>2. req' = [req EXCEPT ![r] = s] BY <1>6, <1>7, <1>9 DEF Set, SendCached
  <2>3. s \in Request BY <1>2, <2>1 DEF Request
  <2>4. /\ s.pc = "finish" /\ s.fd = 0 /\ s.sendfile = i /\ s.open = 1 /\ ~ s.storing
        /\ s.out = q.out /\ s.ver = q.ver /\ ~ s.revalidation
    BY <1>2, <1>3 DEF Request
  <2> HIDE DEF s
  <2>5. s.pc \notin Linking BY <2>4 DEF Linking
  <2>6. Reads(r, s) BY <1>3, <1>4, <1>5, <1>9, <2>4, <2>5 DEF Reads
  <2> QED BY <1>1, <1>3, <1>5, <2>2, <2>3, <2>6, RequestStep
<1> QED BY <1>5, <1>6, <1>8, <1>9

-----------------------------------------------------------------------------
(* Requests end: by their finalizers, one at a time, or by a crash, all    *)
(* that had begun.  Files that nothing leads to any more are gone.         *)

LEMMA EndStep ==
  ASSUME FileInv, req' \in [FcRequests -> Request],
         \A x \in FcRequests : req'[x] = req[x] \/ IsDone(req'[x]),
         inode' = Reclaimed(req', tmp'), cache' = cache,
         UNCHANGED <<time, origin, ttl, faults>>, crashes' \in Nat, crashes' >= crashes,
         \/ tmp' = tmp
         \/ tmp' = 0 /\ \E x \in FcRequests : tmp = x /\ IsDone(req'[x]),
         \A x \in FcRequests : tmp = x /\ tmp' = x /\ IsDone(req'[x]) => crashes' > 0
  PROVE  FileInv'
<1> USE DEF FileInv
<1>1. cache \in InodeOrNone /\ tmp \in InodeOrNone /\ tmp' \in InodeOrNone
  BY Zeros DEF FileCacheTypeOK
<1>2. \A x \in FcRequests : x # 0 BY FileCacheAssumption
<1>3. \A x \in FcRequests : req[x] \in Request /\ inode[x] \in Inode BY DEF FileCacheTypeOK
<1>4. \A i \in FcRequests :
         \/ i = cache \/ i = tmp' \/ (\E x \in FcRequests : req'[x].fd = i \/ req'[x].sendfile = i)
         => inode'[i] = inode[i]
  BY DEF Reclaimed
<1>5. FileCacheTypeOK'
  <2>1. NoFile \in Inode BY Zeros DEF NoFile, Inode
  <2>2. inode' \in [FcRequests -> Inode] BY <1>3, <2>1 DEF Reclaimed
  <2> QED BY <1>1, <2>2 DEF FileCacheTypeOK
<1>6. FdInv'
  <2> SUFFICES ASSUME NEW x \in FcRequests
               PROVE  LET q == req'[x]
                      IN  /\ q.storing => q.pc \in {"sending", "finish"} /\ q.fd = x
                          /\ q.fd # 0 => q.storing \/ q.pc \in {"asked", "answered"}
                          /\ q.sendfile # 0 => q.pc \in {"serving", "finish"}
                          /\ q.pc = "serving" => q.sendfile # 0
                          /\ q.revalidation => q.fd # 0 /\ q.pc \in {"asked", "answered"}
                          /\ q.open = (IF q.fd # 0 THEN 1 ELSE 0) + (IF q.sendfile # 0 THEN 1 ELSE 0)
    BY DEF FdInv
  <2>1. CASE req'[x] = req[x] BY <2>1 DEF FdInv
  <2>2. CASE IsDone(req'[x]) BY <2>2 DEF IsDone
  <2> QED BY <2>1, <2>2
<1>7. \A x \in FcRequests : IsDone(req'[x]) => ~ req'[x].storing /\ req'[x].pc = "done"
        /\ req'[x].fd = 0 /\ req'[x].sendfile = 0 /\ req'[x].out = <<>>
        /\ req'[x].ver = 0
  BY DEF IsDone
<1>8. TmpInv'
  <2>1. \A x \in FcRequests : req'[x].storing \/ req'[x].pc \in Linking => tmp' = x
    <3> SUFFICES ASSUME NEW x \in FcRequests, req'[x].storing \/ req'[x].pc \in Linking
                 PROVE  tmp' = x
      OBVIOUS
    <3>1. ~ IsDone(req'[x]) BY <1>7 DEF Linking
    <3>2. req'[x] = req[x] BY <3>1
    <3>3. tmp = x BY <3>2 DEF TmpInv
    <3> QED BY <1>2, <3>1, <3>3
  <2>2. tmp' # 0 => req'[tmp'].storing \/ req'[tmp'].pc \in Linking \/ crashes' > 0
    <3> SUFFICES ASSUME tmp' # 0
                 PROVE  req'[tmp'].storing \/ req'[tmp'].pc \in Linking \/ crashes' > 0
      OBVIOUS
    <3>1. tmp' = tmp /\ tmp \in FcRequests BY <1>1 DEF InodeOrNone
    <3>2. req[tmp].storing \/ req[tmp].pc \in Linking \/ crashes > 0 BY <3>1 DEF TmpInv
    <3>3. CASE IsDone(req'[tmp]) BY <3>1, <3>3
    <3>4. CASE req'[tmp] = req[tmp]
      <4>1. crashes > 0 => crashes' > 0 BY DEF FileCacheTypeOK
      <4> QED BY <3>1, <3>2, <3>4, <4>1
    <3> QED BY <3>1, <3>3, <3>4
  <2> QED BY <2>1, <2>2 DEF TmpInv
<1>9. HiddenInv'
  <2> SUFFICES ASSUME NEW x \in FcRequests
               PROVE  /\ \/ req'[x].pc \in {"new", "asked", "answered", "unlink", "link"}
                         \/ req'[x].storing
                         => /\ cache # x
                            /\ \A y \in FcRequests : /\ req'[y].sendfile # x
                                                     /\ req'[y].fd = x => y = x
                      /\ req'[x].pc \in {"new", "asked", "answered"}
                         => tmp' # x /\ req'[x].fd # x
    BY DEF HiddenInv
  <2>1. CASE IsDone(req'[x]) BY <1>7, <2>1
  <2>2. CASE req'[x] = req[x]
    <3>1. /\ \/ req[x].pc \in {"new", "asked", "answered", "unlink", "link"}
             \/ req[x].storing
             => /\ cache # x
                /\ \A y \in FcRequests : req[y].sendfile # x /\ (req[y].fd = x => y = x)
          /\ req[x].pc \in {"new", "asked", "answered"} => tmp # x /\ req[x].fd # x
      BY DEF HiddenInv
    <3>2. \A y \in FcRequests : /\ req'[y].sendfile = x => req[y].sendfile = x
                                /\ req'[y].fd = x => req[y].fd = x
      BY <1>2, <1>7
    <3>3. tmp' = x => tmp = x BY <1>2
    <3> QED BY <2>2, <3>1, <3>2, <3>3
  <2> QED BY <2>1, <2>2
<1>10. WholeInv'
  <2> DEFINE W(i) == inode'[i].data = Content(inode'[i].ver)
  <2>1. \A i \in FcRequests : inode'[i] = inode[i] /\ Whole(i) => W(i) BY DEF Whole
  <2>2. cache # 0 => W(cache) BY <1>1, <1>4, <2>1 DEF WholeInv, InodeOrNone
  <2> SUFFICES ASSUME NEW x \in FcRequests
               PROVE  LET q == req'[x]
                      IN  /\ q.fd # 0 /\ ~ q.storing => W(q.fd) /\ q.hdr = inode'[q.fd].ver
                          /\ q.sendfile # 0 => W(q.sendfile) /\ q.ver = inode'[q.sendfile].ver
                          /\ q.storing => inode'[x].data = q.out /\ inode'[x].ver = q.ver
                          /\ q.pc \in Linking => W(x)
    BY <2>2 DEF WholeInv, Whole
  <2> HIDE DEF W
  <2>3. CASE IsDone(req'[x]) BY <1>7, <2>3 DEF Linking
  <2>4. CASE req'[x] = req[x]
    <3>1. LET q == req[x]
          IN  /\ q.fd # 0 /\ ~ q.storing => Whole(q.fd) /\ q.hdr = inode[q.fd].ver
              /\ q.sendfile # 0 => Whole(q.sendfile) /\ q.ver = inode[q.sendfile].ver
              /\ q.storing => inode[x].data = q.out /\ inode[x].ver = q.ver
              /\ q.pc \in Linking => Whole(x)
      BY DEF WholeInv
    <3>2. req[x].fd # 0 => req[x].fd \in FcRequests /\ inode'[req[x].fd] = inode[req[x].fd]
      BY <1>3, <1>4, <2>4 DEF Request, InodeOrNone
    <3>3. req[x].sendfile # 0 => /\ req[x].sendfile \in FcRequests
                                 /\ inode'[req[x].sendfile] = inode[req[x].sendfile]
      BY <1>3, <1>4, <2>4 DEF Request, InodeOrNone
    <3>4. req[x].storing \/ req[x].pc \in Linking => inode'[x] = inode[x]
      BY <1>4, <1>8, <2>4 DEF TmpInv
    <3> QED BY <2>1, <2>4, <3>1, <3>2, <3>3, <3>4
  <2> QED BY <2>3, <2>4
<1>11. OutInv'
  <2> SUFFICES ASSUME NEW x \in FcRequests
               PROVE  LET q == req'[x]
                      IN  /\ Len(q.out) <= Size /\ q.out = SubSeq(Content(q.ver), 1, Len(q.out))
                          /\ q.pc \in {"new", "asked", "answered", "done"} => q.out = <<>>
                          /\ q.pc \in Linking \/ (q.pc = "finish" /\ q.status = 200)
                             => Len(q.out) = Size
    BY DEF OutInv
  <2>1. CASE IsDone(req'[x]) BY <1>7, <2>1, EmptyOut DEF Linking
  <2>2. CASE req'[x] = req[x] BY <2>2 DEF OutInv
  <2> QED BY <2>1, <2>2
<1> QED BY <1>5, <1>6, <1>8, <1>9, <1>10, <1>11

LEMMA InvFinalize ==
  ASSUME FileInv, NEW r \in FcRequests, req[r].pc \notin Linking, NEW q \in Request,
         q.fd = req[r].fd, q.sendfile = req[r].sendfile, q.open = req[r].open,
         q.storing = req[r].storing, fc_finalize(r, q)
  PROVE  FileInv'
<1>1. FileCacheTypeOK BY DEF FileInv
<1>2. q.open = (IF q.fd # 0 THEN 1 ELSE 0) + (IF q.sendfile # 0 THEN 1 ELSE 0)
  BY DEF FileInv, FdInv
<1>3. IsDone(Ended(q)) BY <1>2, EndedFields
<1>4. req' = [req EXCEPT ![r] = Ended(q)] BY DEF fc_finalize, Set
<1>5. req' \in [FcRequests -> Request] BY <1>1, <1>3, <1>4 DEF IsDone, FileCacheTypeOK
<1>6. req'[r] = Ended(q) /\ \A x \in FcRequests \ {r} : req'[x] = req[x]
  BY <1>1, <1>4 DEF FileCacheTypeOK
<1>7. /\ inode' = Reclaimed(req', tmp') /\ cache' = cache /\ crashes' = crashes
      /\ UNCHANGED <<time, origin, ttl, faults>>
      /\ tmp' = IF q.fd # 0 /\ q.storing THEN 0 ELSE tmp
  BY DEF fc_finalize, World
<1>8. crashes' \in Nat /\ crashes' >= crashes BY <1>1, <1>7 DEF FileCacheTypeOK
<1>9. req[r].storing => tmp = r /\ q.fd = r /\ r # 0
  BY FileCacheAssumption DEF FileInv, TmpInv, FdInv
<1>10. \/ tmp' = tmp
       \/ tmp' = 0 /\ \E x \in FcRequests : tmp = x /\ IsDone(req'[x])
  BY <1>3, <1>6, <1>7, <1>9
<1>11. tmp = r /\ tmp' = r => crashes' > 0
  <2>1. r # 0 BY FileCacheAssumption
  <2>2. tmp = r => req[r].storing \/ crashes > 0 BY <2>1 DEF FileInv, TmpInv
  <2> QED BY <1>7, <1>9, <2>1, <2>2
<1>12. \A x \in FcRequests : tmp = x /\ tmp' = x /\ IsDone(req'[x]) => crashes' > 0
  <2> SUFFICES ASSUME NEW x \in FcRequests, tmp = x, tmp' = x, IsDone(req'[x]), x # r
               PROVE  crashes' > 0
    BY <1>11
  <2>1. req[x].pc = "done" /\ ~ req[x].storing BY <1>6 DEF IsDone
  <2>2. x # 0 BY FileCacheAssumption
  <2> QED BY <1>7, <2>1, <2>2 DEF FileInv, TmpInv, Linking
<1>13. \A x \in FcRequests : req'[x] = req[x] \/ IsDone(req'[x]) BY <1>3, <1>6
<1> QED BY <1>5, <1>7, <1>8, <1>10, <1>12, <1>13, EndStep

LEMMA InvEnd ==
  ASSUME FileInv, NEW r \in FcRequests, Abandon(r) \/ Finish(r)
  PROVE  FileInv'
<1>1. req[r] \in Request BY DEF FileInv, FileCacheTypeOK
<1>2. CASE Finish(r)
  <2>1. req[r].pc \notin Linking BY <1>2 DEF Finish, Linking
  <2> QED BY <1>1, <1>2, <2>1, InvFinalize DEF Finish
<1>3. CASE Abandon(r)
  <2> DEFINE n == req[r].since
             q == [req[r] EXCEPT !.ims = n]
  <2>1. req[r].pc \notin Linking /\ fc_finalize(r, q) BY <1>3 DEF Abandon, Linking
  <2>2. n \in Nat BY <1>1 DEF Request, Dates
  <2> HIDE DEF n
  <2>3. /\ q \in Request /\ q.fd = req[r].fd /\ q.sendfile = req[r].sendfile
        /\ q.open = req[r].open /\ q.storing = req[r].storing
    BY <1>1, <2>2 DEF Request
  <2> HIDE DEF q
  <2> QED BY <2>1, <2>3, InvFinalize
<1> QED BY <1>2, <1>3

LEMMA InvCrash ==
  ASSUME FileInv, Crash
  PROVE  FileInv'
<1> DEFINE lost == [NewRequest EXCEPT !.pc = "done"]
<1>1. FileCacheTypeOK BY DEF FileInv
<1>2. IsDone(lost) BY LostFields
<1>3. req' = [x \in FcRequests |-> IF req[x].pc = "new" THEN req[x] ELSE lost]
  BY DEF Crash
<1> HIDE DEF lost
<1>4. req' \in [FcRequests -> Request] BY <1>1, <1>2, <1>3 DEF IsDone, FileCacheTypeOK
<1>5. \A x \in FcRequests : req'[x] = req[x] \/ IsDone(req'[x]) BY <1>2, <1>3
<1>6. /\ inode' = Reclaimed(req', tmp') /\ cache' = cache /\ tmp' = tmp
      /\ UNCHANGED <<time, origin, ttl, faults>> /\ crashes' = crashes + 1
  BY DEF Crash
<1>7. crashes' \in Nat /\ crashes' >= crashes /\ crashes' > 0 BY <1>1, <1>6 DEF FileCacheTypeOK
<1> QED BY <1>4, <1>5, <1>6, <1>7, EndStep

(* FileInv is an invariant of the specification.                           *)
THEOREM FileInvariant == FileCacheSpec => []FileInv
<1>1. FileInv /\ UNCHANGED fcVars => FileInv'
  BY DEF fcVars, FileInv, FileCacheTypeOK, FdInv, TmpInv, HiddenInv, WholeInv, Whole, OutInv
<1>2. FileInv /\ FileCacheNext => FileInv'
  <2> SUFFICES ASSUME FileInv, FileCacheNext PROVE FileInv' OBVIOUS
  <2>1. CASE TimePasses
    <3>1. FileCacheTypeOK'
      BY <2>1, FileCacheAssumption DEF TimePasses, Files, FileInv, FileCacheTypeOK
    <3> QED BY <2>1, <3>1 DEF TimePasses, Files, FileInv, FdInv, TmpInv, HiddenInv, WholeInv,
                              Whole, OutInv
  <2>2. CASE Modify
    <3>1. FileCacheTypeOK'
      BY <2>2, FileCacheAssumption DEF Modify, Files, FileInv, FileCacheTypeOK
    <3> QED BY <2>2, <3>1 DEF Modify, Files, FileInv, FdInv, TmpInv, HiddenInv, WholeInv,
                              Whole, OutInv
  <2>3. CASE Crash BY <2>3, InvCrash
  <2>4. ASSUME NEW r \in FcRequests,
               \/ fc_serve_from_cache(r) \/ Abandon(r) \/ BackendAnswers(r)
               \/ fc_revalidate(r) \/ fc_store(r) \/ fc_data_in_write(r)
               \/ fc_store_close(r) \/ CloseUnlink(r) \/ CloseLink(r) \/ CloseUnlinkTmp(r)
               \/ SendCached(r) \/ Finish(r)
        PROVE  FileInv'
    BY <2>4, InvServeFromCache, InvEnd, InvBackendAnswers, InvRevalidate, InvStore,
       InvDataInWrite, InvStoreClose, InvNames, InvSendCached
  <2> QED BY <2>1, <2>2, <2>3, <2>4 DEF FileCacheNext
<1> QED BY <1>1, <1>2, FileInvInit, PTL DEF FileCacheSpec

(* Every variable keeps its type.                                          *)
THEOREM FileCacheTypeCorrect == FileCacheSpec => []FileCacheTypeOK
<1>1. FileInv => FileCacheTypeOK BY DEF FileInv
<1> QED BY <1>1, FileInvariant, PTL

(* What the name <key>.nxc leads to is whole: however many requests store  *)
(* the key at once (fc_store_begin, fc_store_close), whatever write fails  *)
(* and whenever the server crashes.                                        *)
THEOREM CacheHoldsWholeFiles == FileCacheSpec => []CachedWhole
<1>1. FileInv => CachedWhole BY DEF FileInv, WholeInv, Whole, CachedWhole
<1> QED BY <1>1, FileInvariant, PTL

(* A client gets one version in order, and all of it, although the file it *)
(* is served from may be replaced under its name (fc_serve).               *)
THEOREM ClientsGetWholeVersions == FileCacheSpec => []ServedWhole
<1>1. FileInv => ServedWhole
  <2> SUFFICES ASSUME FileInv, NEW r \in FcRequests
               PROVE  LET q == req[r]
                      IN  /\ q.out = SubSeq(Content(q.ver), 1, Len(q.out))
                          /\ q.pc = "finish" /\ q.status = 200 => q.out = Content(q.ver)
    BY DEF ServedWhole
  <2>1. req[r].ver \in Versions BY DEF FileInv, FileCacheTypeOK, Request
  <2>2. /\ req[r].out = SubSeq(Content(req[r].ver), 1, Len(req[r].out))
        /\ req[r].pc = "finish" /\ req[r].status = 200 => Len(req[r].out) = Size
    BY DEF FileInv, OutInv
  <2>3. SubSeq(Content(req[r].ver), 1, Size) = Content(req[r].ver) BY <2>1, PartWhole
  <2> QED BY <2>2, <2>3, Zenon
<1> QED BY <1>1, FileInvariant, PTL

(* Two descriptors, counted.                                               *)
LEMMA CountDescriptors ==
  ASSUME NEW q \in Request
  PROVE  Cardinality({f \in {"fd", "sendfile"} : q[f] # 0}) =
           (IF q.fd # 0 THEN 1 ELSE 0) + (IF q.sendfile # 0 THEN 1 ELSE 0)
<1> DEFINE S == {f \in {"fd", "sendfile"} : q[f] # 0}
<1>1. CASE q.fd = 0 /\ q.sendfile = 0
  <2>1. S = {} BY <1>1
  <2> QED BY <1>1, <2>1, FS_EmptySet
<1>2. CASE q.fd # 0 /\ q.sendfile = 0
  <2>1. S = {"fd"} BY <1>2
  <2>2. Cardinality({"fd"}) = 1 BY FS_Singleton
  <2> QED BY <1>2, <2>1, <2>2
<1>3. CASE q.fd = 0 /\ q.sendfile # 0
  <2>1. S = {"sendfile"} BY <1>3
  <2>2. Cardinality({"sendfile"}) = 1 BY FS_Singleton
  <2> QED BY <1>3, <2>1, <2>2
<1>4. CASE q.fd # 0 /\ q.sendfile # 0
  <2>1. S = {"fd"} \cup {"sendfile"} BY <1>4
  <2>2. IsFiniteSet({"fd"}) /\ Cardinality({"fd"}) = 1 BY FS_Singleton
  <2>3. Cardinality({"fd"} \cup {"sendfile"}) = 2
    <3>1. "sendfile" \notin {"fd"} OBVIOUS
    <3>2. Cardinality({"fd"} \cup {"sendfile"}) = 1 + 1 BY <2>2, <3>1, FS_AddElement
    <3> QED BY <3>2
  <2> QED BY <1>4, <2>1, <2>3
<1> QED BY <1>1, <1>2, <1>3, <1>4

(* Requests leave neither a temporary file nor a descriptor behind         *)
(* (_nxweb_fc_finalize, fc_store_abort, fc_store_close).                   *)
THEOREM RequestsLeaveNothing == FileCacheSpec => []NothingLeft
<1>1. FileInv => TmpHasWriter
  <2> SUFFICES ASSUME FileInv, tmp # 0
               PROVE  \/ \E r \in FcRequests : \/ req[r].storing /\ req[r].fd = tmp
                                               \/ req[r].pc \in {"unlink", "link", "untmp"}
                      \/ crashes > 0
    BY DEF TmpHasWriter
  <2>1. tmp \in FcRequests BY DEF FileInv, FileCacheTypeOK, InodeOrNone
  <2>2. req[tmp].storing \/ req[tmp].pc \in Linking \/ crashes > 0 BY DEF FileInv, TmpInv
  <2>3. req[tmp].storing => req[tmp].fd = tmp BY <2>1 DEF FileInv, FdInv
  <2> QED BY <2>1, <2>2, <2>3 DEF Linking
<1>2. FileInv => DescriptorsClosed
  <2> SUFFICES ASSUME FileInv, NEW r \in FcRequests
               PROVE  req[r].open = Cardinality({f \in {"fd", "sendfile"} : req[r][f] # 0})
    BY DEF DescriptorsClosed
  <2>1. req[r] \in Request BY DEF FileInv, FileCacheTypeOK
  <2>2. req[r].open = (IF req[r].fd # 0 THEN 1 ELSE 0) + (IF req[r].sendfile # 0 THEN 1 ELSE 0)
    BY DEF FileInv, FdInv
  <2> QED BY <2>1, <2>2, CountDescriptors
<1>3. FileInv => NothingLeft BY <1>1, <1>2 DEF NothingLeft
<1> QED BY <1>3, FileInvariant, PTL
=============================================================================
