--------------------------- MODULE EventOpsProofs ---------------------------
(***************************************************************************)
(* What the operators of EventOps keep, for any streams X and messages M,  *)
(* and whatever else the record holds.                                     *)
(***************************************************************************)
EXTENDS EventOps, SequenceTheorems, FiniteSetTheorems, FunctionTheorems, TLAPS

(* The fields that the operators on streams change.                        *)
LoopFields == {"events", "is", "os", "pair", "tripped"}

(* t differs from s in these at most.                                      *)
Frame(s, t) ==
  /\ DOMAIN t = DOMAIN s
  /\ \A f \in DOMAIN s \ LoopFields : t[f] = s[f]

(* The loop's list and the streams: no event of a stream is in the list    *)
(* twice, or while the stream is not connected.                            *)
Once(q, X) == \A i, j \in 1 .. Len(q) : q[i] = q[j] /\ q[i] \in X => i = j
Within(q, X, P) == \A i \in 1 .. Len(q) : q[i] \in X => q[i] \in P

LoopOK(s, X, M) ==
  /\ LoopFields \subseteq DOMAIN s
  /\ s.events \in Seq(X \cup M) /\ s.pair \in SUBSET X
  /\ s.is \in [X -> BOOLEAN] /\ s.os \in [X -> BOOLEAN]
  /\ Once(s.events, X) /\ Within(s.events, X, s.pair)
  /\ s.tripped = FALSE

LEMMA FrameTransitive ==
  ASSUME NEW s, NEW t, NEW u, Frame(s, t), Frame(t, u) PROVE Frame(s, u)
BY DEF Frame

(* Lists.                                                                  *)
LEMMA ListAppend ==
  ASSUME NEW E, NEW X, NEW P, NEW q \in Seq(E), NEW e \in E, Once(q, X), Within(q, X, P), e \in P,
         ~ \E i \in 1 .. Len(q) : q[i] = e
  PROVE  Append(q, e) \in Seq(E) /\ Once(Append(q, e), X) /\ Within(Append(q, e), X, P)
<1> DEFINE r == Append(q, e)
<1>1. /\ r \in Seq(E) /\ Len(r) = Len(q) + 1 /\ Len(q) \in Nat /\ r[Len(q) + 1] = e
      /\ \A i \in 1 .. Len(q) : r[i] = q[i]
  BY AppendProperties, LenProperties
<1> HIDE DEF r
<1>2. \A i \in 1 .. Len(q) + 1 : i \in 1 .. Len(q) \/ i = Len(q) + 1 BY <1>1
<1>3. Once(r, X)
  <2> SUFFICES ASSUME NEW i \in 1 .. Len(q) + 1, NEW j \in 1 .. Len(q) + 1, r[i] = r[j], r[i] \in X PROVE i = j
    BY <1>1 DEF Once
  <2> QED BY <1>1, <1>2 DEF Once
<1>4. Within(r, X, P)
  <2> SUFFICES ASSUME NEW i \in 1 .. Len(q) + 1, r[i] \in X PROVE r[i] \in P BY <1>1 DEF Within
  <2> QED BY <1>1, <1>2 DEF Within
<1> QED BY <1>1, <1>3, <1>4 DEF r

(* A message is not the event of a stream.                                 *)
LEMMA MessageAppend ==
  ASSUME NEW E, NEW X, NEW P, NEW q \in Seq(E), NEW m \in E, m \notin X, Once(q, X), Within(q, X, P)
  PROVE  Append(q, m) \in Seq(E) /\ Once(Append(q, m), X) /\ Within(Append(q, m), X, P)
<1> DEFINE r == Append(q, m)
<1>1. /\ r \in Seq(E) /\ Len(r) = Len(q) + 1 /\ Len(q) \in Nat /\ r[Len(q) + 1] = m
      /\ \A i \in 1 .. Len(q) : r[i] = q[i]
  BY AppendProperties, LenProperties
<1> HIDE DEF r
<1>2. \A i \in 1 .. Len(r) : r[i] \in X => i \in 1 .. Len(q) /\ r[i] = q[i] BY <1>1
<1>3. Once(r, X) BY <1>2 DEF Once
<1>4. Within(r, X, P) BY <1>2 DEF Within
<1> QED BY <1>1, <1>3, <1>4 DEF r

Cut(q, i) == SubSeq(q, 1, i - 1) \o SubSeq(q, i + 1, Len(q))

LEMMA ListCut ==
  ASSUME NEW E, NEW X, NEW P, NEW q \in Seq(E), NEW k \in 1 .. Len(q), q[k] \in X,
         Once(q, X), Within(q, X, P)
  PROVE  Cut(q, k) \in Seq(E) /\ Once(Cut(q, k), X) /\ Within(Cut(q, k), X, P \ {q[k]})
<1> DEFINE a == SubSeq(q, 1, k - 1)
           b == SubSeq(q, k + 1, Len(q))
           r == a \o b
           n == Len(q)
           old(i) == IF i < k THEN i ELSE i + 1
<1>1. n \in Nat /\ \A i \in 1 .. n : q[i] \in E BY LenProperties, ElementOfSeq
<1>2. a \in Seq(E) /\ Len(a) = k - 1 /\ \A i \in 1 .. k - 1 : a[i] = q[i]
  <2>1. 1 \in Int /\ k - 1 \in Int /\ \A i \in 1 .. k - 1 : q[i] \in E BY <1>1
  <2>2. /\ a \in Seq(E) /\ Len(a) = IF 1 <= k - 1 THEN k - 1 - 1 + 1 ELSE 0
        /\ \A i \in 1 .. k - 1 - 1 + 1 : a[i] = q[1 + i - 1]
    BY <2>1, SubSeqProperties
  <2> HIDE DEF a
  <2> QED BY <1>1, <2>2
<1>3. b \in Seq(E) /\ Len(b) = n - k /\ \A i \in 1 .. n - k : b[i] = q[k + i]
  <2>1. k + 1 \in Int /\ n \in Int /\ \A i \in k + 1 .. n : q[i] \in E BY <1>1
  <2>2. /\ b \in Seq(E) /\ Len(b) = IF k + 1 <= n THEN n - (k + 1) + 1 ELSE 0
        /\ \A i \in 1 .. n - (k + 1) + 1 : b[i] = q[k + 1 + i - 1]
    BY <2>1, SubSeqProperties
  <2> HIDE DEF b
  <2> QED BY <1>1, <2>2
<1> HIDE DEF a, b
<1>4. /\ r \in Seq(E) /\ Len(r) = n - 1
      /\ \A i \in 1 .. n - 1 : r[i] = IF i <= k - 1 THEN a[i] ELSE b[i - (k - 1)]
  <2>1. /\ r \in Seq(E) /\ Len(r) = Len(a) + Len(b)
        /\ \A i \in 1 .. Len(a) + Len(b) : r[i] = IF i <= Len(a) THEN a[i] ELSE b[i - Len(a)]
    BY <1>2, <1>3, ConcatProperties
  <2> HIDE DEF r
  <2> QED BY <1>1, <1>2, <1>3, <2>1
<1> HIDE DEF r
<1>5. \A i \in 1 .. n - 1 : old(i) \in 1 .. n /\ old(i) # k /\ r[i] = q[old(i)]
  <2> TAKE i \in 1 .. n - 1
  <2>1. CASE i < k
    <3>1. i \in 1 .. k - 1 /\ i <= k - 1 BY <1>1, <2>1
    <3> QED BY <1>1, <1>2, <1>4, <2>1, <3>1
  <2>2. CASE ~ (i < k)
    <3>1. i - (k - 1) \in 1 .. n - k /\ ~ (i <= k - 1) /\ k + (i - (k - 1)) = i + 1 BY <1>1, <2>2
    <3> QED BY <1>1, <1>3, <1>4, <2>2, <3>1
  <2> QED BY <2>1, <2>2
<1>6. Once(r, X)
  <2> SUFFICES ASSUME NEW i \in 1 .. n - 1, NEW j \in 1 .. n - 1, r[i] = r[j], r[i] \in X PROVE i = j
    BY <1>4 DEF Once
  <2>1. old(i) \in 1 .. n /\ old(j) \in 1 .. n /\ q[old(i)] = q[old(j)] /\ q[old(i)] \in X BY <1>5
  <2>2. old(i) = old(j)
    <3> HIDE DEF old
    <3> QED BY <2>1 DEF Once
  <2> QED BY <1>1, <2>2
<1>7. Within(r, X, P \ {q[k]})
  <2> SUFFICES ASSUME NEW i \in 1 .. n - 1, r[i] \in X PROVE r[i] \in P \ {q[k]} BY <1>4 DEF Within
  <2>1. old(i) \in 1 .. n /\ old(i) # k /\ r[i] = q[old(i)] BY <1>5
  <2> HIDE DEF old
  <2>2. q[old(i)] # q[k] BY <2>1 DEF Once
  <2> QED BY <2>1, <2>2 DEF Within
<1> QED BY <1>4, <1>6, <1>7 DEF Cut, r, a, b

(* The oldest event is taken.                                              *)
LEMMA ListTail ==
  ASSUME NEW E, NEW X, NEW P, NEW q \in Seq(E), q # <<>>, Once(q, X), Within(q, X, P)
  PROVE  Head(q) \in E /\ Tail(q) \in Seq(E) /\ Once(Tail(q), X) /\ Within(Tail(q), X, P)
<1> DEFINE r == Tail(q)
<1>1. /\ Head(q) \in E /\ r \in Seq(E) /\ Len(r) = Len(q) - 1 /\ Len(q) \in Nat
      /\ \A i \in 1 .. Len(q) - 1 : r[i] = q[i + 1]
  BY HeadTailProperties, LenProperties
<1> HIDE DEF r
<1>2. \A i \in 1 .. Len(q) - 1 : i + 1 \in 1 .. Len(q) BY <1>1
<1>3. Once(r, X)
  <2> SUFFICES ASSUME NEW i \in 1 .. Len(q) - 1, NEW j \in 1 .. Len(q) - 1, r[i] = r[j], r[i] \in X PROVE i = j
    BY <1>1 DEF Once
  <2>1. i + 1 = j + 1 BY <1>1, <1>2 DEF Once
  <2> QED BY <1>1, <2>1
<1>4. Within(r, X, P)
  <2> SUFFICES ASSUME NEW i \in 1 .. Len(q) - 1, r[i] \in X PROVE r[i] \in P BY <1>1 DEF Within
  <2> QED BY <1>1, <1>2 DEF Within
<1> QED BY <1>1, <1>3, <1>4 DEF r

(* A message is published.                                                 *)
LEMMA PublishKeeps ==
  ASSUME NEW X, NEW M, NEW s, LoopOK(s, X, M), NEW m \in M, m \notin X
  PROVE  LET t == nxe_publish(s, m)
         IN  LoopOK(t, X, M) /\ Frame(s, t) /\ t.pair = s.pair /\ t.is = s.is /\ t.os = s.os
<1> DEFINE q == s.events
           t == nxe_publish(s, m)
<1>1. /\ t.events = Append(q, m) /\ DOMAIN t = DOMAIN s /\ t.pair = s.pair /\ t.is = s.is /\ t.os = s.os
      /\ t.tripped = s.tripped /\ \A f \in DOMAIN s \ LoopFields : t[f] = s[f]
  BY DEF nxe_publish, LoopOK, LoopFields
<1>2. q \in Seq(X \cup M) /\ Once(q, X) /\ Within(q, X, s.pair) /\ m \in X \cup M BY DEF LoopOK
<1> HIDE DEF t, q
<1>3. Append(q, m) \in Seq(X \cup M) /\ Once(Append(q, m), X) /\ Within(Append(q, m), X, s.pair)
  BY <1>2, MessageAppend
<1>4. LoopOK(t, X, M) BY <1>1, <1>3 DEF LoopOK
<1> QED BY <1>1, <1>4 DEF Frame, t

-----------------------------------------------------------------------------
(* Streams.                                                                *)

LEMMA LinkKeeps ==
  ASSUME NEW X, NEW M, NEW s, LoopOK(s, X, M), NEW x \in X, x \in s.pair, ~ InLoop(s, x)
  PROVE  LET t == nxe_link(s, x)
         IN  LoopOK(t, X, M) /\ Frame(s, t) /\ t.pair = s.pair /\ t.is = s.is /\ t.os = s.os
<1> DEFINE q == s.events
           t == nxe_link(s, x)
<1>1. /\ t.events = Append(q, x) /\ t.tripped = FALSE /\ DOMAIN t = DOMAIN s
      /\ t.pair = s.pair /\ t.is = s.is /\ t.os = s.os
      /\ \A f \in DOMAIN s \ LoopFields : t[f] = s[f]
  BY DEF nxe_link, LoopOK, LoopFields
<1>2. q \in Seq(X \cup M) /\ x \in X \cup M /\ Once(q, X) /\ Within(q, X, s.pair) BY DEF LoopOK
<1>3. ~ \E i \in 1 .. Len(q) : q[i] = x BY DEF InLoop
<1> HIDE DEF t, q
<1>4. Append(q, x) \in Seq(X \cup M) /\ Once(Append(q, x), X) /\ Within(Append(q, x), X, s.pair)
  BY <1>2, <1>3, ListAppend
<1>5. LoopOK(t, X, M) BY <1>1, <1>4 DEF LoopOK
<1> QED BY <1>1, <1>5 DEF Frame, t

LEMMA WakeKeeps ==
  ASSUME NEW X, NEW M, NEW s, LoopOK(s, X, M), NEW x \in X
  PROVE  LET t == Wake(s, x)
         IN  LoopOK(t, X, M) /\ Frame(s, t) /\ t.pair = s.pair /\ t.is = s.is /\ t.os = s.os
<1> DEFINE links == x \in s.pair /\ s.is[x] /\ s.os[x] /\ ~ InLoop(s, x)
<1>1. CASE links
  <2>1. Wake(s, x) = nxe_link(s, x) BY <1>1 DEF Wake
  <2>2. x \in s.pair /\ ~ InLoop(s, x) BY <1>1
  <2> QED BY <2>1, <2>2, LinkKeeps
<1>2. CASE ~ links
  <2>1. Wake(s, x) = s BY <1>2 DEF Wake
  <2> QED BY <2>1 DEF Frame
<1> QED BY <1>1, <1>2

LEMMA SetInputReady ==
  ASSUME NEW X, NEW M, NEW s, LoopOK(s, X, M), NEW x \in X
  PROVE  LET t == nxe_istream_set_ready(s, x)
         IN  LoopOK(t, X, M) /\ Frame(s, t) /\ t.pair = s.pair /\ t.os = s.os
<1>1. CASE s.is[x]
  <2>1. nxe_istream_set_ready(s, x) = s BY <1>1 DEF nxe_istream_set_ready
  <2> QED BY <2>1 DEF Frame
<1>2. CASE ~ s.is[x]
  <2> DEFINE u == [s EXCEPT !.is[x] = TRUE]
  <2>1. /\ u.is \in [X -> BOOLEAN] /\ DOMAIN u = DOMAIN s /\ u.events = s.events /\ u.pair = s.pair
        /\ u.os = s.os /\ u.tripped = s.tripped /\ \A f \in DOMAIN s \ LoopFields : u[f] = s[f]
    BY DEF LoopOK, LoopFields
  <2>2. nxe_istream_set_ready(s, x) = Wake(u, x) BY <1>2 DEF nxe_istream_set_ready
  <2> HIDE DEF u
  <2>3. LoopOK(u, X, M) /\ Frame(s, u) BY <2>1 DEF LoopOK, Frame
  <2> DEFINE t == Wake(u, x)
  <2>4. LoopOK(t, X, M) /\ Frame(u, t) /\ t.pair = u.pair /\ t.os = u.os BY <2>3, WakeKeeps
  <2> HIDE DEF t
  <2>5. Frame(s, t) BY <2>3, <2>4, FrameTransitive
  <2>6. LoopOK(t, X, M) /\ Frame(s, t) /\ t.pair = s.pair /\ t.os = s.os BY <2>1, <2>4, <2>5
  <2> QED BY <2>2, <2>6 DEF t
<1> QED BY <1>1, <1>2

LEMMA UnsetInputReady ==
  ASSUME NEW X, NEW M, NEW s, LoopOK(s, X, M), NEW x \in X
  PROVE  LET t == nxe_istream_unset_ready(s, x)
         IN  LoopOK(t, X, M) /\ Frame(s, t) /\ t.pair = s.pair /\ t.os = s.os
<1> DEFINE t == nxe_istream_unset_ready(s, x)
<1>1. /\ t.is \in [X -> BOOLEAN] /\ DOMAIN t = DOMAIN s /\ t.events = s.events /\ t.pair = s.pair
      /\ t.os = s.os /\ t.tripped = s.tripped /\ \A f \in DOMAIN s \ LoopFields : t[f] = s[f]
  BY DEF LoopOK, LoopFields, nxe_istream_unset_ready
<1> HIDE DEF t
<1>2. LoopOK(t, X, M) /\ Frame(s, t) BY <1>1 DEF LoopOK, Frame
<1> QED BY <1>1, <1>2 DEF t

LEMMA SetOutputReady ==
  ASSUME NEW X, NEW M, NEW s, LoopOK(s, X, M), NEW x \in X
  PROVE  LET t == nxe_ostream_set_ready(s, x)
         IN  /\ LoopOK(t, X, M) /\ Frame(s, t) /\ t.pair = s.pair /\ t.is = s.is
             /\ \A y \in X \ {x} : t.os[y] = s.os[y]
<1> DEFINE u == [s EXCEPT !.os[x] = TRUE]
<1>1. /\ u.os \in [X -> BOOLEAN] /\ DOMAIN u = DOMAIN s /\ u.events = s.events /\ u.pair = s.pair
      /\ u.is = s.is /\ u.tripped = s.tripped /\ (\A f \in DOMAIN s \ LoopFields : u[f] = s[f])
      /\ \A y \in X \ {x} : u.os[y] = s.os[y]
  BY DEF LoopOK, LoopFields
<1>2. nxe_ostream_set_ready(s, x) = Wake(u, x) BY DEF nxe_ostream_set_ready
<1> HIDE DEF u
<1>3. LoopOK(u, X, M) /\ Frame(s, u) BY <1>1 DEF LoopOK, Frame
<1> DEFINE t == Wake(u, x)
<1>4. LoopOK(t, X, M) /\ Frame(u, t) /\ t.pair = u.pair /\ t.is = u.is /\ t.os = u.os BY <1>3, WakeKeeps
<1> HIDE DEF t
<1>5. Frame(s, t) BY <1>3, <1>4, FrameTransitive
<1>6. /\ LoopOK(t, X, M) /\ Frame(s, t) /\ t.pair = s.pair /\ t.is = s.is
      /\ \A y \in X \ {x} : t.os[y] = s.os[y]
  BY <1>1, <1>4, <1>5
<1> QED BY <1>2, <1>6 DEF t

LEMMA UnsetOutputReady ==
  ASSUME NEW X, NEW M, NEW s, LoopOK(s, X, M), NEW x \in X
  PROVE  LET t == nxe_ostream_unset_ready(s, x)
         IN  /\ LoopOK(t, X, M) /\ Frame(s, t) /\ t.pair = s.pair /\ t.is = s.is
             /\ ~ t.os[x] /\ \A y \in X \ {x} : t.os[y] = s.os[y]
<1> DEFINE t == nxe_ostream_unset_ready(s, x)
<1>1. /\ t.os \in [X -> BOOLEAN] /\ DOMAIN t = DOMAIN s /\ t.events = s.events /\ t.pair = s.pair
      /\ t.is = s.is /\ t.tripped = s.tripped /\ (\A f \in DOMAIN s \ LoopFields : t[f] = s[f])
      /\ ~ t.os[x] /\ \A y \in X \ {x} : t.os[y] = s.os[y]
  BY DEF LoopOK, LoopFields, nxe_ostream_unset_ready
<1> HIDE DEF t
<1>2. LoopOK(t, X, M) /\ Frame(s, t) BY <1>1 DEF LoopOK, Frame
<1> QED BY <1>1, <1>2 DEF t

(* The event of a stream that is not connected is not in the list, so that *)
(* connecting may link it.                                                 *)
LEMMA ConnectKeeps ==
  ASSUME NEW X, NEW M, NEW s, LoopOK(s, X, M), NEW x \in X, x \notin s.pair
  PROVE  LET t == nxe_connect_streams(s, x)
         IN  LoopOK(t, X, M) /\ Frame(s, t) /\ t.pair = s.pair \cup {x} /\ t.is = s.is /\ t.os = s.os
<1> DEFINE u == [s EXCEPT !.pair = @ \cup {x}]
           t == nxe_connect_streams(s, x)
<1>1. /\ u.pair = s.pair \cup {x} /\ DOMAIN u = DOMAIN s /\ u.events = s.events
      /\ u.is = s.is /\ u.os = s.os /\ u.tripped = s.tripped
      /\ \A f \in DOMAIN s \ LoopFields : u[f] = s[f]
  BY DEF LoopOK, LoopFields
<1>2. t = IF u.is[x] /\ u.os[x] THEN nxe_link(u, x) ELSE u BY DEF nxe_connect_streams
<1> HIDE DEF u, t
<1>3. LoopOK(u, X, M) /\ Frame(s, u) /\ x \in u.pair
  <2>1. Within(u.events, X, u.pair) BY <1>1 DEF LoopOK, Within
  <2>2. u.pair \in SUBSET X BY <1>1 DEF LoopOK
  <2> QED BY <1>1, <2>1, <2>2 DEF LoopOK, Frame
<1>4. ~ InLoop(u, x) BY <1>1 DEF LoopOK, Within, InLoop
<1>5. CASE u.is[x] /\ u.os[x]
  <2>1. t = nxe_link(u, x) BY <1>2, <1>5
  <2>2. LoopOK(t, X, M) /\ Frame(u, t) /\ t.pair = u.pair /\ t.is = u.is /\ t.os = u.os
    BY <1>3, <1>4, <2>1, LinkKeeps
  <2>3. Frame(s, t) BY <1>3, <2>2, FrameTransitive
  <2> QED BY <1>1, <2>2, <2>3 DEF t
<1>6. CASE ~ (u.is[x] /\ u.os[x])
  <2>1. t = u BY <1>2, <1>6
  <2> QED BY <1>1, <1>3, <2>1 DEF t
<1> QED BY <1>5, <1>6

(* Disconnecting takes the event of the stream out of the list.            *)
LEMMA DisconnectKeeps ==
  ASSUME NEW X, NEW M, NEW s, LoopOK(s, X, M), NEW x \in X
  PROVE  LET t == nxe_disconnect_streams(s, x)
         IN  LoopOK(t, X, M) /\ Frame(s, t) /\ t.pair = s.pair \ {x} /\ t.is = s.is /\ t.os = s.os
<1> DEFINE u == [s EXCEPT !.pair = @ \ {x}]
           t == nxe_disconnect_streams(s, x)
           q == s.events
<1>1. /\ u.pair = s.pair \ {x} /\ DOMAIN u = DOMAIN s /\ u.events = q
      /\ u.is = s.is /\ u.os = s.os /\ u.tripped = s.tripped
      /\ \A f \in DOMAIN s \ LoopFields : u[f] = s[f]
  BY DEF LoopOK, LoopFields
<1>2. t = IF InLoop(u, x) THEN nxe_unlink(u, x) ELSE u BY DEF nxe_disconnect_streams
<1>3. /\ q \in Seq(X \cup M) /\ Once(q, X) /\ Within(q, X, s.pair) /\ LoopFields \subseteq DOMAIN u BY <1>1 DEF LoopOK
<1> HIDE DEF u, t
<1>4. u.pair \in SUBSET X BY <1>1 DEF LoopOK
<1>5. CASE InLoop(u, x)
  <2> DEFINE k == CHOOSE j \in 1 .. Len(q) : q[j] = x
  <2>1. k \in 1 .. Len(q) /\ q[k] = x
    <3>1. \E j \in 1 .. Len(q) : q[j] = x BY <1>1, <1>5 DEF InLoop
    <3> QED BY <3>1
  <2>2. t = [u EXCEPT !.events = Cut(q, k)] BY <1>1, <1>2, <1>3, <1>5 DEF nxe_unlink, Cut, LoopFields
  <2> HIDE DEF k, q
  <2>3. Cut(q, k) \in Seq(X \cup M) /\ Once(Cut(q, k), X) /\ Within(Cut(q, k), X, s.pair \ {x})
    <3> DEFINE E == X \cup M
    <3>1. q \in Seq(E) /\ q[k] \in X BY <1>3, <2>1
    <3> HIDE DEF E
    <3>2. Cut(q, k) \in Seq(E) /\ Once(Cut(q, k), X) /\ Within(Cut(q, k), X, s.pair \ {q[k]})
      BY <1>3, <2>1, <3>1, ListCut
    <3> QED BY <2>1, <3>2 DEF E
  <2>4. /\ t.events = Cut(q, k) /\ DOMAIN t = DOMAIN u /\ t.pair = u.pair /\ t.is = u.is /\ t.os = u.os
        /\ t.tripped = u.tripped /\ \A f \in DOMAIN u \ LoopFields : t[f] = u[f]
    BY <1>3, <2>2 DEF LoopFields
  <2>5. LoopOK(t, X, M) BY <1>1, <1>4, <2>3, <2>4 DEF LoopOK
  <2>6. Frame(s, t) BY <1>1, <2>4 DEF Frame
  <2> QED BY <1>1, <2>4, <2>5, <2>6 DEF t
<1>6. CASE ~ InLoop(u, x)
  <2>1. t = u BY <1>2, <1>6
  <2>2. Within(q, X, s.pair \ {x}) BY <1>1, <1>3, <1>6 DEF Within, InLoop
  <2>3. LoopOK(u, X, M) BY <1>1, <1>3, <1>4, <2>2 DEF LoopOK
  <2>4. Frame(s, u) BY <1>1 DEF Frame
  <2> QED BY <1>1, <2>1, <2>3, <2>4 DEF t
<1> QED BY <1>5, <1>6

-----------------------------------------------------------------------------
(* What is in the list afterwards, and in which order.                     *)

In(q, f) == \E i \in 1 .. Len(q) : q[i] = f

LEMMA AppendIn ==
  ASSUME NEW E, NEW q \in Seq(E), NEW e \in E, NEW rank, \A f \in DOMAIN rank : rank[f] \in Int,
         Ranked(q, rank),
         e \in DOMAIN rank => \A f \in DOMAIN rank : In(q, f) => rank[f] < rank[e]
  PROVE  /\ \A f : In(Append(q, e), f) <=> In(q, f) \/ f = e
         /\ Ranked(Append(q, e), rank)
<1> DEFINE r == Append(q, e)
           n == Len(q)
<1>1. /\ Len(r) = n + 1 /\ n \in Nat /\ r[n + 1] = e
      /\ \A i \in 1 .. n : r[i] = q[i]
  BY AppendProperties, LenProperties
<1> HIDE DEF r
<1>2. \A i \in 1 .. n + 1 : i \in 1 .. n \/ i = n + 1 BY <1>1
<1>3. \A f : In(r, f) <=> In(q, f) \/ f = e
  <2> TAKE f
  <2>1. ASSUME In(r, f) PROVE In(q, f) \/ f = e
    <3>1. PICK i \in 1 .. n + 1 : r[i] = f BY <1>1, <2>1 DEF In
    <3> QED BY <1>1, <1>2, <3>1 DEF In
  <2>2. ASSUME In(q, f) PROVE In(r, f)
    <3>1. PICK i \in 1 .. n : q[i] = f BY <2>2 DEF In
    <3>2. i \in 1 .. n + 1 /\ r[i] = f BY <1>1, <3>1
    <3> QED BY <1>1, <3>2 DEF In
  <2>3. In(r, e) BY <1>1 DEF In
  <2> QED BY <2>1, <2>2, <2>3
<1>4. Ranked(r, rank)
  <2> SUFFICES ASSUME NEW i \in 1 .. n + 1, NEW j \in 1 .. n + 1, i < j,
                      r[i] \in DOMAIN rank, r[j] \in DOMAIN rank
               PROVE  rank[r[i]] < rank[r[j]]
    BY <1>1 DEF Ranked
  <2>1. i \in 1 .. n /\ r[i] = q[i] /\ In(q, r[i]) BY <1>1 DEF In
  <2>2. CASE j \in 1 .. n BY <1>1, <2>1, <2>2 DEF Ranked
  <2>3. CASE j = n + 1 BY <1>1, <2>1, <2>3
  <2> QED BY <1>2, <2>2, <2>3
<1> QED BY <1>3, <1>4 DEF r

(* The places of what is left after the k-th is cut out.                   *)
Old(k, i) == IF i < k THEN i ELSE i + 1

LEMMA CutPlaces ==
  ASSUME NEW E, NEW q \in Seq(E), NEW k \in 1 .. Len(q)
  PROVE  /\ Len(Cut(q, k)) = Len(q) - 1
         /\ \A i \in 1 .. Len(q) - 1 : /\ Old(k, i) \in 1 .. Len(q) /\ Old(k, i) # k
                                       /\ Cut(q, k)[i] = q[Old(k, i)]
<1> DEFINE a == SubSeq(q, 1, k - 1)
           b == SubSeq(q, k + 1, Len(q))
           r == a \o b
           n == Len(q)
<1>1. n \in Nat /\ \A i \in 1 .. n : q[i] \in E BY LenProperties, ElementOfSeq
<1>2. a \in Seq(E) /\ Len(a) = k - 1 /\ \A i \in 1 .. k - 1 : a[i] = q[i]
  <2>1. 1 \in Int /\ k - 1 \in Int /\ \A i \in 1 .. k - 1 : q[i] \in E BY <1>1
  <2>2. /\ a \in Seq(E) /\ Len(a) = IF 1 <= k - 1 THEN k - 1 - 1 + 1 ELSE 0
        /\ \A i \in 1 .. k - 1 - 1 + 1 : a[i] = q[1 + i - 1]
    BY <2>1, SubSeqProperties
  <2> HIDE DEF a
  <2> QED BY <1>1, <2>2
<1>3. b \in Seq(E) /\ Len(b) = n - k /\ \A i \in 1 .. n - k : b[i] = q[k + i]
  <2>1. k + 1 \in Int /\ n \in Int /\ \A i \in k + 1 .. n : q[i] \in E BY <1>1
  <2>2. /\ b \in Seq(E) /\ Len(b) = IF k + 1 <= n THEN n - (k + 1) + 1 ELSE 0
        /\ \A i \in 1 .. n - (k + 1) + 1 : b[i] = q[k + 1 + i - 1]
    BY <2>1, SubSeqProperties
  <2> HIDE DEF b
  <2> QED BY <1>1, <2>2
<1> HIDE DEF a, b
<1>4. /\ Len(r) = n - 1
      /\ \A i \in 1 .. n - 1 : r[i] = IF i <= k - 1 THEN a[i] ELSE b[i - (k - 1)]
  <2>1. /\ r \in Seq(E) /\ Len(r) = Len(a) + Len(b)
        /\ \A i \in 1 .. Len(a) + Len(b) : r[i] = IF i <= Len(a) THEN a[i] ELSE b[i - Len(a)]
    BY <1>2, <1>3, ConcatProperties
  <2> HIDE DEF r
  <2> QED BY <1>1, <1>2, <1>3, <2>1
<1> HIDE DEF r
<1>5. \A i \in 1 .. n - 1 : Old(k, i) \in 1 .. n /\ Old(k, i) # k /\ r[i] = q[Old(k, i)]
  <2> TAKE i \in 1 .. n - 1
  <2>1. CASE i < k
    <3>1. i \in 1 .. k - 1 /\ i <= k - 1 BY <1>1, <2>1
    <3> QED BY <1>1, <1>2, <1>4, <2>1, <3>1 DEF Old
  <2>2. CASE ~ (i < k)
    <3>1. i - (k - 1) \in 1 .. n - k /\ ~ (i <= k - 1) /\ k + (i - (k - 1)) = i + 1 BY <1>1, <2>2
    <3> QED BY <1>1, <1>3, <1>4, <2>2, <3>1 DEF Old
  <2> QED BY <2>1, <2>2
<1> QED BY <1>4, <1>5 DEF Cut, r, a, b

LEMMA CutIn ==
  ASSUME NEW E, NEW X, NEW q \in Seq(E), NEW k \in 1 .. Len(q), q[k] \in X, Once(q, X),
         NEW rank, Ranked(q, rank)
  PROVE  /\ \A f : In(Cut(q, k), f) <=> In(q, f) /\ f # q[k]
         /\ Ranked(Cut(q, k), rank)
<1> DEFINE r == Cut(q, k)
           n == Len(q)
<1>1. /\ n \in Nat /\ Len(r) = n - 1
      /\ \A i \in 1 .. n - 1 : Old(k, i) \in 1 .. n /\ Old(k, i) # k /\ r[i] = q[Old(k, i)]
  BY CutPlaces, LenProperties
<1> HIDE DEF r
<1>2. \A f : In(r, f) <=> In(q, f) /\ f # q[k]
  <2> TAKE f
  <2>1. ASSUME In(r, f) PROVE In(q, f) /\ f # q[k]
    <3>1. PICK i \in 1 .. n - 1 : r[i] = f BY <1>1, <2>1 DEF In
    <3> DEFINE o == Old(k, i)
    <3>2. o \in 1 .. n /\ o # k /\ q[o] = f BY <1>1, <3>1
    <3> HIDE DEF o
    <3>3. In(q, f) BY <3>2 DEF In
    <3>4. f # q[k] BY <3>2 DEF Once
    <3> QED BY <3>3, <3>4
  <2>2. ASSUME In(q, f), f # q[k] PROVE In(r, f)
    <3>1. PICK j \in 1 .. n : q[j] = f BY <2>2 DEF In
    <3>2. CASE j < k
      <4>1. j \in 1 .. n - 1 /\ Old(k, j) = j BY <1>1, <3>2 DEF Old
      <4> QED BY <1>1, <3>1, <4>1 DEF In
    <3>3. CASE j > k
      <4>1. j - 1 \in 1 .. n - 1 /\ ~ (j - 1 < k) /\ j - 1 + 1 = j BY <1>1, <3>3
      <4>2. Old(k, j - 1) = j BY <4>1 DEF Old
      <4>3. r[j - 1] = f BY <1>1, <3>1, <4>1, <4>2
      <4> QED BY <1>1, <4>1, <4>3 DEF In
    <3> QED BY <1>1, <2>2, <3>1, <3>2, <3>3
  <2> QED BY <2>1, <2>2
<1>3. Ranked(r, rank)
  <2> SUFFICES ASSUME NEW i \in 1 .. n - 1, NEW j \in 1 .. n - 1, i < j,
                      r[i] \in DOMAIN rank, r[j] \in DOMAIN rank
               PROVE  rank[r[i]] < rank[r[j]]
    BY <1>1 DEF Ranked
  <2>1. Old(k, i) < Old(k, j) BY <1>1 DEF Old
  <2>2. /\ Old(k, i) \in 1 .. n /\ Old(k, j) \in 1 .. n
        /\ r[i] = q[Old(k, i)] /\ r[j] = q[Old(k, j)]
    BY <1>1
  <2> QED BY <2>1, <2>2 DEF Ranked
<1> QED BY <1>2, <1>3 DEF r

LEMMA TailIn ==
  ASSUME NEW E, NEW X, NEW q \in Seq(E), q # <<>>, Once(q, X), NEW rank, Ranked(q, rank)
  PROVE  /\ In(q, Head(q))
         /\ \A f : In(Tail(q), f) => In(q, f)
         /\ \A f : In(q, f) => f = Head(q) \/ In(Tail(q), f)
         /\ Head(q) \in X => ~ In(Tail(q), Head(q))
         /\ Ranked(Tail(q), rank)
         /\ Head(q) \in DOMAIN rank =>
              \A f \in DOMAIN rank : In(Tail(q), f) => rank[Head(q)] < rank[f]
<1> DEFINE r == Tail(q)
           h == Head(q)
           n == Len(q)
<1>1. /\ Len(r) = n - 1 /\ n \in Nat /\ n # 0 /\ h = q[1]
      /\ \A i \in 1 .. n - 1 : r[i] = q[i + 1]
  BY HeadTailProperties, LenProperties, EmptySeq
<1> HIDE DEF r, h
<1>2. \A i \in 1 .. n - 1 : i + 1 \in 1 .. n /\ i + 1 # 1 /\ 1 < i + 1 BY <1>1
<1>3. 1 \in 1 .. n /\ In(q, h) BY <1>1 DEF In
<1>4. \A f : In(r, f) => \E i \in 1 .. n - 1 : i + 1 \in 1 .. n /\ 1 < i + 1 /\ q[i + 1] = f
  BY <1>1, <1>2 DEF In
<1>5. \A f : In(r, f) => In(q, f) BY <1>4 DEF In
<1>6. ASSUME NEW f, In(q, f) PROVE f = h \/ In(r, f)
  <2>1. PICK i \in 1 .. n : q[i] = f BY <1>6 DEF In
  <2>2. CASE i = 1 BY <1>1, <2>1, <2>2
  <2>3. CASE i # 1
    <3>1. i - 1 \in 1 .. n - 1 /\ i - 1 + 1 = i BY <1>1, <2>3
    <3>2. r[i - 1] = f BY <1>1, <2>1, <3>1
    <3> QED BY <1>1, <3>1, <3>2 DEF In
  <2> QED BY <2>2, <2>3
<1>7. ASSUME h \in X, In(r, h) PROVE FALSE
  <2>1. PICK i \in 1 .. n - 1 : i + 1 \in 1 .. n /\ 1 < i + 1 /\ q[i + 1] = h BY <1>4, <1>7
  <2>2. i + 1 = 1 BY <1>1, <1>3, <1>7, <2>1 DEF Once
  <2> QED BY <2>1, <2>2
<1>8. Ranked(r, rank)
  <2> SUFFICES ASSUME NEW i \in 1 .. n - 1, NEW j \in 1 .. n - 1, i < j,
                      r[i] \in DOMAIN rank, r[j] \in DOMAIN rank
               PROVE  rank[r[i]] < rank[r[j]]
    BY <1>1 DEF Ranked
  <2>1. i + 1 < j + 1 /\ r[i] = q[i + 1] /\ r[j] = q[j + 1] BY <1>1
  <2> QED BY <1>2, <2>1 DEF Ranked
<1>9. ASSUME h \in DOMAIN rank, NEW f \in DOMAIN rank, In(r, f) PROVE rank[h] < rank[f]
  <2>1. PICK i \in 1 .. n - 1 : i + 1 \in 1 .. n /\ 1 < i + 1 /\ q[i + 1] = f BY <1>4, <1>9
  <2> QED BY <1>1, <1>3, <1>9, <2>1 DEF Ranked
<1> QED BY <1>3, <1>5, <1>6, <1>7, <1>8, <1>9 DEF r, h

(* The same of the operators on a record.  Messages have ranks.            *)
Loop(s, X, M, rank) ==
  /\ LoopOK(s, X, M) /\ Ranked(s.events, rank)
  /\ DOMAIN rank \subseteq M /\ X \cap M = {} /\ \A f \in DOMAIN rank : rank[f] \in Int

LEMMA LinkIn ==
  ASSUME NEW X, NEW M, NEW rank, NEW s, Loop(s, X, M, rank), NEW x \in X, x \in s.pair, ~ InLoop(s, x)
  PROVE  LET t == nxe_link(s, x)
         IN  Loop(t, X, M, rank) /\ \A f : InLoop(t, f) <=> InLoop(s, f) \/ f = x
<1> DEFINE t == nxe_link(s, x)
           q == s.events
<1>1. LoopOK(t, X, M)
  <2>1. LoopOK(s, X, M) BY DEF Loop
  <2> QED BY <2>1, LinkKeeps
<1>2. t.events = Append(q, x) BY DEF nxe_link, Loop, LoopOK, LoopFields
<1>3. q \in Seq(X \cup M) /\ x \in X \cup M BY DEF Loop, LoopOK
<1> HIDE DEF t, q
<1>4. x \notin DOMAIN rank /\ Ranked(q, rank) /\ \A f \in DOMAIN rank : rank[f] \in Int BY DEF Loop, q
<1>5. (\A f : In(Append(q, x), f) <=> In(q, f) \/ f = x) /\ Ranked(Append(q, x), rank)
  BY <1>3, <1>4, AppendIn
<1>6. \A f : InLoop(t, f) <=> InLoop(s, f) \/ f = x BY <1>2, <1>5 DEF InLoop, In, q
<1>7. Loop(t, X, M, rank) BY <1>1, <1>2, <1>5 DEF Loop
<1> QED BY <1>6, <1>7 DEF t

LEMMA WakeIn ==
  ASSUME NEW X, NEW M, NEW rank, NEW s, Loop(s, X, M, rank), NEW x \in X
  PROVE  LET t == Wake(s, x)
         IN  Loop(t, X, M, rank) /\ \A f : InLoop(t, f) <=> InLoop(s, f) \/ (f = x /\ Flowing(s, x))
<1> DEFINE links == x \in s.pair /\ s.is[x] /\ s.os[x] /\ ~ InLoop(s, x)
<1>1. CASE links
  <2>1. Wake(s, x) = nxe_link(s, x) BY <1>1 DEF Wake
  <2>2. x \in s.pair /\ ~ InLoop(s, x) /\ Flowing(s, x) BY <1>1 DEF Flowing
  <2> QED BY <2>1, <2>2, LinkIn
<1>2. CASE ~ links
  <2>1. Wake(s, x) = s BY <1>2 DEF Wake
  <2> QED BY <1>2, <2>1 DEF Flowing
<1> QED BY <1>1, <1>2

LEMMA SetInputIn ==
  ASSUME NEW X, NEW M, NEW rank, NEW s, Loop(s, X, M, rank), NEW x \in X
  PROVE  LET t == nxe_istream_set_ready(s, x)
         IN  /\ Loop(t, X, M, rank) /\ Frame(s, t) /\ t.pair = s.pair /\ t.os = s.os
             /\ t.is = [s.is EXCEPT ![x] = TRUE]
             /\ \A f : InLoop(t, f) <=> \/ InLoop(s, f)
                                        \/ f = x /\ ~ s.is[x] /\ s.os[x] /\ x \in s.pair
<1>0. LoopOK(s, X, M) /\ s.is \in [X -> BOOLEAN] /\ s.os \in [X -> BOOLEAN] BY DEF Loop, LoopOK
<1>1. CASE s.is[x]
  <2>1. nxe_istream_set_ready(s, x) = s BY <1>1 DEF nxe_istream_set_ready
  <2>2. s.is = [s.is EXCEPT ![x] = TRUE] BY <1>0, <1>1
  <2> QED BY <1>1, <2>1, <2>2 DEF Frame
<1>2. CASE ~ s.is[x]
  <2> DEFINE u == [s EXCEPT !.is[x] = TRUE]
             t == Wake(u, x)
  <2>1. /\ u.is = [s.is EXCEPT ![x] = TRUE] /\ DOMAIN u = DOMAIN s /\ u.events = s.events /\ u.pair = s.pair
        /\ u.os = s.os /\ u.tripped = s.tripped /\ \A f \in DOMAIN s \ LoopFields : u[f] = s[f]
    BY <1>0 DEF LoopOK, LoopFields
  <2>2. nxe_istream_set_ready(s, x) = t BY <1>2 DEF nxe_istream_set_ready
  <2> HIDE DEF u
  <2>3. u.is \in [X -> BOOLEAN] /\ u.is[x] BY <1>0, <2>1
  <2>4. LoopOK(u, X, M) /\ Frame(s, u) BY <1>0, <2>1, <2>3 DEF LoopOK, Frame
  <2>5. Loop(u, X, M, rank) BY <2>1, <2>4 DEF Loop
  <2>6. /\ Loop(t, X, M, rank) /\ \A f : InLoop(t, f) <=> InLoop(u, f) \/ (f = x /\ Flowing(u, x))
    BY <2>5, WakeIn
  <2>7. Frame(u, t) /\ t.pair = u.pair /\ t.is = u.is /\ t.os = u.os BY <2>4, WakeKeeps
  <2> HIDE DEF t
  <2>8. Frame(s, t) BY <2>4, <2>7, FrameTransitive
  <2>9. \A f : InLoop(u, f) <=> InLoop(s, f) BY <2>1 DEF InLoop
  <2>10. Flowing(u, x) <=> s.os[x] /\ x \in s.pair BY <2>1, <2>3 DEF Flowing
  <2>11. \A f : InLoop(t, f) <=> \/ InLoop(s, f)
                                 \/ f = x /\ ~ s.is[x] /\ s.os[x] /\ x \in s.pair
    BY <1>2, <2>6, <2>9, <2>10
  <2> QED BY <2>1, <2>2, <2>6, <2>7, <2>8, <2>11
<1> QED BY <1>1, <1>2

LEMMA UnsetInputIn ==
  ASSUME NEW X, NEW M, NEW rank, NEW s, Loop(s, X, M, rank), NEW x \in X
  PROVE  LET t == nxe_istream_unset_ready(s, x)
         IN  /\ Loop(t, X, M, rank) /\ Frame(s, t) /\ t.pair = s.pair /\ t.os = s.os
             /\ t.is = [s.is EXCEPT ![x] = FALSE] /\ t.events = s.events
             /\ \A f : InLoop(t, f) <=> InLoop(s, f)
<1> DEFINE t == nxe_istream_unset_ready(s, x)
<1>1. LoopOK(s, X, M) BY DEF Loop
<1>2. LoopOK(t, X, M) /\ Frame(s, t) /\ t.pair = s.pair /\ t.os = s.os BY <1>1, UnsetInputReady
<1>3. t.is = [s.is EXCEPT ![x] = FALSE] /\ t.events = s.events
  BY <1>1 DEF nxe_istream_unset_ready, LoopOK, LoopFields
<1> HIDE DEF t
<1>4. \A f : InLoop(t, f) <=> InLoop(s, f) BY <1>3 DEF InLoop
<1>5. Loop(t, X, M, rank) BY <1>2, <1>3 DEF Loop
<1> QED BY <1>2, <1>3, <1>4, <1>5 DEF t

LEMMA SetOutputIn ==
  ASSUME NEW X, NEW M, NEW rank, NEW s, Loop(s, X, M, rank), NEW x \in X
  PROVE  LET t == nxe_ostream_set_ready(s, x)
         IN  /\ Loop(t, X, M, rank) /\ Frame(s, t) /\ t.pair = s.pair /\ t.is = s.is
             /\ t.os = [s.os EXCEPT ![x] = TRUE]
             /\ \A f : InLoop(t, f) <=> \/ InLoop(s, f)
                                        \/ f = x /\ s.is[x] /\ x \in s.pair
<1>0. LoopOK(s, X, M) /\ s.is \in [X -> BOOLEAN] /\ s.os \in [X -> BOOLEAN] BY DEF Loop, LoopOK
<1> DEFINE u == [s EXCEPT !.os[x] = TRUE]
           t == Wake(u, x)
<1>1. /\ u.os = [s.os EXCEPT ![x] = TRUE] /\ DOMAIN u = DOMAIN s /\ u.events = s.events /\ u.pair = s.pair
      /\ u.is = s.is /\ u.tripped = s.tripped /\ \A f \in DOMAIN s \ LoopFields : u[f] = s[f]
  BY <1>0 DEF LoopOK, LoopFields
<1>2. nxe_ostream_set_ready(s, x) = t BY DEF nxe_ostream_set_ready
<1> HIDE DEF u
<1>3. u.os \in [X -> BOOLEAN] /\ u.os[x] BY <1>0, <1>1
<1>4. LoopOK(u, X, M) /\ Frame(s, u) BY <1>0, <1>1, <1>3 DEF LoopOK, Frame
<1>5. Loop(u, X, M, rank) BY <1>1, <1>4 DEF Loop
<1>6. /\ Loop(t, X, M, rank) /\ \A f : InLoop(t, f) <=> InLoop(u, f) \/ (f = x /\ Flowing(u, x))
  BY <1>5, WakeIn
<1>7. Frame(u, t) /\ t.pair = u.pair /\ t.is = u.is /\ t.os = u.os BY <1>4, WakeKeeps
<1> HIDE DEF t
<1>8. Frame(s, t) BY <1>4, <1>7, FrameTransitive
<1>9. \A f : InLoop(u, f) <=> InLoop(s, f) BY <1>1 DEF InLoop
<1>10. Flowing(u, x) <=> s.is[x] /\ x \in s.pair BY <1>1, <1>3 DEF Flowing
<1>11. \A f : InLoop(t, f) <=> InLoop(s, f) \/ (f = x /\ s.is[x] /\ x \in s.pair)
  BY <1>6, <1>9, <1>10
<1> QED BY <1>1, <1>2, <1>6, <1>7, <1>8, <1>11

LEMMA UnsetOutputIn ==
  ASSUME NEW X, NEW M, NEW rank, NEW s, Loop(s, X, M, rank), NEW x \in X
  PROVE  LET t == nxe_ostream_unset_ready(s, x)
         IN  /\ Loop(t, X, M, rank) /\ Frame(s, t) /\ t.pair = s.pair /\ t.is = s.is
             /\ t.os = [s.os EXCEPT ![x] = FALSE] /\ t.events = s.events
             /\ \A f : InLoop(t, f) <=> InLoop(s, f)
<1> DEFINE t == nxe_ostream_unset_ready(s, x)
<1>1. LoopOK(s, X, M) BY DEF Loop
<1>2. LoopOK(t, X, M) /\ Frame(s, t) /\ t.pair = s.pair /\ t.is = s.is BY <1>1, UnsetOutputReady
<1>3. t.os = [s.os EXCEPT ![x] = FALSE] /\ t.events = s.events
  BY <1>1 DEF nxe_ostream_unset_ready, LoopOK, LoopFields
<1> HIDE DEF t
<1>4. \A f : InLoop(t, f) <=> InLoop(s, f) BY <1>3 DEF InLoop
<1>5. Loop(t, X, M, rank) BY <1>2, <1>3 DEF Loop
<1> QED BY <1>2, <1>3, <1>4, <1>5 DEF t

LEMMA ConnectIn ==
  ASSUME NEW X, NEW M, NEW rank, NEW s, Loop(s, X, M, rank), NEW x \in X, x \notin s.pair
  PROVE  LET t == nxe_connect_streams(s, x)
         IN  /\ Loop(t, X, M, rank) /\ Frame(s, t) /\ t.is = s.is /\ t.os = s.os
             /\ t.pair = s.pair \cup {x}
             /\ \A f : InLoop(t, f) <=> InLoop(s, f) \/ (f = x /\ s.is[x] /\ s.os[x])
<1>0. LoopOK(s, X, M) BY DEF Loop
<1> DEFINE u == [s EXCEPT !.pair = @ \cup {x}]
           t == nxe_connect_streams(s, x)
<1>1. /\ u.pair = s.pair \cup {x} /\ DOMAIN u = DOMAIN s /\ u.events = s.events
      /\ u.is = s.is /\ u.os = s.os /\ u.tripped = s.tripped
      /\ \A f \in DOMAIN s \ LoopFields : u[f] = s[f]
  BY <1>0 DEF LoopOK, LoopFields
<1>2. t = IF u.is[x] /\ u.os[x] THEN nxe_link(u, x) ELSE u BY DEF nxe_connect_streams
<1>3. LoopOK(t, X, M) /\ Frame(s, t) /\ t.pair = s.pair \cup {x} /\ t.is = s.is /\ t.os = s.os
  BY <1>0, ConnectKeeps
<1> HIDE DEF u, t
<1>4. LoopOK(u, X, M)
  <2>1. /\ s.events \in Seq(X \cup M) /\ s.pair \in SUBSET X
        /\ s.is \in [X -> BOOLEAN] /\ s.os \in [X -> BOOLEAN] /\ s.tripped = FALSE
        /\ Once(s.events, X) /\ Within(s.events, X, s.pair) /\ LoopFields \subseteq DOMAIN s
    BY <1>0 DEF LoopOK
  <2>2. Within(s.events, X, u.pair) BY <1>1, <2>1 DEF Within
  <2>3. u.pair \in SUBSET X BY <1>1, <2>1
  <2> QED BY <1>1, <2>1, <2>2, <2>3 DEF LoopOK
<1>5. Loop(u, X, M, rank) BY <1>1, <1>4 DEF Loop
<1>6. ~ InLoop(u, x) BY <1>0, <1>1 DEF LoopOK, Within, InLoop
<1>7. \A f : InLoop(u, f) <=> InLoop(s, f) BY <1>1 DEF InLoop
<1>8. Loop(t, X, M, rank) /\ \A f : InLoop(t, f) <=> InLoop(s, f) \/ (f = x /\ s.is[x] /\ s.os[x])
  <2>1. CASE u.is[x] /\ u.os[x]
    <3>1. t = nxe_link(u, x) BY <1>2, <2>1
    <3>2. x \in u.pair BY <1>1
    <3>3. Loop(t, X, M, rank) /\ \A f : InLoop(t, f) <=> InLoop(u, f) \/ f = x
      BY <1>5, <1>6, <3>1, <3>2, LinkIn
    <3> QED BY <1>1, <1>7, <2>1, <3>3
  <2>2. CASE ~ (u.is[x] /\ u.os[x])
    <3>1. t = u BY <1>2, <2>2
    <3> QED BY <1>1, <1>5, <1>7, <2>2, <3>1
  <2> QED BY <2>1, <2>2
<1> QED BY <1>3, <1>8 DEF t

LEMMA DisconnectIn ==
  ASSUME NEW X, NEW M, NEW rank, NEW s, Loop(s, X, M, rank), NEW x \in X
  PROVE  LET t == nxe_disconnect_streams(s, x)
         IN  /\ Loop(t, X, M, rank) /\ Frame(s, t) /\ t.is = s.is /\ t.os = s.os
             /\ t.pair = s.pair \ {x}
             /\ \A f : InLoop(t, f) <=> InLoop(s, f) /\ f # x
<1>0. LoopOK(s, X, M) BY DEF Loop
<1> DEFINE u == [s EXCEPT !.pair = @ \ {x}]
           t == nxe_disconnect_streams(s, x)
           q == s.events
<1>1. DOMAIN u = DOMAIN s /\ u.events = q BY <1>0 DEF LoopOK, LoopFields
<1>2. t = IF InLoop(u, x) THEN nxe_unlink(u, x) ELSE u BY DEF nxe_disconnect_streams
<1>3. LoopOK(t, X, M) /\ Frame(s, t) /\ t.pair = s.pair \ {x} /\ t.is = s.is /\ t.os = s.os
  BY <1>0, DisconnectKeeps
<1>4. q \in Seq(X \cup M) /\ Once(q, X) /\ Ranked(q, rank) /\ "events" \in DOMAIN u
  BY <1>0, <1>1 DEF Loop, LoopOK, LoopFields
<1> HIDE DEF u, t
<1>5. Ranked(t.events, rank) /\ \A f : InLoop(t, f) <=> InLoop(s, f) /\ f # x
  <2>1. CASE InLoop(u, x)
    <3> DEFINE k == CHOOSE j \in 1 .. Len(q) : q[j] = x
    <3>1. k \in 1 .. Len(q) /\ q[k] = x
      <4>1. \E j \in 1 .. Len(q) : q[j] = x BY <1>1, <2>1 DEF InLoop
      <4> QED BY <4>1
    <3>2. t.events = Cut(q, k) BY <1>1, <1>2, <1>4, <2>1 DEF nxe_unlink, Cut
    <3> HIDE DEF k, q
    <3>3. q[k] \in X BY <3>1
    <3>4. (\A f : In(Cut(q, k), f) <=> In(q, f) /\ f # q[k]) /\ Ranked(Cut(q, k), rank)
      BY <1>4, <3>1, <3>3, CutIn
    <3> QED BY <3>1, <3>2, <3>4 DEF InLoop, In, q
  <2>2. CASE ~ InLoop(u, x)
    <3>1. t = u BY <1>2, <2>2
    <3> QED BY <1>1, <1>4, <2>2, <3>1 DEF InLoop
  <2> QED BY <2>1, <2>2
<1>6. Loop(t, X, M, rank) BY <1>3, <1>5 DEF Loop
<1> QED BY <1>3, <1>5, <1>6 DEF t

LEMMA PublishIn ==
  ASSUME NEW X, NEW M, NEW rank, NEW s, Loop(s, X, M, rank), NEW m \in M,
         m \in DOMAIN rank => \A f \in DOMAIN rank : InLoop(s, f) => rank[f] < rank[m]
  PROVE  LET t == nxe_publish(s, m)
         IN  /\ Loop(t, X, M, rank) /\ Frame(s, t) /\ t.is = s.is /\ t.os = s.os /\ t.pair = s.pair
             /\ \A f : InLoop(t, f) <=> InLoop(s, f) \/ f = m
<1> DEFINE t == nxe_publish(s, m)
           q == s.events
<1>1. /\ t.events = Append(q, m) /\ DOMAIN t = DOMAIN s /\ t.pair = s.pair /\ t.is = s.is /\ t.os = s.os
      /\ t.tripped = s.tripped /\ \A f \in DOMAIN s \ LoopFields : t[f] = s[f]
  BY DEF nxe_publish, Loop, LoopOK, LoopFields
<1>2. /\ q \in Seq(X \cup M) /\ Once(q, X) /\ Within(q, X, s.pair) /\ m \in X \cup M /\ m \notin X
      /\ Ranked(q, rank) /\ \A f \in DOMAIN rank : rank[f] \in Int
  BY DEF Loop, LoopOK
<1> HIDE DEF t
<1>3. /\ (\A f : In(Append(q, m), f) <=> In(q, f) \/ f = m) /\ Ranked(Append(q, m), rank)
  <2>1. m \in DOMAIN rank => \A f \in DOMAIN rank : In(q, f) => rank[f] < rank[m] BY DEF InLoop, In
  <2> HIDE DEF q
  <2> QED BY <1>2, <2>1, AppendIn
<1>4. Append(q, m) \in Seq(X \cup M) /\ Once(Append(q, m), X) /\ Within(Append(q, m), X, s.pair)
  <2> HIDE DEF q
  <2> QED BY <1>2, MessageAppend
<1>5. LoopOK(t, X, M) BY <1>1, <1>4 DEF Loop, LoopOK
<1>6. Loop(t, X, M, rank) BY <1>1, <1>3, <1>5 DEF Loop
<1>7. \A f : InLoop(t, f) <=> InLoop(s, f) \/ f = m BY <1>1, <1>3 DEF InLoop, In
<1> QED BY <1>1, <1>6, <1>7 DEF t, Frame

(* The oldest event h is taken out.                                        *)
LEMMA PopIn ==
  ASSUME NEW X, NEW M, NEW rank, NEW s, Loop(s, X, M, rank), s.events # <<>>
  PROVE  LET h == Head(s.events)
             t == [s EXCEPT !.events = Tail(@)]
         IN  /\ Loop(t, X, M, rank) /\ Frame(s, t) /\ t.is = s.is /\ t.os = s.os /\ t.pair = s.pair
             /\ InLoop(s, h)
             /\ \A f : InLoop(t, f) => InLoop(s, f)
             /\ \A f : InLoop(s, f) => f = h \/ InLoop(t, f)
             /\ h \in X => ~ InLoop(t, h)
             /\ h \in DOMAIN rank => \A f \in DOMAIN rank : InLoop(t, f) => rank[h] < rank[f]
<1> DEFINE h == Head(s.events)
           t == [s EXCEPT !.events = Tail(@)]
           q == s.events
<1>1. /\ t.events = Tail(q) /\ DOMAIN t = DOMAIN s /\ t.pair = s.pair /\ t.is = s.is /\ t.os = s.os
      /\ t.tripped = s.tripped /\ \A f \in DOMAIN s \ LoopFields : t[f] = s[f]
  BY DEF Loop, LoopOK, LoopFields
<1>2. /\ q \in Seq(X \cup M) /\ Once(q, X) /\ Within(q, X, s.pair)
      /\ Ranked(q, rank) /\ q # <<>>
  BY DEF Loop, LoopOK
<1> HIDE DEF t
<1>3. h = Head(q) OBVIOUS
<1> HIDE DEF h, q
<1>4. Tail(q) \in Seq(X \cup M) /\ Once(Tail(q), X) /\ Within(Tail(q), X, s.pair)
  <2> DEFINE E == X \cup M
  <2>1. q \in Seq(E) BY <1>2
  <2> HIDE DEF E
  <2>2. Tail(q) \in Seq(E) /\ Once(Tail(q), X) /\ Within(Tail(q), X, s.pair)
    BY <1>2, <2>1, ListTail
  <2> QED BY <2>2 DEF E
<1>5. /\ In(q, h)
      /\ \A f : In(Tail(q), f) => In(q, f)
      /\ \A f : In(q, f) => f = h \/ In(Tail(q), f)
      /\ h \in X => ~ In(Tail(q), h)
      /\ Ranked(Tail(q), rank)
      /\ h \in DOMAIN rank => \A f \in DOMAIN rank : In(Tail(q), f) => rank[h] < rank[f]
  BY <1>2, <1>3, TailIn
<1>6. LoopOK(t, X, M) BY <1>1, <1>4 DEF Loop, LoopOK
<1>7. Loop(t, X, M, rank) BY <1>1, <1>5, <1>6 DEF Loop
<1>8. (\A f : InLoop(t, f) <=> In(Tail(q), f)) /\ \A f : InLoop(s, f) <=> In(q, f)
  BY <1>1 DEF InLoop, In, q
<1>9. Frame(s, t) BY <1>1 DEF Frame
<1>10. /\ InLoop(s, h)
       /\ \A f : InLoop(t, f) => InLoop(s, f)
       /\ \A f : InLoop(s, f) => f = h \/ InLoop(t, f)
       /\ h \in X => ~ InLoop(t, h)
       /\ h \in DOMAIN rank => \A f \in DOMAIN rank : InLoop(t, f) => rank[h] < rank[f]
  BY <1>5, <1>8
<1> QED BY ONLY <1>1, <1>7, <1>9, <1>10 DEF t, h

(* Messages without a rank are appended.                                   *)
LEMMA ProcessTimersIn ==
  ASSUME NEW X, NEW M, NEW rank, NEW s, Loop(s, X, M, rank), NEW m \in M, m \notin DOMAIN rank,
         IsFiniteSet(s.expired), {"timers", "expired"} \subseteq DOMAIN s
  PROVE  LET t == nxe_process_timers(s, m)
         IN  /\ Loop(t, X, M, rank) /\ t.is = s.is /\ t.os = s.os /\ t.pair = s.pair
             /\ DOMAIN t = DOMAIN s /\ t.timers = s.timers \ s.expired /\ t.expired = {}
             /\ \A f \in DOMAIN s \ (LoopFields \cup {"timers", "expired"}) : t[f] = s[f]
             /\ \A f : InLoop(t, f) <=> InLoop(s, f) \/ (f = m /\ s.expired # {})
<1> DEFINE t == nxe_process_timers(s, m)
           q == s.events
           n == Cardinality(s.expired)
           b == [i \in 1 .. n |-> m]
           r == q \o b
<1>1. /\ t.events = r /\ DOMAIN t = DOMAIN s /\ t.pair = s.pair /\ t.is = s.is /\ t.os = s.os
      /\ t.tripped = s.tripped /\ t.timers = s.timers \ s.expired /\ t.expired = {}
      /\ \A f \in DOMAIN s \ (LoopFields \cup {"timers", "expired"}) : t[f] = s[f]
  BY DEF nxe_process_timers, Loop, LoopOK, LoopFields
<1>2. /\ q \in Seq(X \cup M) /\ Once(q, X) /\ Within(q, X, s.pair) /\ Ranked(q, rank) /\ m \notin X
  BY DEF Loop, LoopOK
<1>3. n \in Nat /\ (n = 0 <=> s.expired = {}) BY FS_CardinalityType, FS_EmptySet
<1> HIDE DEF t, n
<1>4. b \in Seq(X \cup M) /\ Len(b) = n /\ \A i \in 1 .. n : b[i] = m
  <2>1. DOMAIN b = 1 .. n /\ \A i \in 1 .. n : b[i] \in X \cup M OBVIOUS
  <2>2. b \in [1 .. n -> X \cup M] OBVIOUS
  <2>3. b \in Seq(X \cup M) BY <1>3, <2>2
  <2>4. Len(b) = n BY <1>3, <2>3, LenProperties
  <2> QED BY <2>3, <2>4
<1> HIDE DEF b, q
<1>5. /\ r \in Seq(X \cup M) /\ Len(r) = Len(q) + n /\ Len(q) \in Nat
      /\ \A i \in 1 .. Len(q) + n : r[i] = IF i <= Len(q) THEN q[i] ELSE m
  <2>1. /\ r \in Seq(X \cup M) /\ Len(r) = Len(q) + Len(b)
        /\ \A i \in 1 .. Len(q) + Len(b) : r[i] = IF i <= Len(q) THEN q[i] ELSE b[i - Len(q)]
    BY <1>2, <1>4, ConcatProperties
  <2>2. Len(q) \in Nat BY <1>2, LenProperties
  <2> HIDE DEF r
  <2>3. \A i \in 1 .. Len(q) + n : ~ (i <= Len(q)) => i - Len(q) \in 1 .. n BY <1>3, <2>2
  <2> QED BY <1>4, <2>1, <2>2, <2>3
<1> HIDE DEF r
<1>6. \A i \in 1 .. Len(r) : \/ i \in 1 .. Len(q) /\ r[i] = q[i]
                             \/ i \notin 1 .. Len(q) /\ r[i] = m /\ n # 0
  BY <1>3, <1>5
<1>7. \A f : In(r, f) <=> In(q, f) \/ (f = m /\ n # 0)
  <2> TAKE f
  <2>1. ASSUME In(q, f) PROVE In(r, f)
    <3>1. PICK i \in 1 .. Len(q) : q[i] = f BY <2>1 DEF In
    <3>2. i \in 1 .. Len(r) /\ r[i] = f BY <1>3, <1>5, <3>1
    <3> QED BY <3>2 DEF In
  <2>2. ASSUME n # 0 PROVE In(r, m)
    <3>1. Len(q) + 1 \in 1 .. Len(r) /\ ~ (Len(q) + 1 <= Len(q)) BY <1>3, <1>5, <2>2
    <3>2. r[Len(q) + 1] = m BY <1>5, <3>1
    <3> QED BY <3>1, <3>2 DEF In
  <2>3. ASSUME In(r, f) PROVE In(q, f) \/ (f = m /\ n # 0)
    <3>1. PICK i \in 1 .. Len(r) : r[i] = f BY <2>3 DEF In
    <3> QED BY <1>6, <3>1 DEF In
  <2> QED BY <2>1, <2>2, <2>3
<1>8. Once(r, X) /\ Within(r, X, s.pair)
  <2>1. \A i \in 1 .. Len(r) : r[i] \in X => i \in 1 .. Len(q) /\ r[i] = q[i] BY <1>2, <1>6
  <2> QED BY <1>2, <2>1 DEF Once, Within
<1>9. Ranked(r, rank)
  <2>1. \A i \in 1 .. Len(r) : r[i] \in DOMAIN rank => i \in 1 .. Len(q) /\ r[i] = q[i] BY <1>6
  <2> QED BY <1>2, <2>1 DEF Ranked
<1>10. LoopOK(t, X, M) BY <1>1, <1>5, <1>8 DEF Loop, LoopOK
<1>11. Loop(t, X, M, rank) BY <1>1, <1>9, <1>10 DEF Loop
<1>12. \A f : InLoop(t, f) <=> InLoop(s, f) \/ (f = m /\ s.expired # {})
  BY <1>1, <1>3, <1>7 DEF InLoop, In, q
<1> QED BY ONLY <1>1, <1>11, <1>12 DEF t

(* Counting the members up to each numbers those of a set of places.       *)
Place(K) == [i \in K |-> Cardinality({j \in K : j <= i})]

LEMMA Places ==
  ASSUME NEW n \in Nat, NEW K \in SUBSET (1 .. n)
  PROVE  /\ IsFiniteSet(K) /\ Cardinality(K) \in Nat
         /\ \A i \in K : Place(K)[i] \in 1 .. Cardinality(K)
         /\ \A k \in 1 .. Cardinality(K) : \E i \in K : Place(K)[i] = k
         /\ \A i, j \in K : i < j => Place(K)[i] < Place(K)[j]
<1> DEFINE upto(i) == {j \in K : j <= i}
<1>1. IsFiniteSet(K) /\ Cardinality(K) \in Nat
  <2>1. IsFiniteSet(1 .. n) BY FS_Interval
  <2>2. IsFiniteSet(K) BY <2>1, FS_Subset
  <2> QED BY <2>2, FS_CardinalityType
<1>2. ASSUME NEW i \in K
      PROVE  IsFiniteSet(upto(i)) /\ Cardinality(upto(i)) \in 1 .. Cardinality(K)
  <2>1. /\ IsFiniteSet(upto(i)) /\ Cardinality(upto(i)) <= Cardinality(K)
        /\ Cardinality(upto(i)) \in Nat
    BY <1>1, FS_Subset, FS_CardinalityType
  <2>2. i \in upto(i) OBVIOUS
  <2>3. Cardinality(upto(i)) # 0 BY <2>1, <2>2, FS_EmptySet
  <2> QED BY <1>1, <2>1, <2>3
<1>3. ASSUME NEW i \in K, NEW j \in K, i < j PROVE Cardinality(upto(i)) < Cardinality(upto(j))
  <2>1. upto(i) \subseteq upto(j) /\ j \in upto(j) /\ j \notin upto(i)
    <3>1. i \in Nat /\ j \in Nat /\ ~ (j <= i) /\ j <= j BY <1>3
    <3>2. ASSUME NEW k \in upto(i) PROVE k \in upto(j)
      <4>1. k \in K /\ k \in Nat /\ k <= i OBVIOUS
      <4> QED BY <1>3, <3>1, <4>1
    <3> QED BY <3>1, <3>2
  <2>2. IsFiniteSet(upto(j)) BY <1>2
  <2>3. Cardinality(upto(i)) <= Cardinality(upto(j)) /\ Cardinality(upto(i)) # Cardinality(upto(j))
    BY <2>1, <2>2, FS_Subset
  <2>4. Cardinality(upto(i)) \in Nat /\ Cardinality(upto(j)) \in Nat BY <1>1, <1>2
  <2> QED BY <2>3, <2>4
<1>4. Place(K) \in [K -> 1 .. Cardinality(K)] BY <1>2 DEF Place
<1>5. \A i, j \in K : i < j => Place(K)[i] < Place(K)[j] BY <1>3 DEF Place
<1>6. \A i, j \in K : Place(K)[i] = Place(K)[j] => i = j
  <2> SUFFICES ASSUME NEW i \in K, NEW j \in K, Place(K)[i] = Place(K)[j] PROVE i = j OBVIOUS
  <2>1. i \in Nat /\ j \in Nat /\ Place(K)[i] \in Nat /\ Place(K)[j] \in Nat BY <1>1, <1>4
  <2>2. ~ (i < j) /\ ~ (j < i) BY <1>5, <2>1
  <2> QED BY <2>1, <2>2
<1>7. Place(K) \in Injection(K, 1 .. Cardinality(K)) BY <1>4, <1>6, Fun_IsInj
<1>8. IsFiniteSet(1 .. Cardinality(K)) /\ Cardinality(1 .. Cardinality(K)) = Cardinality(K)
  BY <1>1, FS_Interval
<1>9. Place(K) \in Surjection(K, 1 .. Cardinality(K)) BY <1>7, <1>8, FS_Injection
<1>10. \A k \in 1 .. Cardinality(K) : \E i \in K : Place(K)[i] = k
  BY <1>9, Fun_SurjectionProperties
<1>11. \A i \in K : Place(K)[i] \in 1 .. Cardinality(K) BY <1>4
<1> QED BY <1>1, <1>5, <1>10, <1>11

(* Among places there is a first one.                                      *)
LEMMA FirstPlace ==
  ASSUME NEW n \in Nat, NEW K \in SUBSET (1 .. n), K # {}
  PROVE  \E i \in K : \A j \in K : i <= j
<1> DEFINE place == Place(K)
           m == Cardinality(K)
<1>1. /\ m \in Nat /\ \A i \in K : place[i] \in 1 .. m
      /\ \A k \in 1 .. m : \E i \in K : place[i] = k
      /\ \A i, j \in K : i < j => place[i] < place[j]
  BY Places
<1> HIDE DEF place, m
<1>2. 1 \in 1 .. m
  <2>1. PICK i \in K : TRUE OBVIOUS
  <2>2. place[i] \in 1 .. m BY <1>1, <2>1
  <2> QED BY <1>1, <2>2
<1>3. PICK i \in K : place[i] = 1 BY <1>1, <1>2
<1>4. ASSUME NEW j \in K PROVE i <= j
  <2>1. i \in Nat /\ j \in Nat /\ place[j] \in 1 .. m BY <1>1
  <2>2. ~ (j < i) BY <1>1, <1>3, <2>1
  <2> QED BY <2>1, <2>2
<1> QED BY <1>4

LEMMA UnsubscribeIn ==
  ASSUME NEW X, NEW M, NEW rank, NEW s, Loop(s, X, M, rank), NEW N
  PROVE  LET t == nxe_unsubscribe(s, N)
         IN  /\ Loop(t, X, M, rank) /\ Frame(s, t) /\ t.is = s.is /\ t.os = s.os /\ t.pair = s.pair
             /\ \A f : InLoop(t, f) <=> InLoop(s, f) /\ f \notin N
<1> DEFINE t == nxe_unsubscribe(s, N)
           q == s.events
           stays == {i \in 1 .. Len(q) : q[i] \notin N}
           n == Cardinality(stays)
           place == Place(stays)
           at(k) == CHOOSE i \in stays : place[i] = k
           r == [k \in 1 .. n |-> q[at(k)]]
<1>1. /\ t.events = r /\ DOMAIN t = DOMAIN s /\ t.pair = s.pair /\ t.is = s.is /\ t.os = s.os
      /\ t.tripped = s.tripped /\ \A f \in DOMAIN s \ LoopFields : t[f] = s[f]
  BY DEF nxe_unsubscribe, Loop, LoopOK, LoopFields, Place
<1>2. q \in Seq(X \cup M) /\ Once(q, X) /\ Within(q, X, s.pair) /\ Ranked(q, rank) BY DEF Loop, LoopOK
<1>3. Len(q) \in Nat /\ \A i \in 1 .. Len(q) : q[i] \in X \cup M BY <1>2, LenProperties, ElementOfSeq
<1>4. /\ n \in Nat /\ \A i \in stays : place[i] \in 1 .. n
      /\ \A k \in 1 .. n : \E i \in stays : place[i] = k
      /\ \A i, j \in stays : i < j => place[i] < place[j]
  <2>1. stays \in SUBSET (1 .. Len(q)) OBVIOUS
  <2> HIDE DEF stays
  <2> QED BY <1>3, <2>1, Places
<1> HIDE DEF t, n, place
<1>5. \A k \in 1 .. n : at(k) \in stays /\ place[at(k)] = k BY <1>4
<1>6. \A k \in 1 .. n : r[k] = q[at(k)] OBVIOUS
<1>7. r \in Seq(X \cup M) /\ Len(r) = n
  <2>1. r \in [1 .. n -> X \cup M]
    <3> HIDE DEF at
    <3> QED BY <1>3, <1>5
  <2> HIDE DEF r
  <2>2. r \in Seq(X \cup M) BY <1>4, <2>1
  <2>3. DOMAIN r = 1 .. n BY <2>1
  <2> QED BY <1>4, <2>2, <2>3, LenProperties
<1> HIDE DEF r, at
<1>8. \A k, l \in 1 .. n : k < l => at(k) < at(l)
  <2> SUFFICES ASSUME NEW k \in 1 .. n, NEW l \in 1 .. n, k < l PROVE at(k) < at(l) OBVIOUS
  <2>1. at(k) \in Nat /\ at(l) \in Nat /\ at(k) \in stays /\ at(l) \in stays BY <1>3, <1>5
  <2>2. ~ (at(l) < at(k)) /\ at(l) # at(k)
    <3> HIDE DEF stays
    <3> QED BY <1>4, <1>5, <2>1
  <2> QED BY <2>1, <2>2
<1>9. \A k \in 1 .. n : at(k) \in 1 .. Len(q) /\ r[k] = q[at(k)] /\ r[k] \notin N BY <1>5, <1>6
<1>10. Once(r, X)
  <2> SUFFICES ASSUME NEW k \in 1 .. n, NEW l \in 1 .. n, r[k] = r[l], r[k] \in X PROVE k = l
    BY <1>7 DEF Once
  <2>1. at(k) = at(l) BY <1>2, <1>9 DEF Once
  <2>2. at(k) \in Nat BY <1>9
  <2>3. ~ (k < l) /\ ~ (l < k) BY <1>8, <2>1, <2>2
  <2> QED BY <1>4, <2>3
<1>11. Within(r, X, s.pair) BY <1>2, <1>7, <1>9 DEF Within
<1>12. Ranked(r, rank)
  <2> SUFFICES ASSUME NEW k \in 1 .. n, NEW l \in 1 .. n, k < l,
                      r[k] \in DOMAIN rank, r[l] \in DOMAIN rank
               PROVE  rank[r[k]] < rank[r[l]]
    BY <1>7 DEF Ranked
  <2>1. at(k) < at(l) BY <1>8
  <2> QED BY <1>2, <1>9, <2>1 DEF Ranked
<1>13. \A f : In(r, f) <=> In(q, f) /\ f \notin N
  <2> TAKE f
  <2>1. ASSUME In(r, f) PROVE In(q, f) /\ f \notin N
    <3>1. PICK k \in 1 .. n : r[k] = f BY <1>7, <2>1 DEF In
    <3> QED BY <1>9, <3>1 DEF In
  <2>2. ASSUME In(q, f), f \notin N PROVE In(r, f)
    <3>1. PICK i \in 1 .. Len(q) : q[i] = f BY <2>2 DEF In
    <3>2. i \in stays BY <2>2, <3>1
    <3> DEFINE k == place[i]
    <3>3. k \in 1 .. n BY <1>4, <3>2
    <3>4. at(k) = i
      <4>1. at(k) \in stays /\ place[at(k)] = place[i] BY <1>5, <3>3
      <4>2. at(k) \in Nat /\ i \in Nat BY <1>3, <3>2, <4>1
      <4>3. place[i] \in Int BY <3>3
      <4> DEFINE j == at(k)
      <4> HIDE DEF stays, k, j
      <4>4. ASSUME j < i PROVE FALSE
        <5>1. place[j] < place[i] BY <1>4, <3>2, <4>1, <4>4 DEF j
        <5> QED BY <4>1, <4>3, <5>1 DEF j
      <4>5. ASSUME i < j PROVE FALSE
        <5>1. place[i] < place[j] BY <1>4, <3>2, <4>1, <4>5 DEF j
        <5> QED BY <4>1, <4>3, <5>1 DEF j
      <4> QED BY <4>2, <4>4, <4>5 DEF j
    <3>5. r[k] = f BY <1>9, <3>1, <3>3, <3>4
    <3> QED BY <1>7, <3>3, <3>5 DEF In
  <2> QED BY <2>1, <2>2
<1>14. LoopOK(t, X, M) BY <1>1, <1>7, <1>10, <1>11 DEF Loop, LoopOK
<1>15. Loop(t, X, M, rank) BY <1>1, <1>12, <1>14 DEF Loop
<1>16. \A f : InLoop(t, f) <=> InLoop(s, f) /\ f \notin N
  BY <1>1, <1>13 DEF InLoop, In, q
<1>17. Frame(s, t) BY <1>1 DEF Frame
<1> QED BY ONLY <1>1, <1>15, <1>16, <1>17 DEF t
=============================================================================
