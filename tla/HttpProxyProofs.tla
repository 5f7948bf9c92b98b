--------------------------- MODULE HttpProxyProofs ---------------------------
(***************************************************************************)
(* Proofs about HttpProxy: the body of a request goes to one backend only, *)
(* and a request to a backend never waits for nothing.                     *)
(***************************************************************************)
EXTENDS HttpProxy, EventOpsProofs

-----------------------------------------------------------------------------
(* The inductive invariant.                                                *)

Messages == HcpMessages \cup SockMessages
Events == Streams \cup Messages \cup ClientMessages

Fields == {"state", "headers", "sending", "wait100", "all", "done", "queued", "nxb", "head",
           "resp", "received", "chunk", "wire", "rdclosed", "room", "edge", "asked", "fwd",
           "owed", "said100", "toend", "pend",
           "events", "timers", "expired", "pair", "is", "os", "tripped", "place", "conn",
           "no", "method", "size", "left", "retry", "started", "complete", "error",
           "rb_req", "eof_req", "rb_resp", "eof_resp", "via", "bodies"}

Typed(s) ==
  /\ DOMAIN s = Fields
  /\ s.events \in Seq(Events) /\ s.pair \in SUBSET Streams
  /\ s.is \in [Streams -> BOOLEAN] /\ s.os \in [Streams -> BOOLEAN]
  /\ s.timers \in SUBSET Timers /\ s.expired \in SUBSET s.timers
  /\ s.room \in Nat /\ s.rb_req \in Nat

(* An error is in the list, and the end of the request is not before it.   *)
Sure(q) == \E i \in 1 .. Len(q) : q[i] = "error" /\ \A j \in 1 .. i - 1 : q[j] # "client"

(* The body of the request has gone to this backend connection, if to any. *)
BodyInv(s) == s.bodies \in {0, 1} /\ (s.bodies = 1 => s.fwd /\ s.sending)

(* The request and the place of the backend connection fit.                *)
PlaceInv(s) ==
  /\ s.place \in {"none", "used", "pool"} /\ s.conn \in {"idle", "receiving", "handling", "sending"}
  /\ s.conn = "idle" => s.place # "used" /\ s.via = "none" /\ s.bodies = 0 /\ ~ In(s.events, "client")
  /\ s.conn \in {"receiving", "handling"} =>
       s.via = "none" /\ ~ s.started /\ (s.place = "used" \/ s.retry > 0)
  /\ s.retry \in Nat
  /\ s.place = "pool" => s.conn = "idle"
  /\ s.via = "backend" => s.place = "used" /\ s.started
  /\ "backend" \in s.timers => s.place = "used"

(* Nothing is left of a backend connection that is not there.              *)
NoneInv(s) ==
  /\ s.state = "CONNECTING" /\ s.pair = {} /\ s.edge = {} /\ s.timers = {} /\ s.pend = <<>>
  /\ \A m \in HcpMessages \cup SockMessages : ~ In(s.events, m)

(* A backend connection is watched by its timer, or an error is on its     *)
(* way, or the handler has done with it.  In use and idle without its      *)
(* timer, it will not be kept: the handler learns of the error before it   *)
(* gives the connection back.                                              *)
WatchInv(s) ==
  /\ \/ StateTimer(s) \in s.timers \/ In(s.events, "error")
     \/ s.place = "used" /\ s.complete
  /\ s.place = "used" /\ s.state = "IDLE" /\ "keep_alive" \notin s.timers =>
       s.error \/ Sure(s.events)

(* The flags that tell the states of the protocol apart.                   *)
StateInv(s) ==
  /\ s.wait100 => s.state \in {"WAITING_FOR_RESPONSE", "RECEIVING_HEADERS"}
  /\ s.os["req"] => s.state = "SENDING_BODY"
  /\ s.place = "pool" => s.state = "IDLE"

(* Every stream that could move is in the list, but for the one being      *)
(* delivered.  data_out_do_write makes req_body_in ready without linking   *)
(* it: it calls the ring itself as long as "out" moves.                    *)
FlowInv(s, x) ==
  \A y \in Streams \ {x} :
    Flowing(s, y) => In(s.events, y) \/ (y = "req" /\ Flowing(s, "out"))

ConnInv(s, x) == WatchInv(s) /\ StateInv(s) /\ FlowInv(s, x)

Inv(s, x) ==
  /\ Typed(s) /\ BodyInv(s) /\ PlaceInv(s)
  /\ IF s.place = "none" THEN NoneInv(s) ELSE ConnInv(s, x)

ProxyInv == Inv(p, cur) /\ cur \in Streams \cup {"none"}

-----------------------------------------------------------------------------
(* Lists.                                                                  *)

Later(q, r) == Len(q) <= Len(r) /\ \A i \in 1 .. Len(q) : r[i] = q[i]

LEMMA LaterHolds ==
  ASSUME NEW E, NEW q \in Seq(E), NEW r \in Seq(E), Later(q, r)
  PROVE  (\A f : In(q, f) => In(r, f)) /\ (Sure(q) => Sure(r))
<1>1. Len(q) \in Nat /\ Len(r) \in Nat BY LenProperties
<1>2. \A i \in 1 .. Len(q) : i \in 1 .. Len(r) /\ r[i] = q[i] BY <1>1 DEF Later
<1>3. \A f : In(q, f) => In(r, f) BY <1>2 DEF In
<1>4. ASSUME Sure(q) PROVE Sure(r)
  <2>1. PICK i \in 1 .. Len(q) : q[i] = "error" /\ \A j \in 1 .. i - 1 : q[j] # "client"
    BY <1>4 DEF Sure
  <2>2. \A j \in 1 .. i - 1 : j \in 1 .. Len(q) BY <1>1
  <2>3. i \in 1 .. Len(r) /\ r[i] = "error" /\ \A j \in 1 .. i - 1 : r[j] # "client"
    BY <1>2, <2>1, <2>2
  <2> QED BY <2>3 DEF Sure
<1> QED BY <1>3, <1>4

LEMMA LaterTransitive ==
  ASSUME NEW E, NEW q \in Seq(E), NEW r \in Seq(E), NEW u \in Seq(E), Later(q, r), Later(r, u)
  PROVE  Later(q, u)
<1>1. Len(q) \in Nat /\ Len(r) \in Nat /\ Len(u) \in Nat BY LenProperties
<1>2. \A i \in 1 .. Len(q) : i \in 1 .. Len(r) /\ r[i] = q[i] BY <1>1 DEF Later
<1> QED BY <1>1, <1>2 DEF Later

LEMMA LaterReflexive == ASSUME NEW E, NEW q \in Seq(E) PROVE Later(q, q)
<1>1. Len(q) \in Nat BY LenProperties
<1> QED BY <1>1 DEF Later

LEMMA Appended ==
  ASSUME NEW E, NEW q \in Seq(E), NEW e \in E
  PROVE  /\ Append(q, e) \in Seq(E) /\ Later(q, Append(q, e))
         /\ \A f : In(Append(q, e), f) <=> In(q, f) \/ f = e
         /\ e = "error" /\ ~ In(q, "client") => Sure(Append(q, e))
<1> DEFINE r == Append(q, e)
           n == Len(q)
<1>1. /\ r \in Seq(E) /\ Len(r) = n + 1 /\ n \in Nat /\ r[n + 1] = e
      /\ \A i \in 1 .. n : r[i] = q[i]
  BY AppendProperties, LenProperties
<1> HIDE DEF r
<1>2. Later(q, r) BY <1>1 DEF Later
<1>3. \A i \in 1 .. n + 1 : i \in 1 .. n \/ i = n + 1 BY <1>1
<1>4. \A f : In(r, f) <=> In(q, f) \/ f = e
  <2> TAKE f
  <2>1. In(r, f) => In(q, f) \/ f = e BY <1>1, <1>3 DEF In
  <2>2. f = e => In(r, f)
    <3>1. n + 1 \in 1 .. Len(r) BY <1>1
    <3> QED BY <1>1, <3>1 DEF In
  <2>3. In(q, f) => In(r, f) BY <1>1, <1>2, LaterHolds
  <2> QED BY <2>1, <2>2, <2>3
<1>5. ASSUME e = "error", ~ In(q, "client") PROVE Sure(r)
  <2>1. n + 1 \in 1 .. Len(r) /\ \A j \in 1 .. n + 1 - 1 : j \in 1 .. n BY <1>1
  <2>2. \A j \in 1 .. n : r[j] # "client" BY <1>1, <1>5 DEF In
  <2> QED BY <1>1, <1>5, <2>1, <2>2 DEF Sure
<1> QED BY <1>1, <1>2, <1>4, <1>5 DEF r

LEMMA Popping ==
  ASSUME NEW E, NEW q \in Seq(E), q # <<>>
  PROVE  /\ Tail(q) \in Seq(E) /\ In(q, Head(q)) /\ Head(q) \in E
         /\ \A f : In(Tail(q), f) => In(q, f)
         /\ \A f : In(q, f) => f = Head(q) \/ In(Tail(q), f)
         /\ Sure(q) => Head(q) = "error" \/ (Head(q) # "client" /\ Sure(Tail(q)))
<1> DEFINE r == Tail(q)
           h == Head(q)
           n == Len(q)
<1>1. /\ r \in Seq(E) /\ Len(r) = n - 1 /\ n \in Nat /\ n # 0 /\ h = q[1] /\ h \in E
      /\ \A i \in 1 .. n - 1 : r[i] = q[i + 1]
  BY HeadTailProperties, LenProperties, EmptySeq
<1>2. /\ In(q, h)
      /\ \A f : In(r, f) => In(q, f)
      /\ \A f : In(q, f) => f = h \/ In(r, f)
  <2> DEFINE none == [x \in {} |-> 0]
  <2>1. DOMAIN none = {} OBVIOUS
  <2> HIDE DEF none
  <2>2. Once(q, {}) /\ Ranked(q, none) BY <2>1 DEF Once, Ranked
  <2> QED BY <2>2, TailIn
<1> HIDE DEF r, h
<1>3. ASSUME Sure(q), h # "error" PROVE h # "client" /\ Sure(r)
  <2>1. PICK i \in 1 .. n : q[i] = "error" /\ \A j \in 1 .. i - 1 : q[j] # "client"
    BY <1>3 DEF Sure
  <2>2. i # 1 /\ i \in Nat BY <1>1, <1>3, <2>1
  <2>3. 1 \in 1 .. i - 1 /\ i - 1 \in 1 .. n - 1 /\ i - 1 + 1 = i BY <1>1, <2>2
  <2>4. h # "client" BY <1>1, <2>1, <2>3
  <2>5. r[i - 1] = "error" BY <1>1, <2>1, <2>3
  <2>6. \A j \in 1 .. i - 1 - 1 : j \in 1 .. n - 1 /\ j + 1 \in 1 .. i - 1 BY <1>1, <2>2
  <2>7. \A j \in 1 .. i - 1 - 1 : r[j] # "client" BY <1>1, <2>1, <2>6
  <2> QED BY <1>1, <2>3, <2>4, <2>5, <2>7 DEF Sure
<1> QED BY <1>1, <1>2, <1>3 DEF r, h

(* The list of a loop without streams, for what holds of any list.         *)
LEMMA Unsubscribing ==
  ASSUME NEW E, NEW s, "events" \in DOMAIN s, s.events \in Seq(E), NEW N
  PROVE  LET t == nxe_unsubscribe(s, N)
         IN  /\ DOMAIN t = DOMAIN s /\ \A f \in DOMAIN s \ {"events"} : t[f] = s[f]
             /\ t.events \in Seq(E) /\ \A f : In(t.events, f) <=> In(s.events, f) /\ f \notin N
<1> DEFINE none == [x \in {} |-> TRUE]
           u == [events |-> s.events, is |-> none, os |-> none, pair |-> {}, tripped |-> FALSE]
           t == nxe_unsubscribe(s, N)
           v == nxe_unsubscribe(u, N)
           q == s.events
           stays(w) == {i \in 1 .. Len(w) : w[i] \notin N}
           place(w) == [i \in stays(w) |-> Cardinality({j \in stays(w) : j <= i})]
           left(w) == [k \in 1 .. Cardinality(stays(w)) |-> w[CHOOSE i \in stays(w) : place(w)[i] = k]]
           r == left(q)
<1>1. u.events = q /\ "events" \in DOMAIN u OBVIOUS
<1>2. t = [s EXCEPT !.events = r] /\ v = [u EXCEPT !.events = r]
  <2>1. t = [s EXCEPT !.events = left(s.events)] BY DEF nxe_unsubscribe
  <2> HIDE DEF u
  <2>2. v = [u EXCEPT !.events = left(u.events)] BY DEF nxe_unsubscribe
  <2> HIDE DEF left
  <2> QED BY <1>1, <2>1, <2>2
<1>3. Loop(u, {}, E, none)
  <2>1. DOMAIN none = {} /\ none \in [{} -> BOOLEAN] OBVIOUS
  <2>2. /\ LoopFields \subseteq DOMAIN u /\ u.is = none /\ u.os = none /\ u.pair = {}
        /\ u.tripped = FALSE
    BY DEF LoopFields
  <2> HIDE DEF none, u
  <2>3. u.events \in Seq({} \cup E) BY <1>1
  <2>4. Once(u.events, {}) /\ Within(u.events, {}, {}) /\ Ranked(u.events, none)
    BY <2>1 DEF Once, Within, Ranked
  <2> QED BY <2>1, <2>2, <2>3, <2>4 DEF Loop, LoopOK
<1> HIDE DEF u, none
<1>4. Loop(v, {}, E, none) /\ \A f : InLoop(v, f) <=> InLoop(u, f) /\ f \notin N
  BY <1>3, UnsubscribeIn
<1>5. v.events \in Seq(E) /\ \A f : In(v.events, f) <=> In(q, f) /\ f \notin N
  <2>1. v.events \in Seq({} \cup E) BY <1>4 DEF Loop, LoopOK
  <2>2. {} \cup E = E OBVIOUS
  <2> QED BY <1>1, <1>4, <2>1, <2>2 DEF InLoop, In
<1> HIDE DEF r, t, v
<1>6. v.events = r /\ t.events = r /\ DOMAIN t = DOMAIN s /\ \A f \in DOMAIN s \ {"events"} : t[f] = s[f]
  BY <1>1, <1>2
<1> QED BY <1>5, <1>6 DEF t

-----------------------------------------------------------------------------
(* Calls on streams and timers, and changes of data.                       *)

SameRequest(s, t) ==
  /\ t.place = s.place /\ t.conn = s.conn /\ t.via = s.via /\ t.started = s.started
  /\ t.complete = s.complete /\ t.error = s.error /\ t.edge = s.edge /\ t.pair = s.pair
  /\ t.retry = s.retry
SameState(s, t) ==
  /\ t.state = s.state /\ t.wait100 = s.wait100 /\ t.sending = s.sending
  /\ t.fwd = s.fwd /\ t.bodies = s.bodies /\ t.rb_req = s.rb_req
SameBody(s, t) == SameState(s, t) /\ t.room = s.room
SameTimers(s, t) == t.timers = s.timers /\ t.expired = s.expired
SameStreams(s, t) == t.is = s.is /\ t.os = s.os

(* What every call keeps, on the connection and in the list.               *)
Kept(s, t) ==
  /\ Typed(t) /\ SameRequest(s, t) /\ Later(s.events, t.events)
  /\ In(t.events, "client") => In(s.events, "client")
KeepsFlow(s, t) == (\A x : FlowInv(s, x) => FlowInv(t, x)) /\ (t.os["req"] => s.os["req"])
Calm(s, t) == Kept(s, t) /\ KeepsFlow(s, t)

LEMMA CalmTransitive ==
  ASSUME NEW s, NEW t, NEW u, Typed(s), Calm(s, t), Calm(t, u) PROVE Calm(s, u)
<1>1. Later(s.events, u.events) BY LaterTransitive DEF Calm, Kept, Typed
<1> QED BY <1>1 DEF Calm, Kept, KeepsFlow, SameRequest

LEMMA CalmReflexive == ASSUME NEW s, Typed(s) PROVE Calm(s, s)
<1>1. Later(s.events, s.events) BY LaterReflexive DEF Typed
<1> QED BY <1>1 DEF Calm, Kept, KeepsFlow, SameRequest

LEMMA NowInLoop ==
  ASSUME NEW s, NEW t, Typed(s), Kept(s, t), NEW f, In(s.events, f) PROVE In(t.events, f)
BY LaterHolds DEF Typed, Kept

(* Streams that move after a call moved before, or were linked.            *)
LEMMA FlowKept ==
  ASSUME NEW s, NEW t, Typed(s), Kept(s, t),
         \A y \in Streams : Flowing(t, y) => Flowing(s, y) \/ In(t.events, y),
         Flowing(s, "out") => Flowing(t, "out") \/ ~ Flowing(t, "req"),
         t.os["req"] => s.os["req"]
  PROVE  Calm(s, t)
<1>1. ASSUME NEW x, FlowInv(s, x), NEW y \in Streams \ {x}, Flowing(t, y)
      PROVE  In(t.events, y) \/ (y = "req" /\ Flowing(t, "out"))
  <2>1. CASE In(t.events, y) BY <2>1
  <2>2. CASE Flowing(s, y)
    <3>1. In(s.events, y) \/ (y = "req" /\ Flowing(s, "out")) BY <1>1, <2>2 DEF FlowInv
    <3> QED BY <1>1, <3>1, NowInLoop
  <2> QED BY <1>1, <2>1, <2>2
<1>2. \A x : FlowInv(s, x) => FlowInv(t, x) BY <1>1 DEF FlowInv
<1> QED BY <1>2 DEF Calm, KeepsFlow

(* Data that nothing here depends on.                                      *)
LEMMA DataChange ==
  ASSUME NEW s, NEW t, Typed(s), DOMAIN t = Fields, t.events = s.events,
         SameRequest(s, t), SameTimers(s, t), SameStreams(s, t), t.room \in Nat, t.rb_req \in Nat
  PROVE  Calm(s, t)
<1>1. Later(s.events, t.events) BY LaterReflexive DEF Typed
<1>2. Typed(t) BY DEF Typed, SameBody, SameState, SameRequest, SameTimers, SameStreams
<1>3. \A y : Flowing(t, y) <=> Flowing(s, y) BY DEF Flowing, SameStreams, SameRequest
<1> QED BY <1>1, <1>2, <1>3, FlowKept DEF Kept, SameStreams

LEMMA Publish ==
  ASSUME NEW s, Typed(s), NEW m \in Messages
  PROVE  LET t == nxe_publish(s, m)
         IN  /\ Calm(s, t) /\ SameBody(s, t) /\ SameTimers(s, t) /\ SameStreams(s, t)
             /\ In(t.events, m) /\ (m = "error" /\ ~ In(s.events, "client") => Sure(t.events))
             /\ \A f : In(t.events, f) <=> In(s.events, f) \/ f = m
<1> DEFINE t == nxe_publish(s, m)
<1>1. /\ DOMAIN t = Fields /\ t.events = Append(s.events, m)
      /\ SameRequest(s, t) /\ SameBody(s, t) /\ SameTimers(s, t) /\ SameStreams(s, t)
  BY DEF nxe_publish, Typed, Fields, SameRequest, SameBody, SameState, SameTimers, SameStreams
<1> HIDE DEF t
<1>2. /\ t.events \in Seq(Events) /\ Later(s.events, t.events)
      /\ \A f : In(t.events, f) <=> In(s.events, f) \/ f = m
      /\ m = "error" /\ ~ In(s.events, "client") => Sure(t.events)
  <2>1. m \in Events BY DEF Events
  <2> QED BY <1>1, <2>1, Appended DEF Typed
<1>C. m # "client" BY DEF Messages, HcpMessages, SockMessages
<1>3. Kept(s, t) BY <1>C, <1>1, <1>2 DEF Typed, Kept, SameBody, SameState, SameRequest, SameTimers, SameStreams
<1>4. \A y : Flowing(t, y) <=> Flowing(s, y) BY <1>1 DEF Flowing, SameStreams, SameRequest
<1>5. Calm(s, t) BY <1>1, <1>3, <1>4, FlowKept DEF SameStreams
<1> QED BY <1>1, <1>2, <1>5 DEF t

LEMMA Wakes ==
  ASSUME NEW s, Typed(s), NEW y \in Streams
  PROVE  LET t == Wake(s, y)
         IN  /\ Kept(s, t) /\ SameBody(s, t) /\ SameTimers(s, t) /\ SameStreams(s, t)
             /\ Flowing(s, y) => In(t.events, y)
             /\ \A m \in Messages : In(t.events, m) <=> In(s.events, m)
<1>0. y \notin Messages /\ y # "client" BY DEF Streams, Messages, HcpMessages, SockMessages
<1>1. CASE Flowing(s, y) /\ ~ InLoop(s, y)
  <2> DEFINE t == nxe_link(s, y)
  <2>1. Wake(s, y) = t BY <1>1 DEF Wake, Flowing
  <2>2. /\ DOMAIN t = Fields /\ t.events = Append(s.events, y)
        /\ SameRequest(s, t) /\ SameBody(s, t) /\ SameTimers(s, t) /\ SameStreams(s, t)
    BY DEF nxe_link, Typed, Fields, SameRequest, SameBody, SameState, SameTimers, SameStreams
  <2> HIDE DEF t
  <2>3. /\ t.events \in Seq(Events) /\ Later(s.events, t.events)
        /\ \A f : In(t.events, f) <=> In(s.events, f) \/ f = y
    <3>1. y \in Events BY DEF Events
    <3> QED BY <2>2, <3>1, Appended DEF Typed
  <2>4. Kept(s, t) BY <1>0, <2>2, <2>3 DEF Typed, Kept, SameBody, SameState, SameRequest, SameTimers, SameStreams
  <2> QED BY <1>0, <2>1, <2>2, <2>3, <2>4
<1>2. CASE ~ (Flowing(s, y) /\ ~ InLoop(s, y))
  <2>1. Wake(s, y) = s BY <1>2 DEF Wake, Flowing
  <2>2. Kept(s, s) BY CalmReflexive DEF Calm
  <2>3. Flowing(s, y) => In(s.events, y) BY <1>2 DEF InLoop, In
  <2> QED BY <2>1, <2>2, <2>3 DEF SameBody, SameState, SameTimers, SameStreams
<1> QED BY <1>1, <1>2

LEMMA SetInput ==
  ASSUME NEW s, Typed(s), NEW y \in Streams
  PROVE  LET t == nxe_istream_set_ready(s, y)
         IN  /\ Calm(s, t) /\ SameBody(s, t) /\ SameTimers(s, t)
             /\ t.os = s.os /\ t.is = [s.is EXCEPT ![y] = TRUE]
             /\ \A m \in Messages : In(t.events, m) <=> In(s.events, m)
<1>1. CASE s.is[y]
  <2>1. nxe_istream_set_ready(s, y) = s BY <1>1 DEF nxe_istream_set_ready
  <2>2. s.is = [s.is EXCEPT ![y] = TRUE] BY <1>1 DEF Typed
  <2> QED BY <2>1, <2>2, CalmReflexive DEF SameBody, SameState, SameTimers
<1>2. CASE ~ s.is[y]
  <2> DEFINE u == [s EXCEPT !.is[y] = TRUE]
             t == Wake(u, y)
  <2>1. nxe_istream_set_ready(s, y) = t BY <1>2 DEF nxe_istream_set_ready
  <2>2. /\ DOMAIN u = Fields /\ u.events = s.events /\ u.os = s.os
        /\ u.is = [s.is EXCEPT ![y] = TRUE]
        /\ SameRequest(s, u) /\ SameBody(s, u) /\ SameTimers(s, u)
    BY DEF Typed, Fields, SameRequest, SameBody, SameState, SameTimers
  <2> HIDE DEF u
  <2>3. Typed(u) BY <2>2 DEF Typed, SameBody, SameState, SameRequest, SameTimers
  <2>4. /\ Kept(u, t) /\ SameBody(u, t) /\ SameTimers(u, t) /\ SameStreams(u, t)
        /\ Flowing(u, y) => In(t.events, y)
        /\ \A m \in Messages : In(t.events, m) <=> In(u.events, m)
    BY <2>3, Wakes
  <2> HIDE DEF t
  <2>5. Kept(s, t) BY <2>2, <2>4 DEF Kept, SameRequest
  <2>6. SameBody(s, t) /\ SameTimers(s, t) /\ t.os = s.os /\ t.is = [s.is EXCEPT ![y] = TRUE]
    BY <2>2, <2>4 DEF SameBody, SameState, SameTimers, SameStreams
  <2>7. \A z \in Streams : Flowing(t, z) => Flowing(s, z) \/ In(t.events, z)
    BY <2>2, <2>4, <2>6 DEF Flowing, Kept, SameRequest, Typed, SameStreams
  <2>8. Flowing(s, "out") => Flowing(t, "out")
    BY <2>5, <2>6 DEF Flowing, Kept, SameRequest, Typed, Streams
  <2>9. Calm(s, t) BY <2>5, <2>6, <2>7, <2>8, FlowKept
  <2> QED BY <2>1, <2>2, <2>4, <2>6, <2>9
<1> QED BY <1>1, <1>2

LEMMA SetOutput ==
  ASSUME NEW s, Typed(s), NEW y \in Streams
  PROVE  LET t == nxe_ostream_set_ready(s, y)
         IN  /\ Kept(s, t) /\ SameBody(s, t) /\ SameTimers(s, t)
             /\ (\A x : FlowInv(s, x) => FlowInv(t, x))
             /\ y # "req" => Calm(s, t)
             /\ t.is = s.is /\ t.os = [s.os EXCEPT ![y] = TRUE]
             /\ \A m \in Messages : In(t.events, m) <=> In(s.events, m)
<1> DEFINE u == [s EXCEPT !.os[y] = TRUE]
           t == Wake(u, y)
<1>1. nxe_ostream_set_ready(s, y) = t BY DEF nxe_ostream_set_ready
<1>2. /\ DOMAIN u = Fields /\ u.events = s.events /\ u.is = s.is
      /\ u.os = [s.os EXCEPT ![y] = TRUE]
      /\ SameRequest(s, u) /\ SameBody(s, u) /\ SameTimers(s, u)
  BY DEF Typed, Fields, SameRequest, SameBody, SameState, SameTimers
<1> HIDE DEF u
<1>3. Typed(u) BY <1>2 DEF Typed, SameBody, SameState, SameRequest, SameTimers
<1>4. /\ Kept(u, t) /\ SameBody(u, t) /\ SameTimers(u, t) /\ SameStreams(u, t)
      /\ Flowing(u, y) => In(t.events, y)
      /\ \A m \in Messages : In(t.events, m) <=> In(u.events, m)
  BY <1>3, Wakes
<1> HIDE DEF t
<1>5. Kept(s, t) BY <1>2, <1>4 DEF Kept, SameRequest
<1>6. SameBody(s, t) /\ SameTimers(s, t) /\ t.is = s.is /\ t.os = [s.os EXCEPT ![y] = TRUE]
  BY <1>2, <1>4 DEF SameBody, SameState, SameTimers, SameStreams
<1>7. \A z \in Streams : Flowing(t, z) => Flowing(s, z) \/ In(t.events, z)
  BY <1>2, <1>4, <1>6 DEF Flowing, Kept, SameRequest, Typed, SameStreams
<1>8. Flowing(s, "out") => Flowing(t, "out")
  BY <1>5, <1>6 DEF Flowing, Kept, SameRequest, Typed, Streams
<1>9. y # "req" => Calm(s, t)
  <2>1. y # "req" => t.os["req"] = s.os["req"] BY <1>6 DEF Typed, Streams
  <2> QED BY <1>5, <1>7, <1>8, <2>1, FlowKept
<1>10. ASSUME NEW x, FlowInv(s, x) PROVE FlowInv(t, x)
  BY <1>5, <1>7, <1>8, <1>10, NowInLoop DEF FlowInv
<1> QED BY <1>1, <1>2, <1>4, <1>5, <1>6, <1>9, <1>10

(* The output stream may only be stopped when "req" does not rely on it.   *)
LEMMA UnsetInput ==
  ASSUME NEW s, Typed(s), NEW y \in Streams, y = "out" => ~ s.os["req"] \/ ~ s.is["req"] \/ "req" \notin s.pair
  PROVE  LET t == nxe_istream_unset_ready(s, y)
         IN  /\ Calm(s, t) /\ SameBody(s, t) /\ SameTimers(s, t)
             /\ t.os = s.os /\ t.is = [s.is EXCEPT ![y] = FALSE] /\ t.events = s.events
<1> DEFINE t == nxe_istream_unset_ready(s, y)
<1>1. /\ DOMAIN t = Fields /\ t.events = s.events /\ t.os = s.os
      /\ t.is = [s.is EXCEPT ![y] = FALSE]
      /\ SameRequest(s, t) /\ SameBody(s, t) /\ SameTimers(s, t)
  BY DEF nxe_istream_unset_ready, Typed, Fields, SameRequest, SameBody, SameState, SameTimers
<1> HIDE DEF t
<1>2. Typed(t) BY <1>1 DEF Typed, SameBody, SameState, SameRequest, SameTimers
<1>3. Kept(s, t) BY <1>1, <1>2, LaterReflexive DEF Kept, Typed
<1>4. \A z \in Streams : t.is[z] => s.is[z] BY <1>1 DEF Typed
<1>5. \A z \in Streams : Flowing(t, z) => Flowing(s, z) BY <1>1, <1>4 DEF Flowing, SameRequest
<1>6. Flowing(s, "out") => Flowing(t, "out") \/ ~ Flowing(t, "req")
  BY <1>1, <1>4 DEF Flowing, SameRequest, Typed, Streams
<1>7. Calm(s, t) BY <1>1, <1>3, <1>5, <1>6, FlowKept
<1> QED BY <1>1, <1>7 DEF t

LEMMA UnsetOutput ==
  ASSUME NEW s, Typed(s), NEW y \in Streams, y # "out"
  PROVE  LET t == nxe_ostream_unset_ready(s, y)
         IN  /\ Calm(s, t) /\ SameBody(s, t) /\ SameTimers(s, t)
             /\ t.is = s.is /\ t.os = [s.os EXCEPT ![y] = FALSE] /\ t.events = s.events
<1> DEFINE t == nxe_ostream_unset_ready(s, y)
<1>1. /\ DOMAIN t = Fields /\ t.events = s.events /\ t.is = s.is
      /\ t.os = [s.os EXCEPT ![y] = FALSE]
      /\ SameRequest(s, t) /\ SameBody(s, t) /\ SameTimers(s, t)
  BY DEF nxe_ostream_unset_ready, Typed, Fields, SameRequest, SameBody, SameState, SameTimers
<1> HIDE DEF t
<1>2. Typed(t) BY <1>1 DEF Typed, SameBody, SameState, SameRequest, SameTimers
<1>3. Kept(s, t) BY <1>1, <1>2, LaterReflexive DEF Kept, Typed
<1>4. \A z \in Streams : t.os[z] => s.os[z] BY <1>1 DEF Typed
<1>5. \A z \in Streams : Flowing(t, z) => Flowing(s, z) BY <1>1, <1>4 DEF Flowing, SameRequest
<1>6. Flowing(s, "out") => Flowing(t, "out")
  BY <1>1, <1>4 DEF Flowing, SameRequest, Typed, Streams
<1>7. t.os["req"] => s.os["req"] BY <1>4 DEF Streams
<1>8. Calm(s, t) BY <1>1, <1>3, <1>5, <1>6, <1>7, FlowKept
<1> QED BY <1>1, <1>8 DEF t

LEMMA SetTimer ==
  ASSUME NEW s, Typed(s), NEW m \in Timers
  PROVE  LET t == nxe_set_timer(s, m)
         IN  /\ Calm(s, t) /\ SameBody(s, t) /\ SameStreams(s, t) /\ t.events = s.events
             /\ t.timers = s.timers \cup {m} /\ t.expired = s.expired
<1> DEFINE t == nxe_set_timer(s, m)
<1>1. /\ DOMAIN t = Fields /\ t.events = s.events /\ t.timers = s.timers \cup {m} /\ t.expired = s.expired
      /\ SameRequest(s, t) /\ SameBody(s, t) /\ SameStreams(s, t)
  BY DEF nxe_set_timer, Typed, Fields, SameRequest, SameBody, SameState, SameStreams
<1> HIDE DEF t
<1>2. Typed(t) BY <1>1 DEF Typed, SameBody, SameState, SameRequest, SameStreams
<1>3. Kept(s, t) BY <1>1, <1>2, LaterReflexive DEF Kept, Typed
<1>4. \A y : Flowing(t, y) <=> Flowing(s, y) BY <1>1 DEF Flowing, SameStreams, SameRequest
<1>5. Calm(s, t) BY <1>1, <1>3, <1>4, FlowKept DEF SameStreams
<1> QED BY <1>1, <1>5 DEF t

LEMMA UnsetTimer ==
  ASSUME NEW s, Typed(s), NEW m
  PROVE  LET t == nxe_unset_timer(s, m)
         IN  /\ Calm(s, t) /\ SameBody(s, t) /\ SameStreams(s, t) /\ t.events = s.events
             /\ t.timers = s.timers \ {m} /\ t.expired = s.expired \ {m}
<1> DEFINE t == nxe_unset_timer(s, m)
<1>1. /\ DOMAIN t = Fields /\ t.events = s.events /\ t.timers = s.timers \ {m}
      /\ t.expired = s.expired \ {m}
      /\ SameRequest(s, t) /\ SameBody(s, t) /\ SameStreams(s, t)
  BY DEF nxe_unset_timer, Typed, Fields, SameRequest, SameBody, SameState, SameStreams
<1> HIDE DEF t
<1>2. Typed(t) BY <1>1 DEF Typed, SameBody, SameState, SameRequest, SameStreams
<1>3. Kept(s, t) BY <1>1, <1>2, LaterReflexive DEF Kept, Typed
<1>4. \A y : Flowing(t, y) <=> Flowing(s, y) BY <1>1 DEF Flowing, SameStreams, SameRequest
<1>5. Calm(s, t) BY <1>1, <1>3, <1>4, FlowKept DEF SameStreams
<1> QED BY <1>1, <1>5 DEF t

LEMMA CalmTyped == ASSUME NEW s, NEW t, Calm(s, t) PROVE Typed(t)
BY DEF Calm, Kept

LEMMA Receive ==
  ASSUME NEW s, Typed(s), NEW size
  PROVE  LET t == sock_data_recv_read(s, size)
         IN  Calm(s, t) /\ SameBody(s, t) /\ SameTimers(s, t) /\ t.os = s.os
<1> DEFINE n == IF s.is["in"] THEN Minimum(Len(s.wire), size) ELSE 0
           short == s.is["in"] /\ n < size
           t == [s EXCEPT !.wire = SubSeq(@, n + 1, Len(@)), !.is["in"] = @ /\ ~ short]
           u == IF short /\ n = 0 /\ s.rdclosed THEN nxe_publish(t, "data_error") ELSE t
<1>1. sock_data_recv_read(s, size) = u BY DEF sock_data_recv_read
<1> HIDE DEF short, n
<1>2. /\ DOMAIN t = Fields /\ t.events = s.events /\ t.os = s.os
      /\ t.is = [s.is EXCEPT !["in"] = s.is["in"] /\ ~ short]
      /\ SameRequest(s, t) /\ SameBody(s, t) /\ SameTimers(s, t)
  BY DEF Typed, Fields, SameRequest, SameBody, SameState, SameTimers
<1> HIDE DEF t
<1>3. t.is \in [Streams -> BOOLEAN] /\ \A z \in Streams : t.is[z] => s.is[z]
  BY <1>2 DEF Typed, Streams
<1>4. Typed(t) BY <1>2, <1>3 DEF Typed, SameRequest, SameTimers, SameBody, SameState
<1>5. Kept(s, t) BY <1>2, <1>4, LaterReflexive DEF Kept, Typed
<1>6. \A z \in Streams : Flowing(t, z) => Flowing(s, z) BY <1>2, <1>3 DEF Flowing, SameRequest
<1>7. Flowing(s, "out") => Flowing(t, "out") BY <1>2 DEF Flowing, SameRequest, Typed, Streams
<1>8. Calm(s, t) BY <1>2, <1>5, <1>6, <1>7, FlowKept
<1> DEFINE v == nxe_publish(t, "data_error")
<1>9. Calm(t, v) /\ SameBody(t, v) /\ SameTimers(t, v) /\ SameStreams(t, v)
  <2>1. "data_error" \in Messages BY DEF Messages, SockMessages
  <2> QED BY <1>4, <2>1, Publish
<1> HIDE DEF v
<1>10. Calm(s, v) BY <1>8, <1>9, CalmTransitive
<1>11. SameBody(s, v) /\ SameTimers(s, v) /\ v.os = s.os
  BY <1>2, <1>9 DEF SameBody, SameState, SameTimers, SameStreams
<1>12. Calm(s, u) /\ SameBody(s, u) /\ SameTimers(s, u) /\ u.os = s.os
  BY <1>2, <1>8, <1>10, <1>11 DEF v
<1> QED BY <1>1, <1>12

LEMMA Send ==
  ASSUME NEW s, Typed(s), NEW size \in Nat
  PROVE  LET t == sock_data_send_write(s, size)
         IN  /\ Kept(s, t) /\ SameState(s, t) /\ SameTimers(s, t) /\ t.is = s.is
             /\ t.events = s.events
             /\ t.os = [s.os EXCEPT !["out"] = s.os["out"] /\ Sent(s, size) = size]
             /\ Sent(s, size) \in 0 .. size /\ (~ s.os["req"] \/ size = 0 => Calm(s, t))
<1> DEFINE t == sock_data_send_write(s, size)
           n == Sent(s, size)
<1>1. n \in 0 .. size /\ n <= s.room BY DEF Sent, Minimum, Typed
<1> HIDE DEF n
<1>2. /\ DOMAIN t = Fields /\ t.events = s.events /\ t.is = s.is /\ t.room = s.room - n
      /\ t.os = [s.os EXCEPT !["out"] = s.os["out"] /\ n = size]
      /\ SameRequest(s, t) /\ SameState(s, t) /\ SameTimers(s, t)
  BY DEF sock_data_send_write, Typed, Fields, SameRequest, SameState, SameTimers, n
<1> HIDE DEF t
<1>3. t.os \in [Streams -> BOOLEAN] /\ \A z \in Streams : t.os[z] => s.os[z]
  BY <1>2 DEF Typed, Streams
<1>4. t.room \in Nat BY <1>1, <1>2 DEF Typed
<1>5. Typed(t) BY <1>2, <1>3, <1>4 DEF Typed, SameRequest, SameTimers, SameState
<1>6. Kept(s, t) BY <1>2, <1>5, LaterReflexive DEF Kept, Typed
<1>7. \A z \in Streams : Flowing(t, z) => Flowing(s, z) BY <1>2, <1>3 DEF Flowing, SameRequest
<1>8. t.os["req"] = s.os["req"] BY <1>2 DEF Typed, Streams
<1>9. ASSUME ~ s.os["req"] \/ size = 0 PROVE Calm(s, t)
  <2>1. CASE ~ s.os["req"] BY <1>6, <1>7, <1>8, <2>1, FlowKept DEF Flowing
  <2>2. CASE size = 0
    <3>1. n = size BY <1>1, <2>2
    <3>2. Flowing(s, "out") => Flowing(t, "out") BY <1>2, <3>1 DEF Flowing, SameRequest, Typed, Streams
    <3> QED BY <1>6, <1>7, <1>8, <3>2, FlowKept
  <2> QED BY <1>9, <2>1, <2>2
<1> QED BY <1>1, <1>2, <1>6, <1>9 DEF t, n

-----------------------------------------------------------------------------
(* Sending the request.                                                    *)

(* The state and the timers change like this, and the body does not.       *)
Moves(s, t, state, off, on) ==
  /\ t.state = state /\ t.sending = s.sending /\ t.fwd = s.fwd /\ t.bodies = s.bodies
  /\ t.rb_req = s.rb_req
  /\ t.timers = (s.timers \ {off}) \cup {on} /\ t.expired = s.expired \ {off}

LEMMA StartReceiving ==
  ASSUME NEW s, Typed(s), ~ s.os["req"]
  PROVE  LET t == start_receiving_response(s)
         IN  /\ Calm(s, t) /\ Moves(s, t, "WAITING_FOR_RESPONSE", "write", "read")
             /\ t.wait100 = s.wait100 /\ t.is["req"] = s.is["req"]
<1> DEFINE a == nxe_istream_unset_ready(s, "out")
           b == nxe_unset_timer(a, "write")
           c == nxe_set_timer(b, "read")
           u == nxe_ostream_set_ready(c, "in")
           t == [u EXCEPT !.state = "WAITING_FOR_RESPONSE"]
<1>0. "out" \in Streams /\ "in" \in Streams /\ "read" \in Timers BY DEF Streams, Timers, HcpTimers
<1>1. Calm(s, a) /\ SameBody(s, a) /\ SameTimers(s, a) /\ a.is = [s.is EXCEPT !["out"] = FALSE]
  BY <1>0, UnsetInput
<1> HIDE DEF a
<1>2. /\ Calm(a, b) /\ SameBody(a, b) /\ SameStreams(a, b)
      /\ b.timers = a.timers \ {"write"} /\ b.expired = a.expired \ {"write"}
  BY <1>1, CalmTyped, UnsetTimer
<1> HIDE DEF b
<1>3. /\ Calm(b, c) /\ SameBody(b, c) /\ SameStreams(b, c)
      /\ c.timers = b.timers \cup {"read"} /\ c.expired = b.expired
  BY <1>0, <1>2, CalmTyped, SetTimer
<1> HIDE DEF c
<1>4. Calm(c, u) /\ SameBody(c, u) /\ SameTimers(c, u) /\ u.is = c.is
  BY <1>0, <1>3, CalmTyped, SetOutput
<1> HIDE DEF u
<1>U. Typed(u) BY <1>4, CalmTyped
<1>5. /\ DOMAIN t = Fields /\ t.events = u.events /\ SameRequest(u, t) /\ SameTimers(u, t)
      /\ SameStreams(u, t) /\ t.room = u.room /\ t.rb_req = u.rb_req
      /\ t.state = "WAITING_FOR_RESPONSE" /\ t.wait100 = u.wait100 /\ t.sending = u.sending
      /\ t.fwd = u.fwd /\ t.bodies = u.bodies
  BY <1>U DEF Typed, Fields, SameRequest, SameTimers, SameStreams
<1> HIDE DEF t
<1>R. t.room \in Nat /\ t.rb_req \in Nat BY <1>5, <1>U DEF Typed
<1>6. Calm(u, t) BY <1>5, <1>U, <1>R, DataChange
<1>7. Calm(s, t)
  <2>1. Calm(s, b) BY <1>1, <1>2, CalmTransitive
  <2>2. Calm(s, c) BY <1>3, <2>1, CalmTransitive
  <2>3. Calm(s, u) BY <1>4, <2>2, CalmTransitive
  <2> QED BY <1>6, <2>3, CalmTransitive
<1>8. Moves(s, t, "WAITING_FOR_RESPONSE", "write", "read") /\ t.wait100 = s.wait100
  BY <1>1, <1>2, <1>3, <1>4, <1>5 DEF Moves, SameBody, SameState, SameTimers
<1>I. t.is["req"] = s.is["req"]
  BY <1>1, <1>2, <1>3, <1>4, <1>5 DEF SameStreams, Typed, Streams
<1>9. start_receiving_response(s) = t BY DEF start_receiving_response, t, u, c, b, a
<1> QED BY <1>7, <1>8, <1>9, <1>I

LEMMA WaitFor100 ==
  ASSUME NEW s, Typed(s), ~ s.os["req"]
  PROVE  LET t == wait_for_100_continue(s)
         IN  /\ Calm(s, t) /\ Moves(s, t, "WAITING_FOR_RESPONSE", "write", "100continue")
             /\ t.wait100 = TRUE
<1> DEFINE a == nxe_istream_unset_ready(s, "out")
           b == nxe_unset_timer(a, "write")
           c == nxe_set_timer(b, "100continue")
           u == nxe_ostream_set_ready(c, "in")
           t == [u EXCEPT !.state = "WAITING_FOR_RESPONSE", !.wait100 = TRUE]
<1>0. "out" \in Streams /\ "in" \in Streams /\ "100continue" \in Timers BY DEF Streams, Timers, HcpTimers
<1>1. Calm(s, a) /\ SameBody(s, a) /\ SameTimers(s, a) BY <1>0, UnsetInput
<1> HIDE DEF a
<1>2. /\ Calm(a, b) /\ SameBody(a, b)
      /\ b.timers = a.timers \ {"write"} /\ b.expired = a.expired \ {"write"}
  BY <1>1, CalmTyped, UnsetTimer
<1> HIDE DEF b
<1>3. /\ Calm(b, c) /\ SameBody(b, c)
      /\ c.timers = b.timers \cup {"100continue"} /\ c.expired = b.expired
  BY <1>0, <1>2, CalmTyped, SetTimer
<1> HIDE DEF c
<1>4. Calm(c, u) /\ SameBody(c, u) /\ SameTimers(c, u)
  BY <1>0, <1>3, CalmTyped, SetOutput
<1> HIDE DEF u
<1>U. Typed(u) BY <1>4, CalmTyped
<1>5. /\ DOMAIN t = Fields /\ t.events = u.events /\ SameRequest(u, t) /\ SameTimers(u, t)
      /\ SameStreams(u, t) /\ t.room = u.room /\ t.rb_req = u.rb_req
      /\ t.state = "WAITING_FOR_RESPONSE" /\ t.wait100 = TRUE /\ t.sending = u.sending
      /\ t.fwd = u.fwd /\ t.bodies = u.bodies
  BY <1>U DEF Typed, Fields, SameRequest, SameTimers, SameStreams
<1> HIDE DEF t
<1>R. t.room \in Nat /\ t.rb_req \in Nat BY <1>5, <1>U DEF Typed
<1>6. Calm(u, t) BY <1>5, <1>U, <1>R, DataChange
<1>7. Calm(s, t)
  <2>1. Calm(s, b) BY <1>1, <1>2, CalmTransitive
  <2>2. Calm(s, c) BY <1>3, <2>1, CalmTransitive
  <2>3. Calm(s, u) BY <1>4, <2>2, CalmTransitive
  <2> QED BY <1>6, <2>3, CalmTransitive
<1>8. Moves(s, t, "WAITING_FOR_RESPONSE", "write", "100continue") /\ t.wait100 = TRUE
  BY <1>1, <1>2, <1>3, <1>4, <1>5 DEF Moves, SameBody, SameState, SameTimers
<1>9. wait_for_100_continue(s) = t BY DEF wait_for_100_continue, t, u, c, b, a
<1> QED BY <1>7, <1>8, <1>9

(* A round of the loop on a connection: what holds of it before and after. *)
Served(s, x) == Typed(s) /\ s.place \in {"used", "pool"} /\ BodyInv(s) /\ ConnInv(s, x)

Round(s, t, x) ==
  /\ Kept(s, t) /\ Served(t, x)
  /\ "backend" \in t.timers => "backend" \in s.timers
  /\ s.state = "IDLE" => t.state = "IDLE" /\ t.bodies = s.bodies

LEMMA RoundTransitive ==
  ASSUME NEW x, NEW s, NEW t, NEW u, Typed(s), Round(s, t, x), Round(t, u, x) PROVE Round(s, u, x)
<1>1. Later(s.events, u.events) BY LaterTransitive DEF Round, Kept, Typed
<1> QED BY <1>1 DEF Round, Kept, SameRequest

LEMMA RoundReflexive == ASSUME NEW x, NEW s, Served(s, x) PROVE Round(s, s, x)
BY CalmReflexive DEF Round, Served, Calm

LEMMA ToRound ==
  ASSUME NEW x, NEW s, NEW t, Served(s, x), Calm(s, t), BodyInv(t),
         \/ StateTimer(t) \in t.timers \/ In(t.events, "error")
         \/ StateTimer(s) \in s.timers => StateTimer(t) \in t.timers,
         t.state = "IDLE" /\ "keep_alive" \notin t.timers => s.state = "IDLE" /\ "keep_alive" \notin s.timers,
         t.wait100 => t.state \in {"WAITING_FOR_RESPONSE", "RECEIVING_HEADERS"},
         t.os["req"] => t.state = "SENDING_BODY",
         s.state = "IDLE" => t.state = "IDLE" /\ t.bodies = s.bodies,
         "backend" \in t.timers => "backend" \in s.timers
  PROVE  Round(s, t, x)
<1>1. Typed(t) /\ SameRequest(s, t) /\ Kept(s, t) BY DEF Calm, Kept
<1>2. (\A f : In(s.events, f) => In(t.events, f)) /\ (Sure(s.events) => Sure(t.events))
  BY LaterHolds DEF Calm, Kept, Typed, Served
<1>3. WatchInv(t) BY <1>1, <1>2 DEF WatchInv, SameRequest, Served, ConnInv
<1>4. StateInv(t) BY <1>1 DEF StateInv, SameRequest, Served, ConnInv
<1>5. FlowInv(t, x) BY DEF Calm, KeepsFlow, Served, ConnInv
<1>6. t.place \in {"used", "pool"} BY <1>1 DEF Served, SameRequest
<1> QED BY <1>1, <1>3, <1>4, <1>5, <1>6 DEF Round, Served, ConnInv

(* A call that changes neither the state nor the timers.                   *)
LEMMA QuietRound ==
  ASSUME NEW x, NEW s, NEW t, Served(s, x), Calm(s, t), SameState(s, t), SameTimers(s, t)
  PROVE  Round(s, t, x)
<1>1. BodyInv(t) BY DEF BodyInv, SameState, Served
<1>2. StateTimer(t) = StateTimer(s) BY DEF StateTimer, SameState
<1>3. t.os["req"] => t.state = "SENDING_BODY" BY DEF Calm, KeepsFlow, Served, ConnInv, StateInv, SameState
<1>4. t.wait100 => t.state \in {"WAITING_FOR_RESPONSE", "RECEIVING_HEADERS"}
  BY DEF Served, ConnInv, StateInv, SameState
<1> QED BY <1>1, <1>2, <1>3, <1>4, ToRound DEF SameState, SameTimers

(* The timers, where the state is not IDLE.                                *)
LEMMA TimerOfState ==
  ASSUME NEW s
  PROVE  /\ s.state \in {"CONNECTING", "SENDING_HEADERS", "SENDING_BODY"} => StateTimer(s) = "write"
         /\ s.state = "WAITING_FOR_RESPONSE" /\ s.wait100 => StateTimer(s) = "100continue"
         /\ s.state = "IDLE" => StateTimer(s) = "keep_alive"
         /\ s.state \in {"RECEIVING_HEADERS", "RECEIVING_BODY"} => StateTimer(s) = "read"
         /\ s.state = "WAITING_FOR_RESPONSE" /\ ~ s.wait100 => StateTimer(s) = "read"
         /\ StateTimer(s) \in HcpTimers
BY DEF StateTimer, HcpTimers

LEMMA BodyDeclined ==
  ASSUME NEW s, Typed(s)
  PROVE  LET t == nxe_istream_set_ready(nxe_ostream_unset_ready(s, "req"), "out")
         IN  Calm(s, t) /\ SameBody(s, t) /\ SameTimers(s, t) /\ ~ t.os["req"]
<1> DEFINE a == nxe_ostream_unset_ready(s, "req")
           t == nxe_istream_set_ready(a, "out")
<1>0. "out" \in Streams /\ "req" \in Streams /\ "req" # "out" BY DEF Streams
<1>1. /\ Calm(s, a) /\ SameBody(s, a) /\ SameTimers(s, a)
      /\ a.os = [s.os EXCEPT !["req"] = FALSE]
  BY <1>0, UnsetOutput
<1> HIDE DEF a
<1>2. Calm(a, t) /\ SameBody(a, t) /\ SameTimers(a, t) /\ t.os = a.os BY <1>0, <1>1, CalmTyped, SetInput
<1> HIDE DEF t
<1>3. Calm(s, t) BY <1>1, <1>2, CalmTransitive
<1>4. ~ t.os["req"] BY <1>0, <1>1, <1>2 DEF Typed
<1>5. SameBody(s, t) /\ SameTimers(s, t) BY <1>1, <1>2 DEF SameBody, SameState, SameTimers
<1> QED BY <1>3, <1>4, <1>5 DEF t, a

(* Pieces of the body: a short write stops both streams.                   *)
LEMMA BodyPieces ==
  ASSUME NEW s, Typed(s), NEW size \in Nat
  PROVE  LET t == sock_data_send_write(s, size)
             u == IF size > 0 /\ ~ t.os["out"]
                  THEN nxe_istream_set_ready(nxe_ostream_unset_ready(t, "req"), "out") ELSE t
         IN  Calm(s, u) /\ SameState(s, u) /\ SameTimers(s, u) /\ u.is["req"] = s.is["req"]
<1> DEFINE t == sock_data_send_write(s, size)
           a == nxe_ostream_unset_ready(t, "req")
           w == nxe_istream_set_ready(a, "out")
<1>0. "out" \in Streams /\ "req" \in Streams /\ "req" # "out" BY DEF Streams
<1>1. /\ Kept(s, t) /\ SameState(s, t) /\ SameTimers(s, t) /\ t.is = s.is
      /\ t.os = [s.os EXCEPT !["out"] = s.os["out"] /\ Sent(s, size) = size]
      /\ size = 0 => Calm(s, t)
  BY Send
<1> HIDE DEF t
<1>2. Typed(t) BY <1>1 DEF Kept
<1>3. CASE size > 0 /\ ~ t.os["out"]
  <2>1. /\ Calm(t, a) /\ SameBody(t, a) /\ SameTimers(t, a) /\ a.is = t.is
        /\ a.os = [t.os EXCEPT !["req"] = FALSE]
    BY <1>0, <1>2, UnsetOutput
  <2> HIDE DEF a
  <2>2. \A z \in Streams : a.os[z] => s.os[z] BY <1>0, <1>1, <1>2, <2>1 DEF Typed
  <2>3. ~ a.os["req"] BY <1>0, <1>2, <2>1 DEF Typed
  <2>4. Kept(s, a)
    <3>1. /\ Typed(a) /\ Later(t.events, a.events) /\ SameRequest(t, a)
          /\ In(a.events, "client") => In(t.events, "client")
      BY <2>1 DEF Calm, Kept
    <3>2. Later(s.events, a.events)
      BY <1>1, <1>2, <3>1, LaterTransitive DEF Kept, Typed
    <3> QED BY <1>1, <3>1, <3>2 DEF Kept, SameRequest
  <2>5. \A z \in Streams : Flowing(a, z) => Flowing(s, z)
    BY <1>1, <2>1, <2>2, <2>4 DEF Flowing, Kept, SameRequest
  <2>6. Calm(s, a) BY <2>2, <2>3, <2>4, <2>5, <1>0, FlowKept DEF Flowing
  <2>7. /\ Calm(a, w) /\ SameBody(a, w) /\ SameTimers(a, w)
        /\ w.is = [a.is EXCEPT !["out"] = TRUE]
    BY <1>0, <2>1, CalmTyped, SetInput
  <2> HIDE DEF w
  <2>8. Calm(s, w) BY <2>6, <2>7, CalmTransitive
  <2>9. SameState(s, w) /\ SameTimers(s, w) BY <1>1, <2>1, <2>7 DEF SameBody, SameState, SameTimers
  <2>10. w.is["req"] = s.is["req"] BY <1>0, <1>1, <2>1, <2>7 DEF Typed
  <2> QED BY <1>3, <2>8, <2>9, <2>10 DEF t, a, w
<1>4. CASE ~ (size > 0 /\ ~ t.os["out"])
  <2>1. Calm(s, t)
    <3>1. CASE size = 0 BY <1>1, <3>1
    <3>2. CASE size # 0
      <4>1. t.os["out"] BY <1>4, <3>2
      <4> DEFINE b == s.os["out"] /\ Sent(s, size) = size
      <4>a. t.os = [s.os EXCEPT !["out"] = b] /\ s.os \in [Streams -> BOOLEAN] BY <1>1 DEF Typed
      <4>b. b BY <1>0, <4>1, <4>a
      <4>c. b = s.os["out"] BY <1>0, <4>a, <4>b
      <4> HIDE DEF b
      <4>2. t.os = s.os BY <4>a, <4>c
      <4>3. \A y : Flowing(t, y) <=> Flowing(s, y) BY <1>1, <4>2 DEF Flowing, Kept, SameRequest
      <4> QED BY <1>1, <4>2, <4>3, FlowKept
    <3> QED BY <3>1, <3>2
  <2> QED BY <1>1, <1>4, <2>1 DEF t
<1> QED BY <1>3, <1>4

(* Where the body is being sent: a piece more, or the last one.            *)
LEMMA BodyWritten ==
  ASSUME NEW s, Typed(s), s.state = "SENDING_BODY", BodyInv(s), NEW size \in Nat, NEW eof
  PROVE  LET t == req_body_in_write(s, size, eof)
         IN  /\ Calm(s, t) /\ BodyInv(t) /\ t.wait100 = s.wait100 /\ t.rb_req = s.rb_req
             /\ t.is["req"] = s.is["req"]
             /\ \/ t.state = "SENDING_BODY" /\ t.timers = (s.timers \ {"write"}) \cup {"write"}
                \/ /\ t.state = "WAITING_FOR_RESPONSE" /\ ~ t.os["req"] /\ eof
                   /\ t.timers = (s.timers \ {"write"}) \cup {"read"}
<1> DEFINE n == Sent(s, size)
           a == [s EXCEPT !.sending = TRUE]
           b == nxe_unset_timer(a, "write")
           c == sock_data_send_write(b, size)
           u == IF size > 0 /\ ~ c.os["out"]
                THEN nxe_istream_set_ready(nxe_ostream_unset_ready(c, "req"), "out") ELSE c
           fwd == u.fwd \/ n > 0
           bodies == IF n > 0 /\ ~ s.fwd THEN u.bodies + 1 ELSE u.bodies
           v == [u EXCEPT !.fwd = @ \/ n > 0, !.bodies = IF n > 0 /\ ~ s.fwd THEN @ + 1 ELSE @]
           w == nxe_ostream_unset_ready(v, "req")
           t == IF eof /\ n = size THEN start_receiving_response(w) ELSE nxe_set_timer(v, "write")
<1>0. req_body_in_write(s, size, eof) = t BY DEF req_body_in_write
<1>S. "req" \in Streams /\ "req" # "out" /\ "write" \in Timers BY DEF Streams, Timers, HcpTimers
<1>1. /\ DOMAIN a = Fields /\ a.events = s.events /\ SameRequest(s, a) /\ SameTimers(s, a)
      /\ SameStreams(s, a) /\ a.room = s.room /\ a.rb_req = s.rb_req
      /\ a.state = s.state /\ a.wait100 = s.wait100 /\ a.sending = TRUE
      /\ a.fwd = s.fwd /\ a.bodies = s.bodies
  BY DEF Typed, Fields, SameRequest, SameTimers, SameStreams
<1> HIDE DEF a
<1>2. Calm(s, a)
  <2>1. a.room \in Nat /\ a.rb_req \in Nat BY <1>1 DEF Typed
  <2> QED BY <1>1, <2>1, DataChange
<1>3. /\ Calm(a, b) /\ SameBody(a, b) /\ SameStreams(a, b) /\ b.timers = a.timers \ {"write"}
  BY <1>2, CalmTyped, UnsetTimer
<1> HIDE DEF b
<1>4. Calm(b, u) /\ SameState(b, u) /\ SameTimers(b, u) /\ u.is["req"] = b.is["req"]
  BY <1>3, CalmTyped, BodyPieces
<1> HIDE DEF u, c, n
<1>5. Typed(u) BY <1>4, CalmTyped
<1>6. /\ DOMAIN v = Fields /\ v.events = u.events /\ SameRequest(u, v) /\ SameTimers(u, v)
      /\ SameStreams(u, v) /\ v.room = u.room /\ v.rb_req = u.rb_req
      /\ v.state = u.state /\ v.wait100 = u.wait100 /\ v.sending = u.sending
      /\ v.fwd = fwd /\ v.bodies = bodies
  BY <1>5 DEF Typed, Fields, SameRequest, SameTimers, SameStreams
<1> HIDE DEF v
<1>7. Calm(u, v)
  <2>1. v.room \in Nat /\ v.rb_req \in Nat BY <1>5, <1>6 DEF Typed
  <2> QED BY <1>5, <1>6, <2>1, DataChange
<1>8. BodyInv(v)
  <2>1. u.fwd = s.fwd /\ u.bodies = s.bodies /\ v.sending = TRUE
    BY <1>1, <1>3, <1>4, <1>6 DEF SameBody, SameState
  <2>2. CASE n > 0 /\ ~ s.fwd
    <3>1. s.bodies = 0 BY <2>2 DEF BodyInv
    <3>2. v.bodies = 1 BY <1>6, <2>1, <2>2, <3>1
    <3>3. v.fwd BY <1>6, <2>2
    <3> QED BY <2>1, <3>2, <3>3 DEF BodyInv
  <2>3. CASE ~ (n > 0 /\ ~ s.fwd)
    <3>1. v.bodies = s.bodies /\ (s.fwd => v.fwd) BY <1>6, <2>1, <2>3
    <3> QED BY <2>1, <3>1 DEF BodyInv
  <2> QED BY <2>2, <2>3
<1>9. Calm(s, v)
  <2>1. Calm(s, b) BY <1>2, <1>3, CalmTransitive
  <2>2. Calm(s, u) BY <1>4, <2>1, CalmTransitive
  <2> QED BY <1>7, <2>2, CalmTransitive
<1>10. /\ v.wait100 = s.wait100 /\ v.rb_req = s.rb_req /\ v.is["req"] = s.is["req"]
       /\ v.state = "SENDING_BODY" /\ v.timers = s.timers \ {"write"}
  BY <1>1, <1>3, <1>4, <1>6 DEF SameBody, SameState, SameStreams, SameTimers
<1>11. CASE eof /\ n = size
  <2>1. /\ Calm(v, w) /\ SameBody(v, w) /\ SameTimers(v, w) /\ w.is = v.is
        /\ w.os = [v.os EXCEPT !["req"] = FALSE]
    BY <1>9, <1>S, CalmTyped, UnsetOutput
  <2> HIDE DEF w
  <2>2. ~ w.os["req"] BY <1>9, <1>S, <2>1, CalmTyped DEF Typed
  <2> DEFINE z == start_receiving_response(w)
  <2>3. /\ Calm(w, z) /\ Moves(w, z, "WAITING_FOR_RESPONSE", "write", "read")
        /\ z.wait100 = w.wait100 /\ z.is["req"] = w.is["req"]
    BY <2>1, <2>2, CalmTyped, StartReceiving
  <2>4. t = z BY <1>11
  <2> HIDE DEF z, t
  <2>5. Calm(s, w) BY <1>9, <2>1, CalmTransitive
  <2>6. Calm(s, z) BY <2>3, <2>5, CalmTransitive
  <2>7. ~ z.os["req"] BY <2>2, <2>3 DEF Calm, KeepsFlow
  <2>8. BodyInv(z) BY <1>8, <2>1, <2>3 DEF BodyInv, Moves, SameBody, SameState
  <2>9. /\ z.wait100 = s.wait100 /\ z.rb_req = s.rb_req /\ z.is["req"] = s.is["req"]
        /\ z.state = "WAITING_FOR_RESPONSE" /\ z.timers = (s.timers \ {"write"}) \cup {"read"}
    BY <1>10, <2>1, <2>3 DEF Moves, SameBody, SameState, SameTimers
  <2> QED BY <1>0, <1>11, <2>4, <2>6, <2>7, <2>8, <2>9
<1>12. CASE ~ (eof /\ n = size)
  <2> DEFINE z == nxe_set_timer(v, "write")
  <2>1. /\ Calm(v, z) /\ SameBody(v, z) /\ SameStreams(v, z) /\ z.timers = v.timers \cup {"write"}
    BY <1>9, <1>S, CalmTyped, SetTimer
  <2>2. t = z BY <1>12
  <2> HIDE DEF z, t
  <2>3. Calm(s, z) BY <1>9, <2>1, CalmTransitive
  <2>4. BodyInv(z) BY <1>8, <2>1 DEF BodyInv, SameBody, SameState
  <2>5. /\ z.wait100 = s.wait100 /\ z.rb_req = s.rb_req /\ z.is["req"] = s.is["req"]
        /\ z.state = "SENDING_BODY" /\ z.timers = (s.timers \ {"write"}) \cup {"write"}
    BY <1>10, <2>1 DEF SameBody, SameState, SameStreams
  <2> QED BY <1>0, <2>2, <2>3, <2>4, <2>5
<1> QED BY <1>11, <1>12

LEMMA RequestRingGives ==
  ASSUME NEW x, NEW s, Served(s, x), NEW size \in Nat
  PROVE  LET t == rb_req_do_write(s, size)
         IN  /\ Round(s, t, x) /\ (~ t.is["req"] /\ s.is["req"] => t.state = s.state)
             /\ s.state = "SENDING_BODY" => t.state \in {"SENDING_BODY", "WAITING_FOR_RESPONSE"}
<1> DEFINE k == Minimum(size, s.rb_req)
           n == IF s.state = "SENDING_BODY" THEN Sent(s, k) ELSE 0
           eof == s.eof_req /\ k = s.rb_req
           b == req_body_in_write(s, k, eof)
           empties == n > 0 /\ n = s.rb_req /\ ~ s.eof_req
           t == [b EXCEPT !.rb_req = @ - n, !.is["req"] = @ /\ ~ empties]
<1>0. rb_req_do_write(s, size) = t BY DEF rb_req_do_write
<1>T. Typed(s) /\ BodyInv(s) /\ ConnInv(s, x) BY DEF Served
<1>1. k \in Nat /\ k <= s.rb_req /\ s.rb_req \in Nat BY <1>T DEF Minimum, Typed
<1> HIDE DEF k
<1>2. n \in 0 .. k
  <2>1. Sent(s, k) \in 0 .. k BY <1>1, <1>T, Send
  <2> QED BY <1>1, <2>1
<1> HIDE DEF n, eof, empties
<1>3. /\ Calm(s, b) /\ BodyInv(b) /\ b.wait100 = s.wait100 /\ b.rb_req = s.rb_req
      /\ \/ b.state = s.state /\ b.bodies = s.bodies /\ b.timers = s.timers /\ s.state # "SENDING_BODY"
         \/ /\ s.state = "SENDING_BODY" /\ b.state = "SENDING_BODY"
            /\ b.timers = (s.timers \ {"write"}) \cup {"write"}
         \/ /\ b.state = "WAITING_FOR_RESPONSE" /\ ~ b.os["req"] /\ eof /\ s.state = "SENDING_BODY"
            /\ b.timers = (s.timers \ {"write"}) \cup {"read"} /\ b.is["req"] = s.is["req"]
  <2>1. CASE s.state = "SENDING_BODY" BY <1>1, <1>T, <2>1, BodyWritten
  <2>2. CASE s.state # "SENDING_BODY"
    <3>1. b = nxe_istream_set_ready(nxe_ostream_unset_ready(s, "req"), "out")
      BY <2>2 DEF req_body_in_write
    <3> HIDE DEF b
    <3>2. Calm(s, b) /\ SameBody(s, b) /\ SameTimers(s, b) BY <1>T, <3>1, BodyDeclined
    <3>3. BodyInv(b) BY <1>T, <3>2 DEF BodyInv, SameBody, SameState
    <3> QED BY <2>2, <3>2, <3>3 DEF SameBody, SameState, SameTimers
  <2> QED BY <2>1, <2>2
<1> HIDE DEF b
<1>4. Typed(b) BY <1>3, CalmTyped
<1>5. /\ DOMAIN t = Fields /\ t.events = b.events /\ SameRequest(b, t) /\ SameTimers(b, t)
      /\ t.os = b.os /\ t.is = [b.is EXCEPT !["req"] = b.is["req"] /\ ~ empties]
      /\ t.room = b.room /\ t.rb_req = b.rb_req - n
      /\ t.state = b.state /\ t.wait100 = b.wait100 /\ t.sending = b.sending
      /\ t.fwd = b.fwd /\ t.bodies = b.bodies
  BY <1>4 DEF Typed, Fields, SameRequest, SameTimers
<1> HIDE DEF t
<1>6. t.rb_req \in Nat BY <1>1, <1>2, <1>3, <1>5
<1>7. t.is \in [Streams -> BOOLEAN] /\ \A z \in Streams : t.is[z] => b.is[z]
  BY <1>4, <1>5 DEF Typed, Streams
<1>8. Typed(t) BY <1>4, <1>5, <1>6, <1>7 DEF Typed, SameRequest, SameTimers
<1>9. Kept(b, t) BY <1>4, <1>5, <1>8, LaterReflexive DEF Kept, Typed
<1>10. \A z \in Streams : Flowing(t, z) => Flowing(b, z) BY <1>5, <1>7 DEF Flowing, SameRequest
<1>11. Flowing(b, "out") => Flowing(t, "out") BY <1>4, <1>5 DEF Flowing, SameRequest, Typed, Streams
<1>12. Calm(b, t) BY <1>4, <1>5, <1>9, <1>10, <1>11, FlowKept
<1>13. Calm(s, t) BY <1>3, <1>12, <1>T, CalmTransitive
<1>14. BodyInv(t) BY <1>3, <1>5 DEF BodyInv
<1>15. /\ s.wait100 => s.state \in {"WAITING_FOR_RESPONSE", "RECEIVING_HEADERS"}
       /\ s.os["req"] => s.state = "SENDING_BODY"
  BY <1>T DEF ConnInv, StateInv
<1>16. t.os["req"] => s.os["req"] BY <1>13 DEF Calm, KeepsFlow
<1>17. Round(s, t, x)
  <2>1. CASE s.state # "SENDING_BODY"
    <3>1. t.state = s.state /\ t.wait100 = s.wait100 /\ t.bodies = s.bodies /\ t.timers = s.timers
      BY <1>3, <1>5, <2>1 DEF SameTimers
    <3>2. StateTimer(t) = StateTimer(s) BY <3>1 DEF StateTimer
    <3> QED BY <1>13, <1>14, <1>15, <1>16, <3>1, <3>2, ToRound
  <2>2. CASE s.state = "SENDING_BODY"
    <3>1. /\ ~ t.wait100 /\ t.state \in {"SENDING_BODY", "WAITING_FOR_RESPONSE"}
          /\ "backend" \in t.timers => "backend" \in s.timers
          /\ t.os["req"] => t.state = "SENDING_BODY"
      BY <1>3, <1>5, <1>15, <2>2 DEF SameTimers
    <3>2. StateTimer(t) \in t.timers
      BY <1>3, <1>5, <2>2, <3>1, TimerOfState DEF SameTimers
    <3> QED BY <1>13, <1>14, <2>2, <3>1, <3>2, ToRound
  <2> QED BY <2>1, <2>2
<1>18. ~ t.is["req"] /\ s.is["req"] => t.state = s.state
  <2>1. eof => ~ empties BY DEF eof, empties
  <2>2. t.is["req"] = (b.is["req"] /\ ~ empties) BY <1>4, <1>5 DEF Typed, Streams
  <2> QED BY <1>3, <1>5, <2>1, <2>2
<1>19. s.state = "SENDING_BODY" => t.state \in {"SENDING_BODY", "WAITING_FOR_RESPONSE"} BY <1>3, <1>5
<1> QED BY <1>0, <1>17, <1>18, <1>19

LEMMA HeadersWritten ==
  ASSUME NEW x, NEW s, Served(s, x), s.state = "SENDING_HEADERS", "write" \in s.timers
  PROVE  Round(s, WriteHeaders(s), x)
<1> DEFINE t == sock_data_send_write(s, 1)
           u == [t EXCEPT !.headers = FALSE, !.asked = s.no, !.owed = TRUE, !.said100 = FALSE]
<1>T. Typed(s) /\ BodyInv(s) /\ ~ s.os["req"] /\ ~ s.wait100 BY DEF Served, ConnInv, StateInv
<1>1. Calm(s, t) /\ SameState(s, t) /\ SameTimers(s, t) BY <1>T, Send
<1>2. CASE Sent(s, 1) = 0
  <2>1. WriteHeaders(s) = t BY <1>2 DEF WriteHeaders
  <2> QED BY <1>1, <2>1, QuietRound
<1>3. CASE Sent(s, 1) # 0
  <2> HIDE DEF t
  <2>1. Typed(t) BY <1>1, CalmTyped
  <2>2. /\ DOMAIN u = Fields /\ u.events = t.events /\ SameRequest(t, u) /\ SameTimers(t, u)
        /\ SameStreams(t, u) /\ u.room = t.room /\ SameState(t, u)
    BY <2>1 DEF Typed, Fields, SameRequest, SameTimers, SameStreams, SameState
  <2> HIDE DEF u
  <2>3. u.room \in Nat /\ u.rb_req \in Nat BY <2>1, <2>2 DEF Typed, SameState
  <2>4. Calm(t, u) BY <2>1, <2>2, <2>3, DataChange
  <2>5. Calm(s, u) /\ Typed(u) BY <1>1, <1>T, <2>4, CalmTransitive, CalmTyped
  <2>6. ~ u.os["req"] /\ ~ u.wait100
    BY <1>1, <1>T, <2>2, <2>5 DEF Calm, KeepsFlow, SameState
  <2>7. u.timers = s.timers /\ u.sending = s.sending /\ u.fwd = s.fwd /\ u.bodies = s.bodies
    BY <1>1, <2>2 DEF SameState, SameTimers
  <2>8. ASSUME NEW z, NEW on \in {"read", "100continue"}, Calm(u, z),
               Moves(u, z, "WAITING_FOR_RESPONSE", "write", on),
               (z.wait100 /\ on = "100continue") \/ (~ z.wait100 /\ on = "read")
        PROVE  Round(s, z, x)
    <3>1. Calm(s, z) BY <1>T, <2>5, <2>8, CalmTransitive
    <3>2. BodyInv(z) BY <1>T, <2>7, <2>8 DEF BodyInv, Moves
    <3>3. ~ z.os["req"] BY <2>6, <2>8 DEF Calm, KeepsFlow
    <3>4. /\ z.state = "WAITING_FOR_RESPONSE" /\ on \in z.timers
          /\ "backend" \in z.timers => "backend" \in s.timers
      BY <2>7, <2>8 DEF Moves
    <3>5. StateTimer(z) = on BY <2>8, <3>4, TimerOfState
    <3> QED BY <3>1, <3>2, <3>3, <3>4, <3>5, ToRound
  <2>9. CASE s.size = 0
    <3> DEFINE z == start_receiving_response(u)
    <3>1. WriteHeaders(s) = z BY <1>3, <2>9 DEF WriteHeaders, t, u
    <3>2. /\ Calm(u, z) /\ Moves(u, z, "WAITING_FOR_RESPONSE", "write", "read")
          /\ z.wait100 = u.wait100
      BY <2>5, <2>6, StartReceiving
    <3> HIDE DEF z
    <3> QED BY <2>6, <2>8, <3>1, <3>2
  <2>10. CASE s.size # 0
    <3> DEFINE z == wait_for_100_continue(u)
    <3>1. WriteHeaders(s) = z BY <1>3, <2>10 DEF WriteHeaders, t, u
    <3>2. /\ Calm(u, z) /\ Moves(u, z, "WAITING_FOR_RESPONSE", "write", "100continue")
          /\ z.wait100 = TRUE
      BY <2>5, <2>6, WaitFor100
    <3> HIDE DEF z
    <3> QED BY <2>8, <3>1, <3>2
  <2> QED BY <2>9, <2>10
<1> QED BY <1>2, <1>3

(* The ring is asked directly while "out" moves.                           *)
LEMMA BodyPassedOn ==
  ASSUME NEW s, Served(s, "out"), s.state = "SENDING_BODY", Flowing(s, "out"), NEW size \in Nat
  PROVE  Round(s, WriteBody(s, size), "out")
<1> DEFINE t == [s EXCEPT !.sending = TRUE]
           a == [t EXCEPT !.os["req"] = TRUE]
           u == IF t.is["req"] THEN rb_req_do_write(a, size) ELSE t
           w == nxe_istream_unset_ready(u, "out")
           z == nxe_ostream_set_ready(w, "req")
<1>S. "req" \in Streams /\ "out" \in Streams BY DEF Streams
<1>T. Typed(s) /\ BodyInv(s) /\ ConnInv(s, "out") BY DEF Served
<1>1. /\ DOMAIN t = Fields /\ t.events = s.events /\ SameRequest(s, t) /\ SameTimers(s, t)
      /\ SameStreams(s, t) /\ t.room = s.room /\ t.rb_req = s.rb_req
      /\ t.state = s.state /\ t.wait100 = s.wait100 /\ t.sending = TRUE
      /\ t.fwd = s.fwd /\ t.bodies = s.bodies
  BY <1>T DEF Typed, Fields, SameRequest, SameTimers, SameStreams
<1>2. Round(s, t, "out")
  <2> HIDE DEF t
  <2>1. t.room \in Nat /\ t.rb_req \in Nat BY <1>1, <1>T DEF Typed
  <2>2. Calm(s, t) BY <1>1, <1>T, <2>1, DataChange
  <2>3. BodyInv(t) BY <1>1, <1>T DEF BodyInv
  <2>4. StateTimer(t) = StateTimer(s) BY <1>1 DEF StateTimer
  <2>5. t.wait100 => t.state \in {"WAITING_FOR_RESPONSE", "RECEIVING_HEADERS"}
    BY <1>1, <1>T DEF ConnInv, StateInv
  <2> QED BY <1>1, <2>2, <2>3, <2>4, <2>5, ToRound DEF SameTimers
<1>3. Typed(t) /\ Served(t, "out") BY <1>2 DEF Round, Served
<1>4. CASE "req" \notin s.pair
  <2> DEFINE v == nxe_istream_unset_ready(t, "out")
  <2>1. WriteBody(s, size) = v BY <1>4 DEF WriteBody
  <2>2. "req" \notin t.pair BY <1>1, <1>4 DEF SameRequest
  <2> HIDE DEF t
  <2>3. Calm(t, v) /\ SameBody(t, v) /\ SameTimers(t, v) BY <1>3, <1>S, <2>2, UnsetInput
  <2> HIDE DEF v
  <2>4. Round(t, v, "out") BY <1>3, <2>3, QuietRound DEF SameBody
  <2> QED BY <1>2, <1>T, <2>1, <2>4, RoundTransitive
<1>5. CASE "req" \in s.pair
  <2>1. WriteBody(s, size) = IF u.is["req"] THEN u ELSE z BY <1>5 DEF WriteBody
  <2>2. /\ DOMAIN a = Fields /\ a.events = t.events /\ SameRequest(t, a) /\ SameTimers(t, a)
        /\ a.is = t.is /\ a.os = [t.os EXCEPT !["req"] = TRUE] /\ SameBody(t, a)
    <3> HIDE DEF t
    <3> QED BY <1>3 DEF Typed, Fields, SameRequest, SameTimers, SameBody, SameState
  <2> HIDE DEF t, a
  <2>3. Served(a, "out") /\ Kept(t, a)
    <3>1. Typed(a) BY <1>3, <2>2 DEF Typed, SameRequest, SameTimers, SameBody, SameState
    <3>2. Kept(t, a) BY <1>3, <2>2, <3>1, LaterReflexive DEF Kept, Typed
    <3>3. BodyInv(a) /\ WatchInv(a) /\ StateInv(a)
      BY <1>1, <1>3, <2>2
      DEF Served, ConnInv, BodyInv, WatchInv, StateInv, SameRequest, SameTimers, SameBody, SameState,
          StateTimer
    <3>4. Flowing(a, "out")
      BY <1>1, <1>3, <2>2, <1>S DEF Flowing, SameRequest, SameStreams, Typed, Streams
    <3>5. \A y \in Streams : y # "req" /\ Flowing(a, y) => Flowing(t, y)
      BY <1>3, <2>2 DEF Flowing, SameRequest, Typed
    <3>6. FlowInv(a, "out") BY <1>3, <2>2, <3>4, <3>5 DEF FlowInv, Served, ConnInv
    <3>7. a.place \in {"used", "pool"} BY <1>3, <2>2 DEF Served, SameRequest
    <3> QED BY <3>1, <3>2, <3>3, <3>6, <3>7 DEF Served, ConnInv
  <2>4. Round(t, a, "out")
    BY <2>2, <2>3 DEF Round, SameTimers, SameBody, SameState
  <2>5. /\ Round(t, u, "out") /\ (~ u.is["req"] => u.state = "SENDING_BODY")
    <3>1. CASE t.is["req"]
      <4>1. u = rb_req_do_write(a, size) BY <3>1
      <4> HIDE DEF u
      <4>2. Round(a, u, "out") /\ (~ u.is["req"] /\ a.is["req"] => u.state = a.state)
        BY <2>3, <4>1, RequestRingGives
      <4>3. Round(t, u, "out") BY <1>3, <2>4, <4>2, RoundTransitive
      <4> QED BY <1>1, <2>2, <3>1, <4>2, <4>3 DEF SameBody, SameState
    <3>2. CASE ~ t.is["req"]
      <4>1. u = t BY <3>2
      <4> QED BY <1>1, <1>3, <4>1, RoundReflexive
    <3> QED BY <3>1, <3>2
  <2> HIDE DEF u
  <2>6. Served(u, "out") /\ Typed(u) BY <2>5 DEF Round, Served
  <2>7. ASSUME ~ u.is["req"] PROVE Round(u, z, "out")
    <3>1. Calm(u, w) /\ SameBody(u, w) /\ SameTimers(u, w) /\ w.is = [u.is EXCEPT !["out"] = FALSE]
      BY <1>S, <2>6, <2>7, UnsetInput
    <3> HIDE DEF w
    <3>2. Round(u, w, "out") BY <2>6, <3>1, QuietRound DEF SameBody
    <3>3. Served(w, "out") /\ Typed(w) /\ w.state = "SENDING_BODY"
      BY <2>5, <2>7, <3>1, <3>2 DEF Round, Served, SameBody, SameState
    <3>4. /\ Kept(w, z) /\ SameBody(w, z) /\ SameTimers(w, z)
          /\ \A x : FlowInv(w, x) => FlowInv(z, x)
      BY <1>S, <3>3, SetOutput
    <3> HIDE DEF z
    <3>5. (\A f : In(w.events, f) => In(z.events, f)) /\ (Sure(w.events) => Sure(z.events))
      BY <3>3, <3>4, LaterHolds DEF Kept, Typed
    <3>6. Typed(z) /\ z.place \in {"used", "pool"} /\ FlowInv(z, "out")
      BY <3>3, <3>4 DEF Kept, Served, ConnInv, SameRequest
    <3>7. BodyInv(z) /\ WatchInv(z) /\ StateInv(z)
      BY <3>3, <3>4, <3>5
      DEF Served, ConnInv, BodyInv, WatchInv, StateInv, Kept, SameRequest, SameTimers, SameBody, SameState,
          StateTimer
    <3>8. Round(w, z, "out")
      BY <3>4, <3>6, <3>7 DEF Round, Served, ConnInv, SameTimers, SameBody, SameState
    <3> QED BY <2>6, <3>2, <3>8, RoundTransitive
  <2> HIDE DEF z
  <2>8. Round(t, IF u.is["req"] THEN u ELSE z, "out") BY <1>3, <2>5, <2>7, RoundTransitive
  <2> QED BY <1>2, <1>T, <2>1, <2>8, RoundTransitive
<1> QED BY <1>4, <1>5

(* Rounds that change neither the state nor the timers.                    *)
Quiet(s, t, x) == Round(s, t, x) /\ SameState(s, t) /\ SameTimers(s, t)

LEMMA QuietTransitive ==
  ASSUME NEW x, NEW s, NEW t, NEW u, Served(s, x), Quiet(s, t, x), Quiet(t, u, x) PROVE Quiet(s, u, x)
<1>1. Round(s, u, x) BY RoundTransitive DEF Quiet, Served
<1> QED BY <1>1 DEF Quiet, SameState, SameTimers

LEMMA QuietServed ==
  ASSUME NEW x, NEW s, NEW t, Quiet(s, t, x)
  PROVE  /\ Served(t, x) /\ Typed(t) /\ t.state = s.state /\ t.wait100 = s.wait100 /\ t.timers = s.timers
         /\ t.pair = s.pair /\ t.place = s.place
BY DEF Quiet, Round, Served, SameState, SameTimers, Kept, SameRequest

LEMMA QuietReflexive == ASSUME NEW x, NEW s, Served(s, x) PROVE Quiet(s, s, x)
BY RoundReflexive DEF Quiet, SameState, SameTimers

LEMMA QuietData ==
  ASSUME NEW x, NEW s, NEW t, Served(s, x), DOMAIN t = Fields, t.events = s.events,
         SameRequest(s, t), SameBody(s, t), SameTimers(s, t), SameStreams(s, t)
  PROVE  Quiet(s, t, x)
<1>1. Typed(s) BY DEF Served
<1>2. t.room \in Nat /\ t.rb_req \in Nat BY <1>1 DEF Typed, SameBody, SameState
<1>3. Calm(s, t) BY <1>1, <1>2, DataChange
<1> QED BY <1>3, QuietRound DEF Quiet, SameBody

LEMMA QuietCalls ==
  ASSUME NEW x, NEW s, Served(s, x)
  PROVE  /\ \A m \in Messages : Quiet(s, nxe_publish(s, m), x) /\ In(nxe_publish(s, m).events, m)
         /\ \A y \in Streams : Quiet(s, nxe_istream_set_ready(s, y), x)
         /\ \A y \in Streams \ {"out"} : Quiet(s, nxe_istream_unset_ready(s, y), x)
         /\ \A y \in Streams \ {"out"} : Quiet(s, nxe_ostream_unset_ready(s, y), x)
         /\ \A y \in Streams \ {"req"} : Quiet(s, nxe_ostream_set_ready(s, y), x)
         /\ \A size : Quiet(s, sock_data_recv_read(s, size), x)
         /\ s.state # "SENDING_BODY" => Quiet(s, nxe_istream_unset_ready(s, "out"), x)
<1>1. Typed(s) BY DEF Served
<1>2. ASSUME NEW m \in Messages PROVE Quiet(s, nxe_publish(s, m), x) /\ In(nxe_publish(s, m).events, m)
  <2> DEFINE t == nxe_publish(s, m)
  <2>1. Calm(s, t) /\ SameBody(s, t) /\ SameTimers(s, t) /\ In(t.events, m) BY <1>1, Publish
  <2> HIDE DEF t
  <2>2. Quiet(s, t, x) BY <2>1, QuietRound DEF Quiet, SameBody
  <2> QED BY <2>1, <2>2 DEF t
<1>3. ASSUME NEW y \in Streams PROVE Quiet(s, nxe_istream_set_ready(s, y), x)
  <2> DEFINE t == nxe_istream_set_ready(s, y)
  <2>1. Calm(s, t) /\ SameBody(s, t) /\ SameTimers(s, t) BY <1>1, SetInput
  <2> HIDE DEF t
  <2>2. Quiet(s, t, x) BY <2>1, QuietRound DEF Quiet, SameBody
  <2> QED BY <2>2 DEF t
<1>4. ASSUME NEW y \in Streams, y = "out" => s.state # "SENDING_BODY"
      PROVE  Quiet(s, nxe_istream_unset_ready(s, y), x)
  <2> DEFINE t == nxe_istream_unset_ready(s, y)
  <2>1. y = "out" => ~ s.os["req"] BY <1>4 DEF Served, ConnInv, StateInv
  <2>2. Calm(s, t) /\ SameBody(s, t) /\ SameTimers(s, t) BY <1>1, <2>1, UnsetInput
  <2> HIDE DEF t
  <2>3. Quiet(s, t, x) BY <2>2, QuietRound DEF Quiet, SameBody
  <2> QED BY <2>3 DEF t
<1>5. ASSUME NEW y \in Streams \ {"out"} PROVE Quiet(s, nxe_ostream_unset_ready(s, y), x)
  <2> DEFINE t == nxe_ostream_unset_ready(s, y)
  <2>1. Calm(s, t) /\ SameBody(s, t) /\ SameTimers(s, t) BY <1>1, UnsetOutput
  <2> HIDE DEF t
  <2>2. Quiet(s, t, x) BY <2>1, QuietRound DEF Quiet, SameBody
  <2> QED BY <2>2 DEF t
<1>6. ASSUME NEW y \in Streams \ {"req"} PROVE Quiet(s, nxe_ostream_set_ready(s, y), x)
  <2> DEFINE t == nxe_ostream_set_ready(s, y)
  <2>1. Calm(s, t) /\ SameBody(s, t) /\ SameTimers(s, t) BY <1>1, SetOutput
  <2> HIDE DEF t
  <2>2. Quiet(s, t, x) BY <2>1, QuietRound DEF Quiet, SameBody
  <2> QED BY <2>2 DEF t
<1>7. ASSUME NEW size PROVE Quiet(s, sock_data_recv_read(s, size), x)
  <2> DEFINE t == sock_data_recv_read(s, size)
  <2>1. Calm(s, t) /\ SameBody(s, t) /\ SameTimers(s, t) BY <1>1, Receive
  <2> HIDE DEF t
  <2>2. Quiet(s, t, x) BY <2>1, QuietRound DEF Quiet, SameBody
  <2> QED BY <2>2 DEF t
<1>8. "out" \in Streams BY DEF Streams
<1> QED BY <1>2, <1>3, <1>4, <1>5, <1>6, <1>7, <1>8

LEMMA OutputRound ==
  ASSUME NEW s, Served(s, "out"), Flowing(s, "out"), NEW size \in Nat
  PROVE  Round(s, data_out_do_write(s, size), "out")
<1> DEFINE a == nxe_unset_timer(s, "write")
           b == nxe_publish(a, "connected")
           c == [b EXCEPT !.state = "SENDING_HEADERS"]
           u == IF s.state = "CONNECTING" THEN c ELSE a
           v == nxe_set_timer(u, "write")
<1>S. /\ "out" \in Streams /\ "connected" \in Messages /\ "write" \in Timers
  BY DEF Streams, Messages, HcpMessages, Timers, HcpTimers
<1>T. Typed(s) /\ BodyInv(s) /\ ConnInv(s, "out") BY DEF Served
<1>1. /\ Calm(s, a) /\ SameBody(s, a) /\ SameStreams(s, a) /\ a.timers = s.timers \ {"write"}
  BY <1>T, UnsetTimer
<1> HIDE DEF a
<1>A. Typed(a) BY <1>1, CalmTyped
<1>2. /\ Calm(a, u) /\ u.timers = a.timers /\ SameStreams(a, u)
      /\ u.wait100 = a.wait100 /\ u.sending = a.sending /\ u.fwd = a.fwd /\ u.bodies = a.bodies
      /\ u.state = IF s.state = "CONNECTING" THEN "SENDING_HEADERS" ELSE s.state
  <2>1. CASE s.state = "CONNECTING"
    <3>1. Calm(a, b) /\ SameBody(a, b) /\ SameTimers(a, b) /\ SameStreams(a, b) BY <1>A, <1>S, Publish
    <3> HIDE DEF b
    <3>2. Typed(b) BY <3>1, CalmTyped
    <3>3. /\ DOMAIN c = Fields /\ c.events = b.events /\ SameRequest(b, c) /\ SameTimers(b, c)
          /\ SameStreams(b, c) /\ c.room = b.room /\ c.rb_req = b.rb_req
          /\ c.state = "SENDING_HEADERS" /\ c.wait100 = b.wait100 /\ c.sending = b.sending
          /\ c.fwd = b.fwd /\ c.bodies = b.bodies
      BY <3>2 DEF Typed, Fields, SameRequest, SameTimers, SameStreams
    <3>4. u = c BY <2>1
    <3> HIDE DEF c, u
    <3>5. c.room \in Nat /\ c.rb_req \in Nat BY <3>2, <3>3 DEF Typed
    <3>6. Calm(b, c) BY <3>2, <3>3, <3>5, DataChange
    <3>7. Calm(a, c) BY <1>A, <3>1, <3>6, CalmTransitive
    <3> QED BY <2>1, <3>1, <3>3, <3>4, <3>7 DEF SameBody, SameState, SameTimers, SameStreams
  <2>2. CASE s.state # "CONNECTING"
    <3>1. u = a BY <2>2
    <3> HIDE DEF u
    <3> QED BY <1>1, <1>A, <2>2, <3>1, CalmReflexive DEF SameBody, SameState, SameStreams
  <2> QED BY <2>1, <2>2
<1> HIDE DEF u
<1>3. Calm(u, v) /\ SameBody(u, v) /\ SameStreams(u, v) /\ v.timers = u.timers \cup {"write"}
  BY <1>2, <1>S, CalmTyped, SetTimer
<1>V. data_out_do_write(s, size) =
        CASE v.state = "SENDING_HEADERS" -> WriteHeaders(v)
          [] v.state = "SENDING_BODY" -> WriteBody(v, size)
          [] OTHER -> nxe_istream_unset_ready(v, "out")
  BY DEF data_out_do_write, v, u, c, b, a
<1> HIDE DEF v
<1>4. Calm(s, v)
  <2>1. Calm(s, u) BY <1>1, <1>2, <1>T, CalmTransitive
  <2> QED BY <1>3, <1>T, <2>1, CalmTransitive
<1>5. /\ v.timers = (s.timers \ {"write"}) \cup {"write"} /\ v.wait100 = s.wait100
      /\ v.sending = s.sending /\ v.fwd = s.fwd /\ v.bodies = s.bodies
      /\ v.state = (IF s.state = "CONNECTING" THEN "SENDING_HEADERS" ELSE s.state)
      /\ v.is = s.is /\ v.os = s.os
  BY <1>1, <1>2, <1>3 DEF SameBody, SameState, SameStreams
<1>6. Flowing(v, "out") BY <1>4, <1>5 DEF Flowing, Calm, Kept, SameRequest
<1>7. Round(s, v, "out")
  <2>1. BodyInv(v) BY <1>5, <1>T DEF BodyInv
  <2>2. StateTimer(s) \in s.timers => StateTimer(v) \in v.timers
    <3>1. CASE s.state = "CONNECTING" BY <1>5, <3>1, TimerOfState
    <3>2. CASE s.state # "CONNECTING"
      <4>1. StateTimer(v) = StateTimer(s) BY <1>5, <3>2 DEF StateTimer
      <4> QED BY <1>5, <4>1
    <3> QED BY <3>1, <3>2
  <2>3. /\ v.wait100 => v.state \in {"WAITING_FOR_RESPONSE", "RECEIVING_HEADERS"}
        /\ v.os["req"] => v.state = "SENDING_BODY"
    BY <1>5, <1>T DEF ConnInv, StateInv
  <2> QED BY <1>4, <1>5, <2>1, <2>2, <2>3, ToRound
<1>8. Served(v, "out") /\ "write" \in v.timers BY <1>5, <1>7 DEF Round
<1>9. CASE v.state = "SENDING_HEADERS"
  <2>1. Round(v, WriteHeaders(v), "out") BY <1>8, <1>9, HeadersWritten
  <2> QED BY <1>7, <1>9, <1>T, <1>V, <2>1, RoundTransitive
<1>10. CASE v.state = "SENDING_BODY"
  <2>1. Round(v, WriteBody(v, size), "out") BY <1>6, <1>8, <1>10, BodyPassedOn
  <2>2. data_out_do_write(s, size) = WriteBody(v, size) BY <1>10, <1>V
  <2> QED BY <1>7, <1>T, <2>1, <2>2, RoundTransitive
<1>11. CASE v.state \notin {"SENDING_HEADERS", "SENDING_BODY"}
  <2>1. Round(v, nxe_istream_unset_ready(v, "out"), "out")
    BY <1>8, <1>11, QuietCalls DEF Quiet
  <2>2. data_out_do_write(s, size) = nxe_istream_unset_ready(v, "out") BY <1>11, <1>V
  <2> QED BY <1>7, <1>T, <2>1, <2>2, RoundTransitive
<1> QED BY <1>9, <1>10, <1>11

-----------------------------------------------------------------------------
(* Receiving the response.                                                 *)

LEMMA ExchangeEnds ==
  ASSUME NEW x, NEW s, Served(s, x), s.state = "RECEIVING_BODY"
  PROVE  Round(s, request_complete(s), x)
<1> DEFINE t == nxe_publish(s, "complete")
           e == nxe_publish(t, "error")
           u == IF s.queued THEN e ELSE t
           i == nxe_ostream_unset_ready(u, "in")
           v == nxe_istream_unset_ready(i, "out")
           a == nxe_unset_timer(v, "read")
           w == nxe_set_timer(a, "keep_alive")
           z == [w EXCEPT !.done = TRUE, !.state = "IDLE"]
<1>S. /\ "in" \in Streams \ {"out"} /\ "complete" \in Messages /\ "error" \in Messages
      /\ "keep_alive" \in Timers
  BY DEF Streams, Messages, HcpMessages, Timers, HcpTimers
<1>0. request_complete(s) = z BY DEF request_complete
<1>1. Quiet(s, t, x) BY <1>S, QuietCalls
<1> HIDE DEF t
<1>2. Quiet(t, e, x) BY <1>1, <1>S, QuietServed, QuietCalls
<1> HIDE DEF e
<1>3. Quiet(s, u, x) BY <1>1, <1>2, QuietTransitive
<1> HIDE DEF u
<1>4. Quiet(u, i, x) BY <1>3, <1>S, QuietServed, QuietCalls
<1> HIDE DEF i
<1>5. Quiet(s, i, x) BY <1>3, <1>4, QuietTransitive
<1>6. Served(i, x) /\ i.state # "SENDING_BODY" BY <1>5, QuietServed
<1>7. Quiet(i, v, x) BY <1>6, QuietCalls
<1> HIDE DEF v
<1>8. Quiet(s, v, x) BY <1>5, <1>7, QuietTransitive
<1>9. Served(v, x) /\ Typed(v) /\ v.state = "RECEIVING_BODY" BY <1>8, QuietServed
<1>10. /\ Calm(v, a) /\ SameBody(v, a) /\ a.timers = v.timers \ {"read"} BY <1>9, UnsetTimer
<1> HIDE DEF a
<1>11. /\ Calm(a, w) /\ SameBody(a, w) /\ w.timers = a.timers \cup {"keep_alive"}
  BY <1>10, <1>S, CalmTyped, SetTimer
<1> HIDE DEF w
<1>12. Typed(w) BY <1>11, CalmTyped
<1>13. /\ DOMAIN z = Fields /\ z.events = w.events /\ SameRequest(w, z) /\ SameTimers(w, z)
       /\ SameStreams(w, z) /\ z.room = w.room /\ z.rb_req = w.rb_req
       /\ z.state = "IDLE" /\ z.wait100 = w.wait100 /\ z.sending = w.sending
       /\ z.fwd = w.fwd /\ z.bodies = w.bodies
  BY <1>12 DEF Typed, Fields, SameRequest, SameTimers, SameStreams
<1> HIDE DEF z
<1>14. z.room \in Nat /\ z.rb_req \in Nat BY <1>12, <1>13 DEF Typed
<1>15. Calm(w, z) BY <1>12, <1>13, <1>14, DataChange
<1>16. Calm(v, z)
  <2>1. Calm(v, w) BY <1>9, <1>10, <1>11, CalmTransitive
  <2> QED BY <1>9, <1>15, <2>1, CalmTransitive
<1>17. /\ ~ v.wait100 /\ ~ v.os["req"] /\ BodyInv(v) BY <1>9 DEF Served, ConnInv, StateInv
<1>18. BodyInv(z) /\ ~ z.wait100 BY <1>10, <1>11, <1>13, <1>17 DEF BodyInv, SameBody, SameState
<1>19. ~ z.os["req"] BY <1>16, <1>17 DEF Calm, KeepsFlow
<1>20. "keep_alive" \in z.timers /\ ("backend" \in z.timers => "backend" \in v.timers)
  BY <1>10, <1>11, <1>13 DEF SameTimers
<1>21. StateTimer(z) = "keep_alive" BY <1>13, TimerOfState
<1>22. Round(v, z, x) BY <1>9, <1>16, <1>18, <1>19, <1>20, <1>21, ToRound
<1> QED BY <1>0, <1>8, <1>22, RoundTransitive DEF Quiet, Served

LEMMA BadIsReported ==
  ASSUME NEW x, NEW s, Served(s, x) PROVE Round(s, BadResponse(s), x)
<1> DEFINE a == nxe_unset_timer(s, "read")
           b == nxe_ostream_unset_ready(a, "in")
           c == nxe_publish(b, "error")
<1>S. "in" \in Streams /\ "in" # "out" /\ "error" \in Messages BY DEF Streams, Messages, HcpMessages
<1>T. Typed(s) /\ BodyInv(s) /\ ConnInv(s, x) BY DEF Served
<1>0. BadResponse(s) = c BY DEF BadResponse
<1>1. Calm(s, a) /\ SameBody(s, a) /\ a.timers = s.timers \ {"read"} BY <1>T, UnsetTimer
<1> HIDE DEF a
<1>2. Calm(a, b) /\ SameBody(a, b) /\ SameTimers(a, b) BY <1>1, <1>S, CalmTyped, UnsetOutput
<1> HIDE DEF b
<1>3. Calm(b, c) /\ SameBody(b, c) /\ SameTimers(b, c) /\ In(c.events, "error")
  BY <1>2, <1>S, CalmTyped, Publish
<1> HIDE DEF c
<1>4. Calm(s, c)
  <2>1. Calm(s, b) BY <1>1, <1>2, <1>T, CalmTransitive
  <2> QED BY <1>3, <1>T, <2>1, CalmTransitive
<1>5. /\ c.state = s.state /\ c.wait100 = s.wait100 /\ c.timers = s.timers \ {"read"}
      /\ c.sending = s.sending /\ c.fwd = s.fwd /\ c.bodies = s.bodies
  BY <1>1, <1>2, <1>3 DEF SameBody, SameState, SameTimers
<1>6. BodyInv(c) BY <1>5, <1>T DEF BodyInv
<1>7. c.os["req"] => c.state = "SENDING_BODY" BY <1>4, <1>5, <1>T DEF Calm, KeepsFlow, ConnInv, StateInv
<1>8. c.wait100 => c.state \in {"WAITING_FOR_RESPONSE", "RECEIVING_HEADERS"}
  BY <1>5, <1>T DEF ConnInv, StateInv
<1>9. Round(s, c, x) BY <1>3, <1>4, <1>5, <1>6, <1>7, <1>8, ToRound
<1> QED BY <1>0, <1>9

LEMMA DecodedQuietly ==
  ASSUME NEW x, NEW s, Served(s, x), NEW got PROVE Quiet(s, Decoded(s, got), x)
<1>1. CASE Chunked(s.resp)
  <2> DEFINE e == nxe_publish(s, "error")
             t == IF Holds(got, "junk") THEN e ELSE s
             z == [t EXCEPT !.all = @ \/ (~ Holds(got, "junk") /\ Holds(got, "end"))]
  <2>0. Decoded(s, got) = z BY <1>1 DEF Decoded
  <2>1. "error" \in Messages BY DEF Messages, HcpMessages
  <2>2. Quiet(s, e, x) BY <2>1, QuietCalls
  <2> HIDE DEF e
  <2>3. Quiet(s, t, x) BY <2>2, QuietReflexive
  <2> HIDE DEF t
  <2>4. Served(t, x) /\ Typed(t) BY <2>3, QuietServed
  <2>5. /\ DOMAIN z = Fields /\ z.events = t.events /\ SameRequest(t, z) /\ SameBody(t, z)
        /\ SameTimers(t, z) /\ SameStreams(t, z)
    BY <2>4 DEF Typed, Fields, SameRequest, SameBody, SameState, SameTimers, SameStreams
  <2> HIDE DEF z
  <2>6. Quiet(t, z, x) BY <2>4, <2>5, QuietData
  <2> QED BY <2>0, <2>3, <2>6, QuietTransitive
<1>2. CASE ~ Chunked(s.resp)
  <2>1. Decoded(s, got) = s BY <1>2 DEF Decoded
  <2> QED BY <2>1, QuietReflexive
<1> QED BY <1>1, <1>2

LEMMA StoredQuietly ==
  ASSUME NEW x, NEW s, Served(s, x), NEW n, NEW eof PROVE Quiet(s, Stored(s, n, eof), x)
<1> DEFINE t == [s EXCEPT !.rb_resp = @ + n, !.received = @ + n, !.eof_resp = @ \/ eof]
           u == nxe_ostream_unset_ready(t, "resp")
<1>0. Stored(s, n, eof) = IF n > 0 /\ t.rb_resp = RbufSize THEN u ELSE t BY DEF Stored
<1>1. Typed(s) BY DEF Served
<1>2. /\ DOMAIN t = Fields /\ t.events = s.events /\ SameRequest(s, t) /\ SameBody(s, t)
      /\ SameTimers(s, t) /\ SameStreams(s, t)
  BY <1>1 DEF Typed, Fields, SameRequest, SameBody, SameState, SameTimers, SameStreams
<1> HIDE DEF t
<1>3. Quiet(s, t, x) BY <1>2, QuietData
<1>4. "resp" \in Streams \ {"out"} BY DEF Streams
<1>5. Quiet(t, u, x) BY <1>3, <1>4, QuietServed, QuietCalls
<1> HIDE DEF u
<1>6. Quiet(s, u, x) BY <1>3, <1>5, QuietTransitive
<1> QED BY <1>0, <1>3, <1>6

LEMMA ResponseFinished ==
  ASSUME NEW x, NEW s, Served(s, x), s.state = "RECEIVING_BODY", NEW n
  PROVE  Round(s, Finished(s, n), x)
<1> DEFINE t == request_complete(s)
           u == nxe_istream_unset_ready(t, "resp")
           v == Stored(u, n, TRUE)
<1>0. Finished(s, n) = v BY DEF Finished
<1>1. Round(s, t, x) BY ExchangeEnds
<1> HIDE DEF t
<1>2. Served(t, x) BY <1>1 DEF Round
<1>3. "resp" \in Streams \ {"out"} BY DEF Streams
<1>4. Quiet(t, u, x) BY <1>2, <1>3, QuietCalls
<1> HIDE DEF u
<1>5. Quiet(u, v, x) BY <1>4, QuietServed, StoredQuietly
<1> HIDE DEF v
<1>6. Quiet(t, v, x) BY <1>2, <1>4, <1>5, QuietTransitive
<1> QED BY <1>0, <1>1, <1>6, RoundTransitive DEF Quiet, Served

LEMMA SocketIsRead ==
  ASSUME NEW x, NEW s, Served(s, x), s.state = "RECEIVING_BODY", NEW size, NEW before
  PROVE  Round(s, ReadSocket(s, size, before), x)
<1> DEFINE got == Got(s, size)
           t == sock_data_recv_read(s, size)
           a == nxe_istream_unset_ready(t, "resp")
           b == nxe_ostream_set_ready(a, "in")
           u == IF t.is["in"] THEN t ELSE b
           v == Decoded(u, got)
           n == before + Content(got)
           w == [v EXCEPT !.all = TRUE]
<1>0. ReadSocket(s, size, before) = IF v.all \/ Enough(s, n) THEN Finished(w, n) ELSE Stored(v, n, FALSE)
  BY DEF ReadSocket
<1>S. "resp" \in Streams \ {"out"} /\ "in" \in Streams \ {"req"} BY DEF Streams
<1>1. Quiet(s, t, x) BY QuietCalls
<1> HIDE DEF t
<1>2. Quiet(t, a, x) BY <1>1, <1>S, QuietServed, QuietCalls
<1> HIDE DEF a
<1>3. Quiet(a, b, x) BY <1>2, <1>S, QuietServed, QuietCalls
<1> HIDE DEF b
<1>4. Quiet(s, a, x) BY <1>1, <1>2, QuietTransitive
<1>5. Quiet(s, b, x) BY <1>3, <1>4, QuietTransitive
<1>6. Quiet(s, u, x) BY <1>1, <1>5
<1> HIDE DEF u, got
<1>7. Quiet(u, v, x) BY <1>6, QuietServed, DecodedQuietly
<1> HIDE DEF v
<1>8. Quiet(s, v, x) BY <1>6, <1>7, QuietTransitive
<1>9. Served(v, x) /\ Typed(v) /\ v.state = "RECEIVING_BODY" BY <1>8, QuietServed
<1>10. /\ DOMAIN w = Fields /\ w.events = v.events /\ SameRequest(v, w) /\ SameBody(v, w)
       /\ SameTimers(v, w) /\ SameStreams(v, w)
  BY <1>9 DEF Typed, Fields, SameRequest, SameBody, SameState, SameTimers, SameStreams
<1> HIDE DEF w, n
<1>11. Quiet(v, w, x) BY <1>9, <1>10, QuietData
<1>12. Served(w, x) /\ Typed(w) /\ w.state = "RECEIVING_BODY" BY <1>9, <1>11, QuietServed
<1>13. Round(w, Finished(w, n), x) BY <1>12, ResponseFinished
<1>14. Round(v, Stored(v, n, FALSE), x) BY <1>9, StoredQuietly DEF Quiet
<1>15. Round(s, v, x) /\ Round(v, w, x) BY <1>8, <1>11 DEF Quiet
<1>16. Round(s, w, x) BY <1>15, RoundTransitive DEF Served
<1>17. Round(s, Finished(w, n), x) BY <1>13, <1>16, RoundTransitive DEF Served
<1>18. Round(s, Stored(v, n, FALSE), x) BY <1>14, <1>15, RoundTransitive DEF Served
<1> QED BY <1>0, <1>17, <1>18

LEMMA BodyIsRead ==
  ASSUME NEW x, NEW s, Served(s, x), NEW size PROVE Round(s, resp_body_out_read(s, size), x)
<1> DEFINE n == Minimum(s.chunk, size)
           t == [s EXCEPT !.chunk = IF s.chunk <= size THEN NoChunk ELSE @ - size]
           e == [s EXCEPT !.eof_resp = TRUE]
<1>S. "resp" \in Streams \ {"out"} /\ "in" \in Streams \ {"req"} BY DEF Streams
<1>1. Typed(s) BY DEF Served
<1>2. /\ DOMAIN t = Fields /\ t.events = s.events /\ SameRequest(s, t) /\ SameBody(s, t)
      /\ SameTimers(s, t) /\ SameStreams(s, t)
  BY <1>1 DEF Typed, Fields, SameRequest, SameBody, SameState, SameTimers, SameStreams
<1>3. /\ DOMAIN e = Fields /\ e.events = s.events /\ SameRequest(s, e) /\ SameBody(s, e)
      /\ SameTimers(s, e) /\ SameStreams(s, e)
  BY <1>1 DEF Typed, Fields, SameRequest, SameBody, SameState, SameTimers, SameStreams
<1>4. CASE s.done
  <2> DEFINE u == nxe_istream_unset_ready(e, "resp")
  <2>1. resp_body_out_read(s, size) = u BY <1>4 DEF resp_body_out_read
  <2> HIDE DEF e
  <2>2. Quiet(s, e, x) BY <1>3, QuietData
  <2>3. Quiet(e, u, x) BY <1>S, <2>2, QuietServed, QuietCalls
  <2> HIDE DEF u
  <2>4. Quiet(s, u, x) BY <2>2, <2>3, QuietTransitive
  <2> QED BY <2>1, <2>4 DEF Quiet
<1>5. CASE ~ s.done /\ s.state # "RECEIVING_BODY"
  <2> DEFINE a == nxe_istream_unset_ready(s, "resp")
             b == nxe_ostream_set_ready(a, "in")
  <2>1. resp_body_out_read(s, size) = b BY <1>5 DEF resp_body_out_read
  <2>2. Quiet(s, a, x) BY <1>S, QuietCalls
  <2> HIDE DEF a
  <2>3. Quiet(a, b, x) BY <1>S, <2>2, QuietServed, QuietCalls
  <2> HIDE DEF b
  <2>4. Quiet(s, b, x) BY <2>2, <2>3, QuietTransitive
  <2> QED BY <2>1, <2>4 DEF Quiet
<1>6. CASE ~ s.done /\ s.state = "RECEIVING_BODY" /\ s.chunk = NoChunk
  <2>1. resp_body_out_read(s, size) = ReadSocket(s, size, 0) BY <1>6 DEF resp_body_out_read
  <2> QED BY <1>6, <2>1, SocketIsRead
<1>7. CASE ~ s.done /\ s.state = "RECEIVING_BODY" /\ s.chunk # NoChunk
  <2>1. resp_body_out_read(s, size) =
          CASE s.all -> Finished(t, n)
            [] ~ s.all /\ n = size -> Stored(t, n, FALSE)
            [] OTHER -> ReadSocket(t, size - n, n)
    BY <1>7 DEF resp_body_out_read
  <2> HIDE DEF t, n
  <2>2. Quiet(s, t, x) BY <1>2, QuietData
  <2>3. Served(t, x) /\ t.state = "RECEIVING_BODY" BY <1>7, <2>2, QuietServed
  <2>4. CASE s.all
    <3>1. resp_body_out_read(s, size) = Finished(t, n) BY <2>1, <2>4
    <3>2. Round(t, Finished(t, n), x) BY <2>3, ResponseFinished
    <3> QED BY <1>1, <2>2, <3>1, <3>2, RoundTransitive DEF Quiet
  <2>5. CASE ~ s.all /\ n = size
    <3>1. resp_body_out_read(s, size) = Stored(t, n, FALSE) BY <2>1, <2>5
    <3>2. Round(t, Stored(t, n, FALSE), x) BY <2>3, StoredQuietly DEF Quiet
    <3> QED BY <1>1, <2>2, <3>1, <3>2, RoundTransitive DEF Quiet
  <2>6. CASE ~ s.all /\ n # size
    <3>1. resp_body_out_read(s, size) = ReadSocket(t, size - n, n) BY <2>1, <2>6
    <3>2. Round(t, ReadSocket(t, size - n, n), x) BY <2>3, SocketIsRead
    <3> QED BY <1>1, <2>2, <3>1, <3>2, RoundTransitive DEF Quiet
  <2> QED BY <2>4, <2>5, <2>6
<1> QED BY <1>4, <1>5, <1>6, <1>7

LEMMA ResponseRingTakes ==
  ASSUME NEW x, NEW s, Served(s, x) PROVE Round(s, rb_resp_do_read(s), x)
<1> DEFINE t == [s EXCEPT !.tripped = @ \/ s.rb_resp >= RbufSize]
           m == Offered(s)
<1>0. rb_resp_do_read(s) = resp_body_out_read(t, m) BY DEF rb_resp_do_read
<1>1. Typed(s) BY DEF Served
<1>2. /\ DOMAIN t = Fields /\ t.events = s.events /\ SameRequest(s, t) /\ SameBody(s, t)
      /\ SameTimers(s, t) /\ SameStreams(s, t)
  BY <1>1 DEF Typed, Fields, SameRequest, SameBody, SameState, SameTimers, SameStreams
<1> HIDE DEF t, m
<1>3. Quiet(s, t, x) BY <1>2, QuietData
<1>4. Round(t, resp_body_out_read(t, m), x) BY <1>3, QuietServed, BodyIsRead
<1> QED BY <1>0, <1>1, <1>3, <1>4, RoundTransitive DEF Quiet

LEMMA ResponseBegins ==
  ASSUME NEW x, NEW s, Served(s, x), s.state = "WAITING_FOR_RESPONSE"
  PROVE  LET t == BeginResponse(s) IN Round(s, t, x) /\ t.state = "RECEIVING_HEADERS"
<1> DEFINE a == nxe_unset_timer(s, "read")
           b == nxe_unset_timer(a, "100continue")
           c == nxe_set_timer(b, "read")
           z == [c EXCEPT !.state = "RECEIVING_HEADERS"]
<1>T. Typed(s) /\ BodyInv(s) /\ ConnInv(s, x) BY DEF Served
<1>0. BeginResponse(s) = z BY DEF BeginResponse
<1>1. Calm(s, a) /\ SameBody(s, a) /\ a.timers = s.timers \ {"read"} BY <1>T, UnsetTimer
<1> HIDE DEF a
<1>2. Calm(a, b) /\ SameBody(a, b) /\ b.timers = a.timers \ {"100continue"} BY <1>1, CalmTyped, UnsetTimer
<1> HIDE DEF b
<1>3. Calm(b, c) /\ SameBody(b, c) /\ c.timers = b.timers \cup {"read"}
  <2>1. "read" \in Timers BY DEF Timers, HcpTimers
  <2> QED BY <1>2, <2>1, CalmTyped, SetTimer
<1> HIDE DEF c
<1>4. Typed(c) BY <1>3, CalmTyped
<1>5. /\ DOMAIN z = Fields /\ z.events = c.events /\ SameRequest(c, z) /\ SameTimers(c, z)
      /\ SameStreams(c, z) /\ z.room = c.room /\ z.rb_req = c.rb_req
      /\ z.state = "RECEIVING_HEADERS" /\ z.wait100 = c.wait100 /\ z.sending = c.sending
      /\ z.fwd = c.fwd /\ z.bodies = c.bodies
  BY <1>4 DEF Typed, Fields, SameRequest, SameTimers, SameStreams
<1> HIDE DEF z
<1>6. z.room \in Nat /\ z.rb_req \in Nat BY <1>4, <1>5 DEF Typed
<1>7. Calm(c, z) BY <1>4, <1>5, <1>6, DataChange
<1>8. Calm(s, z)
  <2>1. Calm(s, b) BY <1>1, <1>2, <1>T, CalmTransitive
  <2>2. Calm(s, c) BY <1>3, <1>T, <2>1, CalmTransitive
  <2> QED BY <1>7, <1>T, <2>2, CalmTransitive
<1>9. /\ z.sending = s.sending /\ z.fwd = s.fwd /\ z.bodies = s.bodies
      /\ "read" \in z.timers /\ ("backend" \in z.timers => "backend" \in s.timers)
  BY <1>1, <1>2, <1>3, <1>5 DEF SameBody, SameState, SameTimers
<1>10. BodyInv(z) BY <1>9, <1>T DEF BodyInv
<1>11. StateTimer(z) = "read" BY <1>5, TimerOfState
<1>12. ~ z.os["req"] BY <1>8, <1>T DEF Calm, KeepsFlow, ConnInv, StateInv
<1>13. Round(s, z, x) BY <1>5, <1>8, <1>9, <1>10, <1>11, <1>12, ToRound
<1> QED BY <1>0, <1>5, <1>13

LEMMA BackToTheBody ==
  ASSUME NEW x, NEW s, Served(s, x), s.state = "RECEIVING_HEADERS" PROVE Round(s, Continue(s), x)
<1> DEFINE a == nxe_ostream_unset_ready(s, "in")
           b == nxe_unset_timer(a, "read")
           c == nxe_set_timer(b, "write")
           u == nxe_istream_set_ready(c, "out")
           z == [u EXCEPT !.state = "SENDING_BODY", !.wait100 = FALSE, !.head = <<>>]
<1>S. "in" \in Streams /\ "in" # "out" /\ "out" \in Streams /\ "write" \in Timers
  BY DEF Streams, Timers, HcpTimers
<1>T. Typed(s) /\ BodyInv(s) /\ ConnInv(s, x) BY DEF Served
<1>0. Continue(s) = z BY DEF Continue
<1>1. Calm(s, a) /\ SameBody(s, a) /\ SameTimers(s, a) BY <1>S, <1>T, UnsetOutput
<1> HIDE DEF a
<1>2. Calm(a, b) /\ SameBody(a, b) /\ b.timers = a.timers \ {"read"} BY <1>1, CalmTyped, UnsetTimer
<1> HIDE DEF b
<1>3. Calm(b, c) /\ SameBody(b, c) /\ c.timers = b.timers \cup {"write"}
  BY <1>2, <1>S, CalmTyped, SetTimer
<1> HIDE DEF c
<1>4. Calm(c, u) /\ SameBody(c, u) /\ SameTimers(c, u) BY <1>3, <1>S, CalmTyped, SetInput
<1> HIDE DEF u
<1>5. Typed(u) BY <1>4, CalmTyped
<1>6. /\ DOMAIN z = Fields /\ z.events = u.events /\ SameRequest(u, z) /\ SameTimers(u, z)
      /\ SameStreams(u, z) /\ z.room = u.room /\ z.rb_req = u.rb_req
      /\ z.state = "SENDING_BODY" /\ z.wait100 = FALSE /\ z.sending = u.sending
      /\ z.fwd = u.fwd /\ z.bodies = u.bodies
  BY <1>5 DEF Typed, Fields, SameRequest, SameTimers, SameStreams
<1> HIDE DEF z
<1>7. z.room \in Nat /\ z.rb_req \in Nat BY <1>5, <1>6 DEF Typed
<1>8. Calm(u, z) BY <1>5, <1>6, <1>7, DataChange
<1>9. Calm(s, z)
  <2>1. Calm(s, b) BY <1>1, <1>2, <1>T, CalmTransitive
  <2>2. Calm(s, c) BY <1>3, <1>T, <2>1, CalmTransitive
  <2>3. Calm(s, u) BY <1>4, <1>T, <2>2, CalmTransitive
  <2> QED BY <1>8, <1>T, <2>3, CalmTransitive
<1>10. /\ z.sending = s.sending /\ z.fwd = s.fwd /\ z.bodies = s.bodies
       /\ "write" \in z.timers /\ ("backend" \in z.timers => "backend" \in s.timers)
  BY <1>1, <1>2, <1>3, <1>4, <1>6 DEF SameBody, SameState, SameTimers
<1>11. BodyInv(z) BY <1>10, <1>T DEF BodyInv
<1>12. StateTimer(z) = "write" BY <1>6, TimerOfState
<1>13. Round(s, z, x) BY <1>6, <1>9, <1>10, <1>11, <1>12, ToRound
<1> QED BY <1>0, <1>13

LEMMA HeadersReceived ==
  ASSUME NEW x, NEW s, Served(s, x), s.state = "RECEIVING_HEADERS", NEW r, NEW rest
  PROVE  Round(s, ResponseReceived(s, r, rest), x)
<1> DEFINE c == IF rest = <<>> THEN NoChunk ELSE Content(rest)
           t == [s EXCEPT !.resp = r, !.received = 0, !.head = <<>>, !.wait100 = FALSE, !.chunk = c]
           e == nxe_publish(t, "error")
           u == IF s.wait100 THEN e ELSE t
           v == Decoded(u, rest)
           more == rest # <<>> /\ Enough(t, Content(rest))
           w == [v EXCEPT !.all = @ \/ more]
           a == nxe_ostream_unset_ready(w, "in")
           y == nxe_publish(a, "response")
           b == [y EXCEPT !.state = "RECEIVING_BODY"]
           z == nxe_istream_set_ready(b, "resp")
           o == nxe_ostream_set_ready(z, "in")
<1>0. ResponseReceived(s, r, rest) = IF "resp" \in z.pair THEN o ELSE z BY DEF ResponseReceived
<1>S. /\ "in" \in Streams \ {"req"} /\ "in" \in Streams \ {"out"} /\ "resp" \in Streams
      /\ "error" \in Messages /\ "response" \in Messages
  BY DEF Streams, Messages, HcpMessages
<1>T. Typed(s) /\ BodyInv(s) /\ ConnInv(s, x) BY DEF Served
<1> HIDE DEF c
<1>1. /\ DOMAIN t = Fields /\ t.events = s.events /\ SameRequest(s, t) /\ SameTimers(s, t)
      /\ SameStreams(s, t) /\ t.room = s.room /\ t.rb_req = s.rb_req
      /\ t.state = s.state /\ t.wait100 = FALSE /\ t.sending = s.sending
      /\ t.fwd = s.fwd /\ t.bodies = s.bodies
  BY <1>T DEF Typed, Fields, SameRequest, SameTimers, SameStreams
<1> HIDE DEF t, more
<1>2. Round(s, t, x)
  <2>1. t.room \in Nat /\ t.rb_req \in Nat BY <1>1, <1>T DEF Typed
  <2>2. Calm(s, t) BY <1>1, <1>T, <2>1, DataChange
  <2>3. BodyInv(t) BY <1>1, <1>T DEF BodyInv
  <2>4. StateTimer(t) = StateTimer(s) BY <1>1, TimerOfState
  <2>5. ~ t.os["req"] BY <1>T, <2>2 DEF Calm, KeepsFlow, ConnInv, StateInv
  <2> QED BY <1>1, <2>2, <2>3, <2>4, <2>5, ToRound DEF SameTimers
<1>3. Served(t, x) BY <1>2 DEF Round
<1>4. Quiet(t, e, x) BY <1>3, <1>S, QuietCalls
<1> HIDE DEF e
<1>5. Quiet(t, u, x) BY <1>3, <1>4, QuietReflexive
<1> HIDE DEF u
<1>6. Quiet(u, v, x) BY <1>5, QuietServed, DecodedQuietly
<1> HIDE DEF v
<1>7. Served(v, x) /\ Typed(v) BY <1>6, QuietServed
<1>8. /\ DOMAIN w = Fields /\ w.events = v.events /\ SameRequest(v, w) /\ SameBody(v, w)
      /\ SameTimers(v, w) /\ SameStreams(v, w)
  BY <1>7 DEF Typed, Fields, SameRequest, SameBody, SameState, SameTimers, SameStreams
<1> HIDE DEF w
<1>9. Quiet(v, w, x) BY <1>7, <1>8, QuietData
<1>10. Quiet(w, a, x) BY <1>9, <1>S, QuietServed, QuietCalls
<1> HIDE DEF a
<1>11. Quiet(a, y, x) BY <1>10, <1>S, QuietServed, QuietCalls
<1> HIDE DEF y
<1>12. Quiet(t, y, x)
  <2>1. Quiet(t, v, x) BY <1>3, <1>5, <1>6, QuietTransitive
  <2>2. Quiet(t, w, x) BY <1>3, <1>9, <2>1, QuietTransitive
  <2>3. Quiet(t, a, x) BY <1>3, <1>10, <2>2, QuietTransitive
  <2> QED BY <1>3, <1>11, <2>3, QuietTransitive
<1>13. /\ Served(y, x) /\ Typed(y) /\ y.state = "RECEIVING_HEADERS" /\ ~ y.wait100
  BY <1>1, <1>12, QuietServed
<1>14. /\ DOMAIN b = Fields /\ b.events = y.events /\ SameRequest(y, b) /\ SameTimers(y, b)
       /\ SameStreams(y, b) /\ b.room = y.room /\ b.rb_req = y.rb_req
       /\ b.state = "RECEIVING_BODY" /\ b.wait100 = y.wait100 /\ b.sending = y.sending
       /\ b.fwd = y.fwd /\ b.bodies = y.bodies
  BY <1>13 DEF Typed, Fields, SameRequest, SameTimers, SameStreams
<1> HIDE DEF b
<1>15. Round(y, b, x)
  <2>1. b.room \in Nat /\ b.rb_req \in Nat BY <1>13, <1>14 DEF Typed
  <2>2. Calm(y, b) BY <1>13, <1>14, <2>1, DataChange
  <2>3. BodyInv(b) BY <1>13, <1>14 DEF BodyInv, Served
  <2>4. StateTimer(b) = StateTimer(y) BY <1>13, <1>14, TimerOfState
  <2>5. ~ b.os["req"] BY <1>13, <2>2 DEF Calm, KeepsFlow, Served, ConnInv, StateInv
  <2> QED BY <1>13, <1>14, <2>2, <2>3, <2>4, <2>5, ToRound DEF SameTimers
<1>16. Served(b, x) BY <1>15 DEF Round
<1>17. Quiet(b, z, x) BY <1>16, <1>S, QuietCalls
<1> HIDE DEF z
<1>18. Quiet(z, o, x) BY <1>17, <1>S, QuietServed, QuietCalls
<1> HIDE DEF o
<1>19. Quiet(b, o, x) BY <1>16, <1>17, <1>18, QuietTransitive
<1>20. Round(s, b, x)
  <2>1. Round(s, y, x) BY <1>2, <1>12, <1>T, RoundTransitive DEF Quiet
  <2> QED BY <1>15, <1>T, <2>1, RoundTransitive
<1>21. Round(s, z, x) /\ Round(s, o, x) BY <1>17, <1>19, <1>20, <1>T, RoundTransitive DEF Quiet
<1> QED BY <1>0, <1>21

LEMMA HeadersRead ==
  ASSUME NEW x, NEW s, Served(s, x), s.state = "RECEIVING_HEADERS" PROVE Round(s, ReadHeaders(s), x)
<1> DEFINE size == HeadRoom - Len(s.head)
           t == sock_data_recv_read(s, size)
           got == Got(s, size)
           head == s.head \o got
           ends == {i \in 1 .. Len(head) : head[i].piece \in {"head", "100", "bad"}}
           i == CHOOSE j \in ends : \A k \in ends : j <= k
           e == head[i]
           rest == SubSeq(head, i + 1, Len(head))
           g == [t EXCEPT !.head = head]
<1>0. ReadHeaders(s) =
        CASE got = <<>> -> t
          [] got # <<>> /\ ends = {} ->
               IF Len(head) >= MaxHeaders THEN BadResponse(t) ELSE g
          [] OTHER ->
               CASE e.piece = "bad" -> BadResponse(t)
                 [] e.piece = "100" /\ s.wait100 -> Continue(t)
                 [] e.piece = "100" /\ ~ s.wait100 -> ResponseReceived(t, NoResponse, rest)
                 [] OTHER -> ResponseReceived(t, e, rest)
  BY DEF ReadHeaders
<1>1. Quiet(s, t, x) BY QuietCalls
<1> HIDE DEF size, t, got, e, rest, ends
<1>2. Served(t, x) /\ Typed(t) /\ t.state = "RECEIVING_HEADERS" BY <1>1, QuietServed
<1>3. /\ DOMAIN g = Fields /\ g.events = t.events /\ SameRequest(t, g) /\ SameBody(t, g)
      /\ SameTimers(t, g) /\ SameStreams(t, g)
  <2> HIDE DEF head
  <2> QED BY <1>2 DEF Typed, Fields, SameRequest, SameBody, SameState, SameTimers, SameStreams
<1> HIDE DEF g, head
<1>4. Round(t, g, x) BY <1>2, <1>3, QuietData DEF Quiet
<1>5. Round(t, t, x) BY <1>2, RoundReflexive
<1>6. Round(t, BadResponse(t), x) BY <1>2, BadIsReported
<1>7. Round(t, Continue(t), x) BY <1>2, BackToTheBody
<1>8. Round(t, ResponseReceived(t, NoResponse, rest), x) /\ Round(t, ResponseReceived(t, e, rest), x)
  BY <1>2, HeadersReceived
<1> DEFINE z == ReadHeaders(s)
<1>9. z \in {t, g, BadResponse(t), Continue(t), ResponseReceived(t, NoResponse, rest),
             ResponseReceived(t, e, rest)}
  <2>1. CASE got = <<>> BY <1>0, <2>1
  <2>2. CASE got # <<>> /\ ends = {} BY <1>0, <2>2
  <2>3. CASE got # <<>> /\ ends # {}
    <3>1. CASE e.piece = "bad" BY <1>0, <2>3, <3>1
    <3>2. CASE e.piece = "100" /\ s.wait100 BY <1>0, <2>3, <3>2
    <3>3. CASE e.piece = "100" /\ ~ s.wait100 BY <1>0, <2>3, <3>3
    <3>4. CASE e.piece \notin {"bad", "100"} BY <1>0, <2>3, <3>4
    <3> QED BY <3>1, <3>2, <3>3, <3>4
  <2> QED BY <2>1, <2>2, <2>3
<1> HIDE DEF z
<1>10. Round(t, z, x) BY <1>4, <1>5, <1>6, <1>7, <1>8, <1>9
<1>11. Typed(s) /\ Round(s, t, x) BY <1>1 DEF Quiet, Served
<1> QED BY <1>10, <1>11, RoundTransitive DEF z

LEMMA InputRound ==
  ASSUME NEW x, NEW s, Served(s, x) PROVE Round(s, data_in_do_read(s), x)
<1> DEFINE t == IF s.os["resp"] THEN rb_resp_do_read(s) ELSE s
           a == nxe_ostream_unset_ready(t, "in")
           b == nxe_istream_set_ready(a, "resp")
<1>S. "in" \in Streams \ {"out"} /\ "resp" \in Streams BY DEF Streams
<1>T. Typed(s) BY DEF Served
<1>0. data_in_do_read(s) =
        CASE s.state = "WAITING_FOR_RESPONSE" -> ReadHeaders(BeginResponse(s))
          [] s.state = "RECEIVING_HEADERS" -> ReadHeaders(s)
          [] s.state = "RECEIVING_BODY" /\ "resp" \in s.pair -> IF t.os["resp"] THEN t ELSE b
          [] s.state = "RECEIVING_BODY" /\ "resp" \notin s.pair -> nxe_ostream_unset_ready(s, "in")
          [] OTHER -> s
  BY DEF data_in_do_read
<1>1. Round(s, t, x) BY ResponseRingTakes, RoundReflexive
<1> HIDE DEF t
<1>2. Served(t, x) BY <1>1 DEF Round
<1>3. Quiet(t, a, x) BY <1>2, <1>S, QuietCalls
<1> HIDE DEF a
<1>4. Quiet(a, b, x) BY <1>3, <1>S, QuietServed, QuietCalls
<1> HIDE DEF b
<1>5. Round(t, b, x) BY <1>2, <1>3, <1>4, QuietTransitive DEF Quiet
<1>6. Round(s, b, x) BY <1>1, <1>5, <1>T, RoundTransitive
<1>7. CASE s.state = "WAITING_FOR_RESPONSE"
  <2> DEFINE r == BeginResponse(s)
  <2>1. Round(s, r, x) /\ r.state = "RECEIVING_HEADERS" BY <1>7, ResponseBegins
  <2>2. data_in_do_read(s) = ReadHeaders(r) BY <1>0, <1>7
  <2> HIDE DEF r
  <2>3. Round(r, ReadHeaders(r), x) BY <2>1, HeadersRead DEF Round
  <2> QED BY <1>T, <2>1, <2>2, <2>3, RoundTransitive
<1>8. CASE s.state = "RECEIVING_HEADERS" BY <1>0, <1>8, HeadersRead
<1>9. CASE s.state = "RECEIVING_BODY" /\ "resp" \in s.pair BY <1>0, <1>1, <1>6, <1>9
<1>10. CASE s.state = "RECEIVING_BODY" /\ "resp" \notin s.pair
  <2>1. data_in_do_read(s) = nxe_ostream_unset_ready(s, "in") BY <1>0, <1>10
  <2> QED BY <1>S, <2>1, QuietCalls DEF Quiet
<1>11. CASE s.state \notin {"WAITING_FOR_RESPONSE", "RECEIVING_HEADERS", "RECEIVING_BODY"}
  BY <1>0, <1>11, RoundReflexive
<1> QED BY <1>7, <1>8, <1>9, <1>10, <1>11

-----------------------------------------------------------------------------
(* Connections come and go.                                                *)

(* What the request keeps when its connection is taken away.               *)
SameHandler(s, t) ==
  /\ t.conn = s.conn /\ t.via = s.via /\ t.started = s.started /\ t.complete = s.complete
  /\ t.error = s.error /\ t.bodies = s.bodies /\ t.rb_req = s.rb_req /\ t.retry = s.retry

Released(s, t) ==
  /\ Typed(t) /\ t.place = "none" /\ NoneInv(t) /\ SameHandler(s, t)
  /\ In(t.events, "client") => In(s.events, "client")

LEMMA Unsubscribes ==
  ASSUME NEW s, Typed(s), NEW N
  PROVE  LET t == nxe_unsubscribe(s, N)
         IN  /\ Typed(t) /\ t.place = s.place /\ t.edge = s.edge /\ t.pair = s.pair /\ SameHandler(s, t)
             /\ t.pend = s.pend /\ SameBody(s, t) /\ SameTimers(s, t) /\ SameStreams(s, t)
             /\ \A f : In(t.events, f) <=> In(s.events, f) /\ f \notin N
<1> DEFINE t == nxe_unsubscribe(s, N)
<1>1. "events" \in DOMAIN s /\ s.events \in Seq(Events) BY DEF Typed, Fields
<1>2. /\ DOMAIN t = DOMAIN s /\ \A f \in DOMAIN s \ {"events"} : t[f] = s[f]
      /\ t.events \in Seq(Events) /\ \A f : In(t.events, f) <=> In(s.events, f) /\ f \notin N
  BY <1>1, Unsubscribing
<1> HIDE DEF t
<1>3. /\ DOMAIN t = Fields /\ t.place = s.place /\ t.edge = s.edge /\ t.pair = s.pair /\ SameHandler(s, t)
      /\ t.pend = s.pend /\ SameBody(s, t) /\ SameTimers(s, t) /\ SameStreams(s, t)
  BY <1>2 DEF Typed, Fields, SameHandler, SameBody, SameState, SameTimers, SameStreams
<1>4. Typed(t) BY <1>2, <1>3 DEF Typed, SameTimers, SameStreams, SameBody, SameState
<1> QED BY <1>2, <1>3, <1>4 DEF t

LEMMA Disconnects ==
  ASSUME NEW s, Typed(s), NEW N
  PROVE  LET t == Disconnected(s, N)
         IN  /\ Typed(t) /\ t.place = s.place /\ t.edge = s.edge /\ t.pair = s.pair \ N /\ SameHandler(s, t)
             /\ t.pend = s.pend /\ SameBody(s, t) /\ SameTimers(s, t) /\ SameStreams(s, t)
             /\ \A f : In(t.events, f) <=> In(s.events, f) /\ f \notin N
<1> DEFINE u == nxe_unsubscribe(s, N)
           t == [u EXCEPT !.pair = @ \ N]
<1>0. Disconnected(s, N) = t BY DEF Disconnected
<1>1. /\ Typed(u) /\ u.place = s.place /\ u.edge = s.edge /\ u.pair = s.pair /\ SameHandler(s, u)
      /\ u.pend = s.pend /\ SameBody(s, u) /\ SameTimers(s, u) /\ SameStreams(s, u)
      /\ \A f : In(u.events, f) <=> In(s.events, f) /\ f \notin N
  BY Unsubscribes
<1> HIDE DEF u
<1>2. /\ DOMAIN t = Fields /\ t.events = u.events /\ t.pair = u.pair \ N
      /\ t.place = u.place /\ t.edge = u.edge /\ t.pend = u.pend /\ SameHandler(u, t)
      /\ SameBody(u, t) /\ SameTimers(u, t) /\ SameStreams(u, t)
  BY <1>1 DEF Typed, Fields, SameHandler, SameBody, SameState, SameTimers, SameStreams
<1> HIDE DEF t
<1>3. Typed(t) BY <1>1, <1>2 DEF Typed, SameBody, SameState, SameTimers, SameStreams
<1>4. SameHandler(s, t) /\ SameBody(s, t) /\ SameTimers(s, t) /\ SameStreams(s, t)
  BY <1>1, <1>2 DEF SameHandler, SameBody, SameState, SameTimers, SameStreams
<1>5. t.place = s.place /\ t.edge = s.edge /\ t.pend = s.pend /\ t.pair = s.pair \ N BY <1>1, <1>2
<1>6. \A f : In(t.events, f) <=> In(s.events, f) /\ f \notin N BY <1>1, <1>2
<1> QED BY <1>0, <1>3, <1>4, <1>5, <1>6

FreshFields == {"state", "headers", "sending", "wait100", "all", "done", "queued", "nxb", "head",
                "resp", "received", "chunk", "wire", "rdclosed", "room", "edge", "asked", "fwd",
                "owed", "said100", "toend", "pend"}

LEMMA FreshIs ==
  /\ DOMAIN Fresh = FreshFields /\ Fresh.state = "CONNECTING" /\ Fresh.sending = FALSE
  /\ Fresh.fwd = FALSE /\ Fresh.wait100 = FALSE /\ Fresh.edge = {} /\ Fresh.room = TxRoom
  /\ Fresh.pend = <<>>
BY DEF Fresh, FreshFields

LEMMA Finalizes ==
  ASSUME NEW s, Typed(s), "backend" \notin s.timers PROVE Released(s, nxd_http_proxy_finalize(s))
<1> DEFINE t == [s EXCEPT !.timers = @ \ HcpTimers, !.expired = @ \ HcpTimers, !.place = "none"]
           u == nxe_unsubscribe(t, Messages)
           d == Disconnected(u, Streams)
           z == Over(Fresh, d)
<1>0. nxd_http_proxy_finalize(s) = z BY DEF nxd_http_proxy_finalize, Messages
<1>1. /\ DOMAIN t = Fields /\ t.events = s.events /\ t.timers = s.timers \ HcpTimers
      /\ t.expired = s.expired \ HcpTimers /\ t.place = "none" /\ t.pair = s.pair /\ SameHandler(s, t)
      /\ t.pend = s.pend /\ SameBody(s, t) /\ SameStreams(s, t)
  BY DEF Typed, Fields, SameHandler, SameBody, SameState, SameStreams
<1> HIDE DEF t
<1>2. t.timers = {} /\ t.expired = {} BY <1>1 DEF Typed, Timers
<1>3. Typed(t) BY <1>1, <1>2 DEF Typed, SameBody, SameState, SameStreams
<1>4. /\ Typed(u) /\ u.place = "none" /\ u.pair = t.pair /\ SameHandler(t, u)
      /\ SameTimers(t, u) /\ \A f : In(u.events, f) <=> In(t.events, f) /\ f \notin Messages
  BY <1>1, <1>3, Unsubscribes
<1> HIDE DEF u
<1>5. /\ Typed(d) /\ d.place = "none" /\ d.pair = u.pair \ Streams /\ SameHandler(u, d)
      /\ SameTimers(u, d) /\ \A f : In(d.events, f) <=> In(u.events, f) /\ f \notin Streams
  BY <1>4, Disconnects
<1> HIDE DEF d
<1>6. DOMAIN z = DOMAIN Fresh \cup DOMAIN d BY DEF Over
<1>7. \A f \in DOMAIN Fresh \cup DOMAIN d : z[f] = IF f \in DOMAIN Fresh THEN Fresh[f] ELSE d[f]
  BY DEF Over
<1> HIDE DEF z
<1>8. DOMAIN z = Fields /\ \A f \in Fields : z[f] = IF f \in FreshFields THEN Fresh[f] ELSE d[f]
  BY <1>5, <1>6, <1>7, FreshIs DEF Typed, Fields, FreshFields
<1>9. /\ z.state = Fresh.state /\ z.edge = Fresh.edge /\ z.room = Fresh.room /\ z.pend = Fresh.pend
  BY <1>8 DEF Fields, FreshFields
<1>10. /\ z.events = d.events /\ z.timers = d.timers /\ z.expired = d.expired /\ z.pair = d.pair
       /\ z.is = d.is /\ z.os = d.os /\ z.place = d.place /\ SameHandler(d, z)
  BY <1>8 DEF Fields, FreshFields, SameHandler
<1>11. Typed(z)
  <2>1. TxRoom \in Nat BY ProxyAssumption
  <2> QED BY <1>5, <1>8, <1>9, <1>10, <2>1, FreshIs DEF Typed, SameHandler
<1>12. SameHandler(s, z) BY <1>1, <1>4, <1>5, <1>10 DEF SameHandler
<1>13. NoneInv(z)
  <2>1. z.state = "CONNECTING" /\ z.edge = {} /\ z.pend = <<>> BY <1>9, FreshIs
  <2>2. z.timers = {} BY <1>2, <1>4, <1>5, <1>10 DEF SameTimers
  <2>3. z.pair = {} BY <1>3, <1>4, <1>5, <1>10 DEF Typed
  <2>4. \A m \in HcpMessages \cup SockMessages : ~ In(z.events, m) BY <1>4, <1>5, <1>10 DEF Messages
  <2> QED BY <2>1, <2>2, <2>3, <2>4 DEF NoneInv
<1>14. In(z.events, "client") => In(s.events, "client") BY <1>1, <1>4, <1>5, <1>10
<1> QED BY <1>0, <1>5, <1>10, <1>11, <1>12, <1>13, <1>14 DEF Released

(* What goes into the pool.                                                *)
Pooled(s, t) ==
  /\ Typed(t) /\ t.place = "pool" /\ t.state = "IDLE" /\ s.state = "IDLE" /\ t.wait100 = s.wait100
  /\ ~ t.os["req"] /\ SameHandler(s, t) /\ t.sending = s.sending /\ t.fwd = s.fwd
  /\ t.timers = s.timers /\ \A y \in Streams : ~ Flowing(t, y)
  /\ In(t.events, "client") => In(s.events, "client")

LEMMA TwoOff ==
  ASSUME NEW f \in [Streams -> BOOLEAN], NEW a \in Streams, NEW b \in Streams
  PROVE  LET g == [[f EXCEPT ![a] = FALSE] EXCEPT ![b] = FALSE]
         IN  g \in [Streams -> BOOLEAN] /\ ~ g[a] /\ ~ g[b]
<1> DEFINE h == [f EXCEPT ![a] = FALSE]
           g == [h EXCEPT ![b] = FALSE]
<1>1. h \in [Streams -> BOOLEAN] /\ ~ h[a] OBVIOUS
<1> HIDE DEF h
<1>2. g \in [Streams -> BOOLEAN] /\ ~ g[b] BY <1>1
<1>3. ~ g[a]
  <2>1. CASE a = b BY <1>2, <2>1
  <2>2. CASE a # b BY <1>1, <2>2
  <2> QED BY <2>1, <2>2
<1> QED BY <1>2, <1>3 DEF h

LEMMA Returns ==
  ASSUME NEW s, Typed(s), "backend" \notin s.timers, NEW closed
  PROVE  LET t == nxd_http_proxy_pool_return(s, closed)
         IN  Released(s, t) \/ (Pooled(s, t) /\ ~ closed)
<1>1. CASE closed \/ ~ s.done \/ s.state # "IDLE" \/ ~ KeepAlive(s.resp)
  <2>1. nxd_http_proxy_pool_return(s, closed) = nxd_http_proxy_finalize(s)
    BY <1>1 DEF nxd_http_proxy_pool_return
  <2> QED BY <2>1, Finalizes
<1>2. CASE ~ (closed \/ ~ s.done \/ s.state # "IDLE" \/ ~ KeepAlive(s.resp))
  <2> DEFINE u == nxe_unsubscribe(s, HcpMessages)
             t == Disconnected(u, {"req", "resp"})
             r == [t EXCEPT !.tripped = @ \/ ~ s.nxb, !.nxb = FALSE,
                            !.os["req"] = FALSE, !.is["resp"] = FALSE,
                            !.os["in"] = FALSE, !.is["out"] = FALSE]
             z == [r EXCEPT !.place = "pool"]
  <2>0. nxd_http_proxy_pool_return(s, closed) = z BY <1>2 DEF nxd_http_proxy_pool_return, rearm
  <2>1. /\ Typed(u) /\ u.pair = s.pair /\ SameHandler(s, u) /\ SameBody(s, u) /\ SameTimers(s, u)
        /\ \A f : In(u.events, f) <=> In(s.events, f) /\ f \notin HcpMessages
    BY Unsubscribes
  <2> HIDE DEF u
  <2>2. /\ Typed(t) /\ t.pair = u.pair \ {"req", "resp"} /\ SameHandler(u, t)
        /\ SameBody(u, t) /\ SameTimers(u, t)
        /\ \A f : In(t.events, f) <=> In(u.events, f) /\ f \notin {"req", "resp"}
    BY <2>1, Disconnects
  <2> HIDE DEF t
  <2>3. /\ DOMAIN r = Fields /\ r.events = t.events /\ r.pair = t.pair
        /\ r.os = [[t.os EXCEPT !["req"] = FALSE] EXCEPT !["in"] = FALSE]
        /\ r.is = [[t.is EXCEPT !["resp"] = FALSE] EXCEPT !["out"] = FALSE]
        /\ SameHandler(t, r) /\ SameBody(t, r) /\ SameTimers(t, r)
    BY <2>2 DEF Typed, Fields, SameHandler, SameBody, SameState, SameTimers
  <2> HIDE DEF r
  <2>4. /\ r.os \in [Streams -> BOOLEAN] /\ r.is \in [Streams -> BOOLEAN]
        /\ ~ r.os["req"] /\ ~ r.os["in"] /\ ~ r.is["out"] /\ ~ r.is["resp"]
    <3>1. t.os \in [Streams -> BOOLEAN] /\ t.is \in [Streams -> BOOLEAN] BY <2>2 DEF Typed
    <3>2. /\ "req" \in Streams /\ "in" \in Streams /\ "out" \in Streams /\ "resp" \in Streams
      BY DEF Streams
    <3> DEFINE off == [[t.os EXCEPT !["req"] = FALSE] EXCEPT !["in"] = FALSE]
               ist == [[t.is EXCEPT !["resp"] = FALSE] EXCEPT !["out"] = FALSE]
    <3>5. off \in [Streams -> BOOLEAN] /\ ~ off["req"] /\ ~ off["in"] BY <3>1, <3>2, TwoOff
    <3>6. ist \in [Streams -> BOOLEAN] /\ ~ ist["resp"] /\ ~ ist["out"] BY <3>1, <3>2, TwoOff
    <3>7. r.os = off /\ r.is = ist BY <2>3
    <3> HIDE DEF off, ist
    <3>3. r.os \in [Streams -> BOOLEAN] /\ ~ r.os["req"] /\ ~ r.os["in"] BY <3>5, <3>7
    <3>4. r.is \in [Streams -> BOOLEAN] /\ ~ r.is["resp"] /\ ~ r.is["out"] BY <3>6, <3>7
    <3> QED BY <3>3, <3>4
  <2>5. /\ DOMAIN z = Fields /\ z.events = r.events /\ z.pair = r.pair /\ z.os = r.os /\ z.is = r.is
        /\ z.place = "pool" /\ SameHandler(r, z) /\ SameBody(r, z) /\ SameTimers(r, z)
    BY <2>3 DEF Fields, SameHandler, SameBody, SameState, SameTimers
  <2> HIDE DEF z
  <2>6. Typed(z) BY <2>2, <2>3, <2>4, <2>5 DEF Typed, SameBody, SameState, SameTimers
  <2>7. \A y \in Streams : ~ Flowing(z, y) BY <2>4, <2>5 DEF Flowing, Streams
  <2>8. SameHandler(s, z) BY <2>1, <2>2, <2>3, <2>5 DEF SameHandler
  <2>9. /\ z.state = s.state /\ z.wait100 = s.wait100 /\ z.sending = s.sending /\ z.fwd = s.fwd
        /\ z.timers = s.timers
    BY <2>1, <2>2, <2>3, <2>5 DEF SameBody, SameState, SameTimers
  <2>10. In(z.events, "client") => In(s.events, "client") BY <2>1, <2>2, <2>3, <2>5
  <2>11. Pooled(s, z) BY <1>2, <2>4, <2>5, <2>6, <2>7, <2>8, <2>9, <2>10 DEF Pooled
  <2> QED BY <1>2, <2>0, <2>11
<1> QED BY <1>1, <1>2

-----------------------------------------------------------------------------
(* The head of the list is taken.                                          *)
LEMMA Pops ==
  ASSUME NEW s, Inv(s, "none"), s.events # <<>>
  PROVE  LET t == [s EXCEPT !.events = Tail(@)]
             h == Head(s.events)
         IN  /\ Typed(t) /\ BodyInv(t) /\ PlaceInv(t) /\ SameRequest(s, t) /\ SameState(s, t)
             /\ SameTimers(s, t) /\ h \in Events /\ In(s.events, h)
             /\ s.place = "none" => NoneInv(t) /\ h \notin Messages
             /\ s.place # "none" =>
                  /\ StateInv(t) /\ FlowInv(t, h) /\ (h # "error" => WatchInv(t))
                  /\ s.place = "used" /\ s.state = "IDLE" /\ "keep_alive" \notin s.timers =>
                       s.error \/ h # "client"
<1> DEFINE t == [s EXCEPT !.events = Tail(@)]
           h == Head(s.events)
<1>T. Typed(s) /\ BodyInv(s) /\ PlaceInv(s) BY DEF Inv
<1>1. /\ DOMAIN t = Fields /\ t.events = Tail(s.events) /\ SameRequest(s, t) /\ SameBody(s, t)
      /\ SameTimers(s, t) /\ SameStreams(s, t) /\ t.pend = s.pend
  BY <1>T DEF Typed, Fields, SameRequest, SameBody, SameState, SameTimers, SameStreams
<1> HIDE DEF t
<1>2. /\ Tail(s.events) \in Seq(Events) /\ In(s.events, h) /\ h \in Events
      /\ \A f : In(t.events, f) => In(s.events, f)
      /\ \A f : In(s.events, f) => f = h \/ In(t.events, f)
      /\ Sure(s.events) => h = "error" \/ (h # "client" /\ Sure(t.events))
  <2>1. s.events \in Seq(Events) BY <1>T DEF Typed
  <2> QED BY <1>1, <2>1, Popping
<1> HIDE DEF h
<1>3. Typed(t) BY <1>T, <1>1, <1>2 DEF Typed, SameRequest, SameTimers, SameStreams, SameBody, SameState
<1>4. BodyInv(t) BY <1>T, <1>1 DEF BodyInv, SameBody, SameState
<1>5. PlaceInv(t) BY <1>T, <1>1, <1>2 DEF PlaceInv, SameRequest, SameBody, SameState, SameTimers
<1>6. ASSUME s.place = "none" PROVE NoneInv(t) /\ h \notin Messages
  <2>1. NoneInv(s) BY <1>6 DEF Inv
  <2> QED BY <1>1, <1>2, <2>1 DEF NoneInv, SameRequest, SameBody, SameState, SameTimers, Messages
<1>7. ASSUME s.place # "none"
      PROVE  /\ StateInv(t) /\ FlowInv(t, h) /\ (h # "error" => WatchInv(t))
             /\ s.place = "used" /\ s.state = "IDLE" /\ "keep_alive" \notin s.timers =>
                  s.error \/ h # "client"
  <2>1. WatchInv(s) /\ StateInv(s) /\ FlowInv(s, "none") BY <1>7 DEF Inv, ConnInv
  <2>2. StateInv(t) BY <1>1, <2>1 DEF StateInv, SameRequest, SameBody, SameState, SameStreams
  <2>3. \A y : Flowing(t, y) <=> Flowing(s, y) BY <1>1 DEF Flowing, SameStreams, SameRequest
  <2>4. "none" \notin Streams BY DEF Streams
  <2>5. FlowInv(t, h) BY <1>2, <2>1, <2>3, <2>4 DEF FlowInv
  <2>6. StateTimer(t) = StateTimer(s) BY <1>1 DEF StateTimer, SameBody, SameState
  <2>7. h # "error" => WatchInv(t)
    BY <1>1, <1>2, <2>1, <2>6 DEF WatchInv, SameRequest, SameBody, SameState, SameTimers
  <2>8. s.place = "used" /\ s.state = "IDLE" /\ "keep_alive" \notin s.timers => s.error \/ h # "client"
    BY <1>2, <2>1 DEF WatchInv
  <2> QED BY <2>2, <2>5, <2>7, <2>8
<1>8. SameState(s, t) BY <1>1 DEF SameBody
<1> QED BY <1>1, <1>2, <1>3, <1>4, <1>5, <1>6, <1>7, <1>8 DEF t, h

-----------------------------------------------------------------------------
(* A request is started on a connection.                                   *)
LEMMA ConnectsStreams ==
  ASSUME NEW s, Typed(s), NEW y \in Streams, FlowInv(s, y)
  PROVE  LET t == nxe_connect_streams(s, y)
         IN  /\ Typed(t) /\ FlowInv(t, "none") /\ t.place = s.place /\ SameHandler(s, t)
             /\ SameBody(s, t) /\ SameTimers(s, t) /\ SameStreams(s, t)
             /\ In(t.events, "client") => In(s.events, "client")
<1> DEFINE u == [s EXCEPT !.pair = @ \cup {y}]
           v == nxe_link(u, y)
           t == IF u.is[y] /\ u.os[y] THEN v ELSE u
<1>0. nxe_connect_streams(s, y) = t BY DEF nxe_connect_streams
<1>1. /\ DOMAIN u = Fields /\ u.events = s.events /\ u.pair = s.pair \cup {y} /\ u.place = s.place
      /\ SameHandler(s, u) /\ SameBody(s, u) /\ SameTimers(s, u) /\ SameStreams(s, u)
  BY DEF Typed, Fields, SameHandler, SameBody, SameState, SameTimers, SameStreams
<1> HIDE DEF u
<1>2. Typed(u) BY <1>1 DEF Typed, SameTimers, SameStreams, SameBody, SameState
<1>3. /\ DOMAIN v = Fields /\ v.events = Append(u.events, y) /\ v.pair = u.pair /\ v.place = u.place
      /\ SameHandler(u, v) /\ SameBody(u, v) /\ SameTimers(u, v) /\ SameStreams(u, v)
  BY <1>2 DEF nxe_link, Typed, Fields, SameHandler, SameBody, SameState, SameTimers, SameStreams
<1> HIDE DEF v
<1>4. /\ v.events \in Seq(Events) /\ \A f : In(v.events, f) <=> In(u.events, f) \/ f = y
  <2>1. y \in Events BY DEF Events
  <2> QED BY <1>2, <1>3, <2>1, Appended DEF Typed
<1>5. Typed(v) BY <1>2, <1>3, <1>4 DEF Typed, SameTimers, SameStreams, SameBody, SameState
<1>6. y # "client" BY DEF Streams
<1>7. /\ Typed(t) /\ t.place = s.place /\ t.pair = s.pair \cup {y} /\ SameHandler(s, t)
      /\ SameBody(s, t) /\ SameTimers(s, t) /\ SameStreams(s, t)
      /\ In(t.events, "client") => In(s.events, "client")
  <2>1. CASE t = u BY <1>1, <1>2, <2>1
  <2>2. CASE t = v
    BY <1>1, <1>3, <1>4, <1>5, <1>6, <2>2
       DEF SameHandler, SameBody, SameState, SameTimers, SameStreams
  <2> QED BY <2>1, <2>2
<1>8. FlowInv(t, "none")
  <2> SUFFICES ASSUME NEW z \in Streams, Flowing(t, z)
               PROVE  In(t.events, z) \/ (z = "req" /\ Flowing(t, "out"))
    BY DEF FlowInv
  <2>1. \A f : In(s.events, f) => In(t.events, f) BY <1>1, <1>4
  <2>2. CASE z = y
    <3>1. u.is[y] /\ u.os[y] BY <1>1, <1>7, <2>2 DEF Flowing, SameStreams
    <3> QED BY <1>4, <2>2, <3>1
  <2>3. CASE z # y
    <3>1. Flowing(s, z) BY <1>7, <2>3 DEF Flowing, SameStreams
    <3>2. In(s.events, z) \/ (z = "req" /\ Flowing(s, "out")) BY <2>3, <3>1 DEF FlowInv
    <3>3. Flowing(s, "out") => Flowing(t, "out") BY <1>7 DEF Flowing, SameStreams
    <3> QED BY <2>1, <3>2, <3>3
  <2> QED BY <2>2, <2>3
<1> HIDE DEF t
<1> QED BY <1>0, <1>7, <1>8

(* No connection, or one of the pool, for a request to begin.              *)
Free(s) ==
  /\ Typed(s) /\ s.place \in {"none", "pool"} /\ "backend" \notin s.timers
  /\ IF s.place = "none" THEN NoneInv(s) ELSE ConnInv(s, "none")

(* A connection that is in use, before the request's data is sent on it.   *)
Attached(s) ==
  /\ Typed(s) /\ s.place = "used" /\ FlowInv(s, "none") /\ ~ s.os["req"]

LEMMA PoolConnects ==
  ASSUME NEW s, Free(s), NEW made \in BOOLEAN
  PROVE  LET c == nxd_http_proxy_pool_connect(s, made)
         IN  \/ /\ Attached(c) /\ SameHandler(s, c) /\ c.state \in {"CONNECTING", "IDLE"}
                /\ c.state = "CONNECTING" => "write" \in c.timers
                /\ In(c.events, "client") => In(s.events, "client")
             \/ c = s /\ ~ made /\ s.place = "none"
<1>T. Typed(s) BY DEF Free
<1>1. CASE s.place = "pool"
  <2> DEFINE u == nxe_unsubscribe(s, HcpMessages)
             c == [u EXCEPT !.place = "used"]
  <2>0. nxd_http_proxy_pool_connect(s, made) = c BY <1>1 DEF nxd_http_proxy_pool_connect
  <2>1. StateInv(s) /\ FlowInv(s, "none") BY <1>1 DEF Free, ConnInv
  <2>2. /\ Typed(u) /\ u.pair = s.pair /\ SameHandler(s, u) /\ SameBody(s, u) /\ SameTimers(s, u)
        /\ SameStreams(s, u) /\ \A f : In(u.events, f) <=> In(s.events, f) /\ f \notin HcpMessages
    BY <1>T, Unsubscribes
  <2> HIDE DEF u
  <2>3. /\ DOMAIN c = Fields /\ c.events = u.events /\ c.pair = u.pair /\ c.place = "used"
        /\ SameHandler(u, c) /\ SameBody(u, c) /\ SameTimers(u, c) /\ SameStreams(u, c)
    BY <2>2 DEF Typed, Fields, SameHandler, SameBody, SameState, SameTimers, SameStreams
  <2> HIDE DEF c
  <2>4. Typed(c) BY <2>2, <2>3 DEF Typed, SameBody, SameState, SameTimers, SameStreams
  <2>5. \A y : Flowing(c, y) <=> Flowing(s, y) BY <2>2, <2>3 DEF Flowing, SameStreams
  <2>6. \A y \in Streams : y \notin HcpMessages BY DEF Streams, HcpMessages
  <2>7. FlowInv(c, "none") BY <2>1, <2>2, <2>3, <2>5, <2>6 DEF FlowInv
  <2>8. c.state = "IDLE" /\ ~ c.os["req"]
    BY <1>1, <2>1, <2>2, <2>3 DEF StateInv, SameBody, SameState, SameStreams
  <2>9. SameHandler(s, c) BY <2>2, <2>3 DEF SameHandler
  <2>10. In(c.events, "client") => In(s.events, "client") BY <2>2, <2>3
  <2> QED BY <2>0, <2>3, <2>4, <2>7, <2>8, <2>9, <2>10 DEF Attached
<1>2. CASE s.place = "none" /\ made
  <2> DEFINE t == [s EXCEPT !.place = "used", !.pair = @ \cup {"in", "out"},
                            !.is = [x \in Streams |-> x = "out"], !.os = [x \in Streams |-> FALSE]]
             c == nxe_set_timer(t, "write")
  <2>0. nxd_http_proxy_pool_connect(s, made) = c
    BY <1>2 DEF nxd_http_proxy_pool_connect, nxd_http_proxy_connect
  <2>1. NoneInv(s) BY <1>2 DEF Free
  <2>2. /\ DOMAIN t = Fields /\ t.events = s.events /\ t.pair = s.pair \cup {"in", "out"}
        /\ t.place = "used" /\ t.is = [x \in Streams |-> x = "out"] /\ t.os = [x \in Streams |-> FALSE]
        /\ SameHandler(s, t) /\ SameBody(s, t) /\ SameTimers(s, t)
    BY <1>T DEF Typed, Fields, SameHandler, SameBody, SameState, SameTimers
  <2> HIDE DEF t
  <2>3. /\ t.is \in [Streams -> BOOLEAN] /\ t.os \in [Streams -> BOOLEAN]
        /\ \A y \in Streams : ~ t.os[y]
    BY <2>2
  <2>4. Typed(t)
    <3>1. t.pair \in SUBSET Streams BY <1>T, <2>2 DEF Typed, Streams
    <3> QED BY <1>T, <2>2, <2>3, <3>1 DEF Typed, SameBody, SameState, SameTimers
  <2>5. FlowInv(t, "none") BY <2>3 DEF FlowInv, Flowing
  <2>6. /\ Calm(t, c) /\ SameBody(t, c) /\ SameStreams(t, c) /\ c.events = t.events
        /\ c.timers = t.timers \cup {"write"}
    <3>1. "write" \in Timers BY DEF Timers, HcpTimers
    <3> QED BY <2>4, <3>1, SetTimer
  <2>R. c.rb_req = t.rb_req /\ c.bodies = t.bodies BY <2>6 DEF SameBody, SameState
  <2> HIDE DEF c
  <2>7. Typed(c) /\ SameRequest(t, c) BY <2>6 DEF Calm, Kept
  <2>8. FlowInv(c, "none") BY <2>5, <2>6 DEF Calm, KeepsFlow
  <2>9. c.state = "CONNECTING" BY <2>1, <2>2, <2>6 DEF NoneInv, SameBody, SameState
  <2>10. ~ c.os["req"] BY <2>3, <2>6 DEF SameStreams, Streams
  <2>11. SameHandler(s, c) BY <2>R, <2>2, <2>7 DEF SameHandler, SameRequest
  <2>12. c.place = "used" BY <2>2, <2>7 DEF SameRequest
  <2> QED BY <2>0, <2>2, <2>6, <2>7, <2>8, <2>9, <2>10, <2>11, <2>12 DEF Attached
<1>3. CASE s.place = "none" /\ ~ made BY <1>3 DEF nxd_http_proxy_pool_connect
<1> QED BY <1>1, <1>2, <1>3 DEF Free

LEMMA Starts ==
  ASSUME NEW s, Attached(s), s.state \in {"CONNECTING", "IDLE"},
         s.state = "CONNECTING" => "write" \in s.timers
  PROVE  LET t == StartRequest(s)
         IN  /\ Attached(t) /\ SameHandler(s, t) /\ t.state \in {"CONNECTING", "SENDING_HEADERS"}
             /\ "write" \in t.timers /\ ~ t.wait100
             /\ In(t.events, "client") => In(s.events, "client")
<1> DEFINE a == [s EXCEPT !.nxb = TRUE, !.headers = TRUE, !.fwd = FALSE,
                          !.tripped = @ \/ s.nxb \/ s.state \notin {"CONNECTING", "IDLE"},
                          !.sending = FALSE, !.wait100 = FALSE, !.done = FALSE,
                          !.all = FALSE, !.queued = FALSE]
           b == [a EXCEPT !.state = "SENDING_HEADERS"]
           c == nxe_unset_timer(b, "keep_alive")
           d == nxe_set_timer(c, "write")
           u == IF s.state = "IDLE" THEN d ELSE a
           t == nxe_istream_set_ready(u, "out")
<1>0. StartRequest(s) = t BY DEF StartRequest
<1>T. Typed(s) BY DEF Attached
<1>1. /\ DOMAIN a = Fields /\ a.events = s.events /\ SameRequest(s, a) /\ SameTimers(s, a)
      /\ SameStreams(s, a) /\ a.room = s.room /\ a.rb_req = s.rb_req /\ a.bodies = s.bodies
      /\ a.state = s.state /\ a.wait100 = FALSE
  BY <1>T DEF Typed, Fields, SameRequest, SameTimers, SameStreams
<1> HIDE DEF a
<1>2. Calm(s, a) BY <1>T, <1>1, DataChange DEF Typed
<1>3. Typed(a) BY <1>2, CalmTyped
<1>4. /\ DOMAIN b = Fields /\ b.events = a.events /\ SameRequest(a, b) /\ SameTimers(a, b)
      /\ SameStreams(a, b) /\ b.room = a.room /\ b.rb_req = a.rb_req /\ b.bodies = a.bodies
      /\ b.state = "SENDING_HEADERS" /\ b.wait100 = a.wait100
  BY <1>3 DEF Typed, Fields, SameRequest, SameTimers, SameStreams
<1> HIDE DEF b
<1>5. Calm(a, b) BY <1>3, <1>4, DataChange DEF Typed
<1>6. Typed(b) BY <1>5, CalmTyped
<1>7. Calm(b, c) /\ SameBody(b, c) BY <1>6, UnsetTimer
<1> HIDE DEF c
<1>8. Typed(c) BY <1>7, CalmTyped
<1>9. Calm(c, d) /\ SameBody(c, d) /\ d.timers = c.timers \cup {"write"}
  <2>1. "write" \in Timers BY DEF Timers, HcpTimers
  <2> QED BY <1>8, <2>1, SetTimer
<1> HIDE DEF d
<1>10. Calm(s, d)
  <2>1. Calm(s, b) BY <1>T, <1>2, <1>5, CalmTransitive
  <2>2. Calm(s, c) BY <1>T, <1>7, <2>1, CalmTransitive
  <2> QED BY <1>T, <1>9, <2>2, CalmTransitive
<1>11. /\ d.state = "SENDING_HEADERS" /\ d.wait100 = FALSE /\ d.rb_req = s.rb_req
       /\ d.bodies = s.bodies /\ "write" \in d.timers
  BY <1>1, <1>4, <1>7, <1>9 DEF SameBody, SameState
<1>12. /\ Calm(s, u) /\ u.state \in {"CONNECTING", "SENDING_HEADERS"} /\ u.wait100 = FALSE
       /\ u.rb_req = s.rb_req /\ u.bodies = s.bodies /\ "write" \in u.timers
  <2>1. CASE s.state = "IDLE" BY <1>10, <1>11, <2>1
  <2>2. CASE s.state = "CONNECTING" BY <1>1, <1>2, <2>2 DEF SameTimers
  <2> QED BY <2>1, <2>2
<1> HIDE DEF u
<1>13. Typed(u) BY <1>12, CalmTyped
<1>14. Calm(u, t) /\ SameBody(u, t) /\ SameTimers(u, t)
  <2>1. "out" \in Streams BY DEF Streams
  <2> QED BY <1>13, <2>1, SetInput
<1> HIDE DEF t
<1>15. Calm(s, t) BY <1>T, <1>12, <1>14, CalmTransitive
<1>16. /\ t.state \in {"CONNECTING", "SENDING_HEADERS"} /\ ~ t.wait100 /\ "write" \in t.timers
       /\ t.rb_req = s.rb_req /\ t.bodies = s.bodies
  BY <1>12, <1>14 DEF SameBody, SameState, SameTimers
<1>17. SameHandler(s, t) BY <1>15, <1>16 DEF Calm, Kept, SameRequest, SameHandler
<1>18. Attached(t) BY <1>15 DEF Calm, Kept, KeepsFlow, SameRequest, Attached
<1>19. In(t.events, "client") => In(s.events, "client") BY <1>15 DEF Calm, Kept
<1> QED BY <1>0, <1>16, <1>17, <1>18, <1>19

(* The request goes on, on another connection or without one.              *)
Begun(s, t) ==
  /\ Typed(t) /\ t.conn = s.conn /\ t.via = s.via /\ t.bodies = s.bodies /\ ~ t.started
  /\ t.retry = s.retry
  /\ In(t.events, "client") => In(s.events, "client")

LEMMA StreamAttached ==
  ASSUME NEW s, Typed(s), s.place = "used", FlowInv(s, "none"), ~ s.os["req"]
  PROVE  LET t == [s EXCEPT !.rb_resp = 0, !.eof_resp = FALSE, !.os["resp"] = TRUE]
             u == nxe_connect_streams(t, "resp")
         IN  /\ Attached(u) /\ SameHandler(s, u) /\ SameBody(s, u) /\ SameTimers(s, u)
             /\ In(u.events, "client") => In(s.events, "client")
<1> DEFINE t == [s EXCEPT !.rb_resp = 0, !.eof_resp = FALSE, !.os["resp"] = TRUE]
           u == nxe_connect_streams(t, "resp")
<1>S. "resp" \in Streams /\ "req" \in Streams /\ "out" \in Streams BY DEF Streams
<1>1. /\ DOMAIN t = Fields /\ t.events = s.events /\ t.pair = s.pair /\ t.place = s.place
      /\ t.is = s.is /\ t.os = [s.os EXCEPT !["resp"] = TRUE]
      /\ SameHandler(s, t) /\ SameBody(s, t) /\ SameTimers(s, t)
  BY DEF Typed, Fields, SameHandler, SameBody, SameState, SameTimers
<1> HIDE DEF t
<1>2. /\ t.os \in [Streams -> BOOLEAN] /\ \A y \in Streams \ {"resp"} : t.os[y] = s.os[y]
  BY <1>1 DEF Typed
<1>3. Typed(t) BY <1>1, <1>2 DEF Typed, SameBody, SameState, SameTimers
<1>4. \A y \in Streams \ {"resp"} : Flowing(t, y) <=> Flowing(s, y) BY <1>1, <1>2 DEF Flowing
<1>5. FlowInv(t, "resp")
  <2>1. ASSUME NEW y \in Streams \ {"resp"}, Flowing(t, y)
        PROVE  In(t.events, y) \/ (y = "req" /\ Flowing(t, "out"))
    <3>1. Flowing(s, y) /\ y # "none" BY <1>4, <2>1 DEF Streams
    <3>2. In(s.events, y) \/ (y = "req" /\ Flowing(s, "out")) BY <3>1, <2>1 DEF FlowInv
    <3>3. Flowing(s, "out") => Flowing(t, "out") BY <1>S, <1>4
    <3> QED BY <1>1, <3>2, <3>3
  <2> QED BY <2>1 DEF FlowInv
<1>6. /\ Typed(u) /\ FlowInv(u, "none") /\ u.place = t.place /\ SameHandler(t, u)
      /\ SameBody(t, u) /\ SameTimers(t, u) /\ SameStreams(t, u)
      /\ In(u.events, "client") => In(t.events, "client")
  BY <1>S, <1>3, <1>5, ConnectsStreams
<1> HIDE DEF u
<1>7. ~ u.os["req"] BY <1>S, <1>2, <1>6 DEF SameStreams
<1>8. SameHandler(s, u) /\ SameBody(s, u) /\ SameTimers(s, u)
  BY <1>1, <1>6 DEF SameHandler, SameBody, SameState, SameTimers
<1>9. Attached(u) BY <1>1, <1>6, <1>7 DEF Attached
<1>10. In(u.events, "client") => In(s.events, "client") BY <1>1, <1>6
<1> QED BY <1>8, <1>9, <1>10 DEF t, u

LEMMA BodyAttached ==
  ASSUME NEW s, Attached(s)
  PROVE  LET t == [s EXCEPT !.rb_req = 0, !.eof_req = FALSE, !.is["req"] = FALSE]
             u == nxe_connect_streams(t, "req")
         IN  /\ Attached(u) /\ u.conn = s.conn /\ u.via = s.via /\ u.started = s.started
             /\ u.retry = s.retry
             /\ u.bodies = s.bodies /\ u.state = s.state /\ u.wait100 = s.wait100 /\ SameTimers(s, u)
             /\ In(u.events, "client") => In(s.events, "client")
<1> DEFINE t == [s EXCEPT !.rb_req = 0, !.eof_req = FALSE, !.is["req"] = FALSE]
           u == nxe_connect_streams(t, "req")
<1>S. "resp" \in Streams /\ "req" \in Streams /\ "out" \in Streams BY DEF Streams
<1>T. Typed(s) /\ s.place = "used" /\ FlowInv(s, "none") /\ ~ s.os["req"] BY DEF Attached
<1>1. /\ DOMAIN t = Fields /\ t.events = s.events /\ t.pair = s.pair /\ t.place = s.place
      /\ t.os = s.os /\ t.is = [s.is EXCEPT !["req"] = FALSE] /\ SameTimers(s, t)
      /\ t.conn = s.conn /\ t.via = s.via /\ t.started = s.started
      /\ t.bodies = s.bodies /\ t.state = s.state /\ t.wait100 = s.wait100
      /\ t.rb_req = 0 /\ t.room = s.room /\ t.retry = s.retry
  BY <1>T DEF Typed, Fields, SameTimers
<1> HIDE DEF t
<1>2. /\ t.is \in [Streams -> BOOLEAN] /\ \A y \in Streams \ {"req"} : t.is[y] = s.is[y]
  BY <1>T, <1>1 DEF Typed
<1>3. Typed(t) BY <1>T, <1>1, <1>2 DEF Typed, SameTimers
<1>4. \A y \in Streams \ {"req"} : Flowing(t, y) <=> Flowing(s, y) BY <1>1, <1>2 DEF Flowing
<1>5. FlowInv(t, "req")
  <2>1. ASSUME NEW y \in Streams \ {"req"}, Flowing(t, y)
        PROVE  In(t.events, y)
    <3>1. Flowing(s, y) /\ y # "none" BY <1>4, <2>1 DEF Streams
    <3>2. In(s.events, y) BY <1>T, <3>1, <2>1 DEF FlowInv
    <3> QED BY <1>1, <3>2
  <2> QED BY <2>1 DEF FlowInv
<1>6. /\ Typed(u) /\ FlowInv(u, "none") /\ u.place = t.place /\ SameHandler(t, u)
      /\ SameBody(t, u) /\ SameTimers(t, u) /\ SameStreams(t, u)
      /\ In(u.events, "client") => In(t.events, "client")
  BY <1>S, <1>3, <1>5, ConnectsStreams
<1> HIDE DEF u
<1>7. ~ u.os["req"] BY <1>T, <1>1, <1>6 DEF SameStreams
<1>8. /\ u.conn = s.conn /\ u.via = s.via /\ u.started = s.started /\ u.retry = s.retry
      /\ u.bodies = s.bodies /\ u.state = s.state /\ u.wait100 = s.wait100 /\ SameTimers(s, u)
  BY <1>1, <1>6 DEF SameHandler, SameBody, SameState, SameTimers
<1>9. Attached(u) BY <1>T, <1>1, <1>6, <1>7 DEF Attached
<1>10. In(u.events, "client") => In(s.events, "client") BY <1>1, <1>6
<1> QED BY <1>8, <1>9, <1>10 DEF t, u

LEMMA RequestStarts ==
  ASSUME NEW s, Free(s), NEW made \in BOOLEAN
  PROVE  LET t == start_proxy_request(s, made)
         IN  /\ Begun(s, t)
             /\ \/ t.place = "used" /\ ConnInv(t, "none")
                \/ t.place = "none" /\ NoneInv(t) /\ ~ made
<1> DEFINE a == [s EXCEPT !.complete = FALSE, !.error = FALSE, !.started = FALSE]
           c == nxd_http_proxy_pool_connect(a, made)
           b == StartRequest(c)
           t == [b EXCEPT !.rb_resp = 0, !.eof_resp = FALSE, !.os["resp"] = TRUE]
           u == nxe_connect_streams(t, "resp")
           w == nxe_connect_streams([u EXCEPT !.rb_req = 0, !.eof_req = FALSE,
                                              !.is["req"] = FALSE], "req")
           v == IF s.size = 0 THEN u ELSE w
           z == nxe_set_timer(v, "backend")
<1>0. start_proxy_request(s, made) = IF c.place = "used" THEN z ELSE c BY DEF start_proxy_request
<1>T. Typed(s) BY DEF Free
<1>1. /\ DOMAIN a = Fields /\ a.events = s.events /\ a.place = s.place /\ a.pair = s.pair
      /\ a.edge = s.edge /\ a.pend = s.pend /\ a.conn = s.conn /\ a.via = s.via
      /\ a.complete = FALSE /\ a.started = FALSE /\ a.error = FALSE /\ a.retry = s.retry
      /\ SameBody(s, a) /\ SameTimers(s, a) /\ SameStreams(s, a)
  BY <1>T DEF Typed, Fields, SameBody, SameState, SameTimers, SameStreams
<1> HIDE DEF a
<1>2. Free(a)
  <2>1. Typed(a) BY <1>T, <1>1 DEF Typed, SameBody, SameState, SameTimers, SameStreams
  <2>2. ASSUME s.place = "none" PROVE NoneInv(a)
    <3>1. NoneInv(s) BY <2>2 DEF Free
    <3> QED BY <1>1, <3>1 DEF NoneInv, SameBody, SameState, SameTimers
  <2>3. ASSUME s.place = "pool" PROVE ConnInv(a, "none")
    <3>1. WatchInv(s) /\ StateInv(s) /\ FlowInv(s, "none") BY <2>3 DEF Free, ConnInv
    <3>2. \A y : Flowing(a, y) <=> Flowing(s, y) BY <1>1 DEF Flowing, SameStreams
    <3>3. FlowInv(a, "none") BY <1>1, <3>1, <3>2 DEF FlowInv
    <3>4. StateInv(a) BY <1>1, <3>1 DEF StateInv, SameBody, SameState, SameStreams
    <3>5. StateTimer(a) = StateTimer(s) BY <1>1 DEF StateTimer, SameBody, SameState
    <3>6. WatchInv(a) BY <1>1, <2>3, <3>1, <3>5 DEF WatchInv, SameTimers
    <3> QED BY <3>3, <3>4, <3>6 DEF ConnInv
  <2> QED BY <1>1, <2>1, <2>2, <2>3 DEF Free, SameTimers
<1>B. a.bodies = s.bodies BY <1>1 DEF SameBody, SameState
<1>3. \/ /\ Attached(c) /\ SameHandler(a, c) /\ c.state \in {"CONNECTING", "IDLE"}
         /\ c.state = "CONNECTING" => "write" \in c.timers
         /\ In(c.events, "client") => In(a.events, "client")
      \/ c = a /\ ~ made /\ a.place = "none"
  BY <1>2, PoolConnects
<1> HIDE DEF c
<1>4. CASE c = a /\ ~ made /\ a.place = "none"
  <2>1. start_proxy_request(s, made) = a BY <1>0, <1>4
  <2>2. Begun(s, a) BY <1>B, <1>1, <1>2 DEF Free, Begun
  <2>3. NoneInv(a) BY <1>2, <1>4 DEF Free
  <2> QED BY <1>4, <2>1, <2>2, <2>3
<1>5. CASE /\ Attached(c) /\ SameHandler(a, c) /\ c.state \in {"CONNECTING", "IDLE"}
           /\ c.state = "CONNECTING" => "write" \in c.timers
           /\ In(c.events, "client") => In(a.events, "client")
  <2>0. start_proxy_request(s, made) = z BY <1>0, <1>5 DEF Attached
  <2>1. /\ Attached(b) /\ SameHandler(c, b) /\ b.state \in {"CONNECTING", "SENDING_HEADERS"}
        /\ "write" \in b.timers /\ ~ b.wait100
        /\ In(b.events, "client") => In(c.events, "client")
    BY <1>5, Starts
  <2> HIDE DEF b
  <2>2. /\ Attached(u) /\ SameHandler(b, u) /\ SameBody(b, u) /\ SameTimers(b, u)
        /\ In(u.events, "client") => In(b.events, "client")
    BY <2>1, StreamAttached DEF Attached
  <2> HIDE DEF u
  <2>3. /\ Attached(w) /\ w.conn = u.conn /\ w.via = u.via /\ w.started = u.started
        /\ w.retry = u.retry /\ w.bodies = u.bodies /\ w.state = u.state /\ w.wait100 = u.wait100 /\ SameTimers(u, w)
        /\ In(w.events, "client") => In(u.events, "client")
    BY <2>2, BodyAttached
  <2> HIDE DEF w
  <2>4. /\ Attached(v) /\ v.conn = u.conn /\ v.via = u.via /\ v.started = u.started
        /\ v.retry = u.retry /\ v.bodies = u.bodies /\ v.state = u.state /\ v.wait100 = u.wait100 /\ SameTimers(u, v)
        /\ In(v.events, "client") => In(u.events, "client")
    BY <2>2, <2>3 DEF SameTimers
  <2> HIDE DEF v
  <2>5. /\ v.conn = s.conn /\ v.via = s.via /\ v.started = FALSE /\ v.bodies = s.bodies
        /\ v.retry = s.retry
    BY <1>B, <1>1, <1>5, <2>1, <2>2, <2>4 DEF SameHandler
  <2>6. /\ v.state \in {"CONNECTING", "SENDING_HEADERS"} /\ "write" \in v.timers /\ ~ v.wait100
    BY <2>1, <2>2, <2>4 DEF SameBody, SameState, SameTimers
  <2>7. In(v.events, "client") => In(s.events, "client") BY <1>1, <1>5, <2>1, <2>2, <2>4
  <2>8. /\ Calm(v, z) /\ SameBody(v, z) /\ z.timers = v.timers \cup {"backend"}
    <3>1. "backend" \in Timers BY DEF Timers
    <3> QED BY <2>4, <3>1, SetTimer DEF Attached
  <2> HIDE DEF z
  <2>9. /\ Typed(z) /\ SameRequest(v, z) /\ (In(z.events, "client") => In(v.events, "client"))
        /\ FlowInv(z, "none") /\ ~ z.os["req"]
    BY <2>4, <2>8 DEF Attached, Calm, Kept, KeepsFlow
  <2>10. Begun(s, z) BY <2>5, <2>7, <2>8, <2>9 DEF Begun, SameRequest, SameBody, SameState
  <2>11. /\ z.place = "used" /\ z.state \in {"CONNECTING", "SENDING_HEADERS"} /\ "write" \in z.timers
         /\ ~ z.wait100
    BY <2>4, <2>6, <2>8, <2>9 DEF Attached, SameRequest, SameBody, SameState
  <2>12. StateTimer(z) = "write" BY <2>11, TimerOfState
  <2>13. WatchInv(z) BY <2>11, <2>12 DEF WatchInv
  <2>14. StateInv(z) BY <2>9, <2>11 DEF StateInv
  <2> QED BY <2>0, <2>9, <2>10, <2>11, <2>13, <2>14 DEF ConnInv
<1> QED BY <1>3, <1>4, <1>5

-----------------------------------------------------------------------------
(* The handler.                                                            *)

(* Fields of the request change that nothing here depends on.              *)
SameLoop(s, t) ==
  /\ t.events = s.events /\ t.place = s.place /\ t.pair = s.pair /\ t.edge = s.edge
  /\ t.pend = s.pend /\ SameTimers(s, t) /\ SameStreams(s, t)

(* The request is repeated while nothing of its body has been sent.        *)
LEMMA Retries ==
  ASSUME NEW s, Typed(s), s.place = "used", "backend" \notin s.timers, s.bodies = 0, PlaceInv(s),
         ~ s.started, NEW made \in BOOLEAN
  PROVE  LET t == retry_proxy_request(s, made)
         IN  Inv(t, "none") /\ (In(t.events, "client") => In(s.events, "client"))
<1> DEFINE a == [s EXCEPT !.tripped = @ \/ s.conn \notin {"receiving", "handling"}]
           b == nxd_http_proxy_pool_return(a, TRUE)
           c == [b EXCEPT !.retry = @ + 1]
           t == start_proxy_request(c, made)
<1>0. retry_proxy_request(s, made) = t BY DEF retry_proxy_request
<1>1. /\ DOMAIN a = Fields /\ SameLoop(s, a) /\ SameHandler(s, a) /\ SameBody(s, a)
  BY DEF Typed, Fields, SameLoop, SameHandler, SameBody, SameState, SameTimers, SameStreams
<1> HIDE DEF a
<1>2. Typed(a) /\ "backend" \notin a.timers
  BY <1>1 DEF Typed, SameLoop, SameBody, SameState, SameTimers, SameStreams
<1>3. Released(a, b) BY <1>2, Returns
<1> HIDE DEF b
<1>4. Typed(b) /\ b.place = "none" /\ NoneInv(b) /\ SameHandler(a, b) BY <1>3 DEF Released
<1>5. /\ DOMAIN c = Fields /\ SameLoop(b, c) /\ SameBody(b, c) /\ c.conn = b.conn
      /\ c.via = b.via /\ c.retry = b.retry + 1
  BY <1>4 DEF Typed, Fields, SameLoop, SameHandler, SameBody, SameState, SameTimers, SameStreams
<1> HIDE DEF c
<1>6. Typed(c) BY <1>4, <1>5 DEF Typed, SameLoop, SameBody, SameState, SameTimers, SameStreams
<1>7. NoneInv(c) /\ c.place = "none"
  BY <1>4, <1>5 DEF NoneInv, SameLoop, SameBody, SameState, SameTimers
<1>8. Free(c) BY <1>6, <1>7 DEF Free, NoneInv
<1>M. made \in BOOLEAN BY ProxyAssumption
<1>9. /\ Begun(c, t)
      /\ \/ t.place = "used" /\ ConnInv(t, "none")
         \/ t.place = "none" /\ NoneInv(t) /\ ~ made
  BY <1>M, <1>8, RequestStarts
<1> HIDE DEF t
<1>10. /\ Typed(t) /\ t.conn = s.conn /\ t.via = s.via /\ t.bodies = 0 /\ ~ t.started
  BY <1>1, <1>4, <1>5, <1>9 DEF Begun, SameHandler, SameBody, SameState
<1>11. In(t.events, "client") => In(s.events, "client")
  BY <1>1, <1>3, <1>5, <1>9 DEF Begun, Released, SameLoop
<1>12. BodyInv(t) BY <1>10 DEF BodyInv
<1>13. s.conn # "idle" /\ s.via # "backend" BY DEF PlaceInv
<1>14. t.retry \in Nat /\ t.retry > 0
  <2>1. s.retry \in Nat BY DEF PlaceInv
  <2> QED BY <2>1, <1>1, <1>4, <1>5, <1>9 DEF Begun, SameHandler
<1>15. PlaceInv(t)
  <2>1. t.place = "none" => "backend" \notin t.timers BY <1>9 DEF NoneInv
  <2>2. t.place \in {"none", "used"} BY <1>9
  <2>3. t.conn \in {"receiving", "handling", "sending"} BY <1>10, <1>13 DEF PlaceInv
  <2>4. t.conn \in {"receiving", "handling"} => t.via = "none" BY <1>10 DEF PlaceInv
  <2> QED BY <1>10, <1>13, <1>14, <2>1, <2>2, <2>3, <2>4 DEF PlaceInv
<1>16. Inv(t, "none") BY <1>9, <1>10, <1>12, <1>15 DEF Inv
<1> QED BY <1>0, <1>11, <1>16

(* The end of a request; its connection is kept only if it is watched.     *)
LEMMA RequestEnds ==
  ASSUME NEW s, Typed(s), s.place \in {"none", "used"}, s.place = "none" => NoneInv(s),
         s.place = "used" => StateInv(s),
         s.place = "used" /\ s.state = "IDLE" /\ "keep_alive" \notin s.timers => s.error
  PROVE  Inv(request_finalize(s), "none")
<1> DEFINE a == nxe_unset_timer(s, "backend")
           N == HcpMessages \cup ClientMessages
           b == nxe_unsubscribe(a, N)
           t == Disconnected(b, {"req", "resp"})
           u == IF s.place = "used" THEN nxd_http_proxy_pool_return(t, s.error) ELSE t
           z == [u EXCEPT !.conn = "idle", !.via = "none", !.method = "GET", !.size = 0, !.left = 0,
                          !.retry = 0, !.started = FALSE, !.complete = FALSE, !.error = FALSE,
                          !.rb_req = 0, !.eof_req = FALSE, !.rb_resp = 0, !.eof_resp = FALSE,
                          !.bodies = 0]
<1>0. request_finalize(s) = z BY DEF request_finalize
<1>1. /\ Calm(s, a) /\ SameBody(s, a) /\ SameStreams(s, a) /\ a.events = s.events
      /\ a.timers = s.timers \ {"backend"}
  BY UnsetTimer
<1>P. a.pend = s.pend BY DEF nxe_unset_timer, Typed, Fields
<1> HIDE DEF a
<1>2. Typed(a) /\ SameRequest(s, a) BY <1>1 DEF Calm, Kept
<1>3. /\ Typed(b) /\ b.place = a.place /\ b.edge = a.edge /\ b.pair = a.pair /\ b.pend = a.pend
      /\ SameBody(a, b) /\ SameTimers(a, b)
      /\ \A f : In(b.events, f) <=> In(a.events, f) /\ f \notin N
  BY <1>2, Unsubscribes
<1> HIDE DEF b, N
<1>4. /\ Typed(t) /\ t.place = b.place /\ t.edge = b.edge /\ t.pair = b.pair \ {"req", "resp"}
      /\ t.pend = b.pend /\ SameBody(b, t) /\ SameTimers(b, t)
      /\ \A f : In(t.events, f) <=> In(b.events, f) /\ f \notin {"req", "resp"}
  BY <1>3, Disconnects
<1> HIDE DEF t
<1>5. /\ t.timers = s.timers \ {"backend"} /\ t.place = s.place /\ t.state = s.state
      /\ t.wait100 = s.wait100 /\ t.edge = s.edge /\ t.pair = s.pair \ {"req", "resp"} /\ t.pend = s.pend
      /\ \A f : In(t.events, f) <=> In(s.events, f) /\ f \notin N /\ f \notin {"req", "resp"}
  BY <1>P, <1>1, <1>2, <1>3, <1>4 DEF SameRequest, SameBody, SameState, SameTimers
<1>6. \/ Typed(u) /\ u.place = "none" /\ NoneInv(u)
      \/ Pooled(t, u) /\ ~ s.error /\ s.place = "used"
  <2>1. CASE s.place = "none"
    <3>1. NoneInv(s) /\ u = t BY <2>1
    <3>2. NoneInv(u) BY <1>5, <3>1 DEF NoneInv
    <3> QED BY <1>4, <1>5, <2>1, <3>1, <3>2
  <2>2. CASE s.place = "used"
    <3>1. u = nxd_http_proxy_pool_return(t, s.error) BY <2>2
    <3>2. "backend" \notin t.timers BY <1>5
    <3>3. Released(t, u) \/ (Pooled(t, u) /\ ~ s.error) BY <1>4, <3>1, <3>2, Returns
    <3> QED BY <2>2, <3>3 DEF Released
  <2> QED BY <2>1, <2>2
<1>7. /\ Typed(u) /\ (In(u.events, "client") => In(t.events, "client")) /\ "backend" \notin u.timers
      /\ u.place \in {"none", "pool"}
  <2>1. CASE Typed(u) /\ u.place = "none" /\ NoneInv(u)
    <3>1. CASE s.place = "none" BY <2>1, <3>1 DEF NoneInv
    <3>2. CASE s.place = "used"
      <4>1. u = nxd_http_proxy_pool_return(t, s.error) BY <3>2
      <4>2. "backend" \notin t.timers BY <1>5
      <4>3. Released(t, u) \/ Pooled(t, u) BY <1>4, <4>1, <4>2, Returns
      <4> QED BY <2>1, <4>3 DEF Released, Pooled, NoneInv
    <3> QED BY <3>1, <3>2
  <2>2. CASE Pooled(t, u) BY <1>5, <2>2 DEF Pooled
  <2> QED BY <1>6, <2>1, <2>2
<1>8. ~ In(u.events, "client") BY <1>5, <1>7 DEF N, ClientMessages
<1> HIDE DEF u
<1>9. /\ DOMAIN z = Fields /\ SameLoop(u, z) /\ z.conn = "idle" /\ z.via = "none" /\ z.bodies = 0
      /\ z.state = u.state /\ z.wait100 = u.wait100 /\ z.room = u.room /\ z.rb_req = 0 /\ z.retry = 0
  BY <1>7 DEF Typed, Fields, SameLoop, SameTimers, SameStreams
<1> HIDE DEF z
<1>10. Typed(z) BY <1>7, <1>9 DEF Typed, SameLoop, SameTimers, SameStreams
<1>11. BodyInv(z) BY <1>9 DEF BodyInv
<1>12. PlaceInv(z) BY <1>7, <1>8, <1>9 DEF PlaceInv, SameLoop, SameTimers
<1>13. CASE Typed(u) /\ u.place = "none" /\ NoneInv(u)
  <2>1. NoneInv(z) /\ z.place = "none" BY <1>9, <1>13 DEF NoneInv, SameLoop, SameTimers
  <2> QED BY <1>0, <1>10, <1>11, <1>12, <2>1 DEF Inv
<1>14. CASE Pooled(t, u) /\ ~ s.error /\ s.place = "used"
  <2>1. /\ z.place = "pool" /\ z.state = "IDLE" /\ t.state = "IDLE" /\ z.wait100 = t.wait100
        /\ z.timers = t.timers /\ ~ z.os["req"]
    BY <1>9, <1>14 DEF Pooled, SameLoop, SameTimers, SameStreams
  <2>2. "keep_alive" \in z.timers BY <1>5, <1>14, <2>1
  <2>3. StateTimer(z) = "keep_alive" BY <2>1, TimerOfState
  <2>4. WatchInv(z) BY <2>1, <2>2, <2>3 DEF WatchInv
  <2>5. ~ z.wait100 BY <1>5, <1>14, <2>1 DEF StateInv
  <2>6. StateInv(z) BY <2>1, <2>5 DEF StateInv
  <2>7. \A y \in Streams : ~ Flowing(z, y)
    BY <1>9, <1>14 DEF Pooled, Flowing, SameLoop, SameStreams
  <2>8. FlowInv(z, "none") BY <2>7 DEF FlowInv
  <2> QED BY <1>0, <1>10, <1>11, <1>12, <2>1, <2>4, <2>6, <2>8 DEF Inv, ConnInv
<1> QED BY <1>6, <1>7, <1>13, <1>14

(* A connection in use, but for who watches it.                            *)
InUse(s) ==
  /\ Typed(s) /\ BodyInv(s) /\ PlaceInv(s) /\ s.place = "used" /\ StateInv(s) /\ FlowInv(s, "none")

LEMMA HandlerChange ==
  ASSUME NEW s, NEW t, InUse(s), DOMAIN t = Fields, SameLoop(s, t), SameBody(s, t), PlaceInv(t)
  PROVE  InUse(t) /\ (WatchInv(t) => Inv(t, "none"))
<1>1. Typed(t) BY DEF InUse, Typed, SameLoop, SameBody, SameState, SameTimers, SameStreams
<1>2. BodyInv(t) BY DEF InUse, BodyInv, SameBody, SameState
<1>3. StateInv(t) BY DEF InUse, StateInv, SameLoop, SameBody, SameState, SameStreams
<1>4. \A y : Flowing(t, y) <=> Flowing(s, y) BY DEF Flowing, SameLoop, SameStreams
<1>5. FlowInv(t, "none") BY <1>4 DEF InUse, FlowInv, SameLoop
<1>6. t.place = "used" BY DEF InUse, SameLoop
<1> QED BY <1>1, <1>2, <1>3, <1>5, <1>6 DEF InUse, Inv, ConnInv

LEMMA BackendTimerOff ==
  ASSUME NEW s, InUse(s)
  PROVE  LET t == nxe_unset_timer(s, "backend")
         IN  /\ InUse(t) /\ "backend" \notin t.timers /\ t.events = s.events
             /\ SameRequest(s, t) /\ SameState(s, t) /\ t.retry = s.retry
             /\ (WatchInv(s) => WatchInv(t))
<1> DEFINE t == nxe_unset_timer(s, "backend")
<1>T. Typed(s) BY DEF InUse
<1>1. /\ Calm(s, t) /\ SameBody(s, t) /\ SameStreams(s, t) /\ t.events = s.events
      /\ t.timers = s.timers \ {"backend"}
  BY <1>T, UnsetTimer
<1>2. t.retry = s.retry BY <1>T DEF nxe_unset_timer, Typed, Fields
<1> HIDE DEF t
<1>3. Typed(t) /\ SameRequest(s, t) BY <1>1 DEF Calm, Kept
<1>4. FlowInv(t, "none") BY <1>1 DEF Calm, KeepsFlow, InUse
<1>5. BodyInv(t) BY <1>1 DEF InUse, BodyInv, SameBody, SameState
<1>6. PlaceInv(t) BY <1>1, <1>3 DEF InUse, PlaceInv, SameRequest, SameBody, SameState
<1>7. StateInv(t) BY <1>1, <1>3 DEF InUse, StateInv, SameRequest, SameBody, SameState, SameStreams
<1>8. StateTimer(t) = StateTimer(s) BY <1>1 DEF StateTimer, SameBody, SameState
<1>9. StateTimer(s) # "backend" /\ "keep_alive" # "backend" BY TimerOfState DEF HcpTimers
<1>10. WatchInv(s) => WatchInv(t)
  BY <1>1, <1>3, <1>8, <1>9 DEF WatchInv, SameRequest, SameBody, SameState
<1>11. InUse(t) BY <1>3, <1>4, <1>5, <1>6, <1>7 DEF InUse, SameRequest
<1> QED BY <1>1, <1>2, <1>3, <1>10, <1>11 DEF t, SameBody

(* The client is told; the connection waits for the end of the request.    *)
LEMMA RequestFails ==
  ASSUME NEW s, InUse(s), ~ s.started,
         s.state = "IDLE" /\ "keep_alive" \notin s.timers => s.error \/ Sure(s.events)
  PROVE  LET t == fail_proxy_request(s) IN Inv(t, "none") /\ t.events = s.events
<1> DEFINE t == [s EXCEPT !.conn = "sending", !.via = "error", !.started = TRUE, !.complete = TRUE]
<1>0. fail_proxy_request(s) = t BY DEF fail_proxy_request
<1>T. Typed(s) /\ PlaceInv(s) /\ s.place = "used" BY DEF InUse
<1>1. /\ DOMAIN t = Fields /\ SameLoop(s, t) /\ SameBody(s, t) /\ t.conn = "sending"
      /\ t.via = "error" /\ t.complete = TRUE /\ t.error = s.error /\ t.retry = s.retry
  BY <1>T DEF Typed, Fields, SameLoop, SameBody, SameState, SameTimers, SameStreams
<1> HIDE DEF t
<1>2. PlaceInv(t) BY <1>T, <1>1 DEF PlaceInv, SameLoop
<1>3. WatchInv(t) BY <1>T, <1>1 DEF WatchInv, SameLoop, SameTimers, SameBody, SameState
<1> QED BY <1>0, <1>1, <1>2, <1>3, HandlerChange DEF SameLoop

LEMMA BackendTimeout ==
  ASSUME NEW s, InUse(s), WatchInv(s), "backend" \notin s.timers, NEW made \in BOOLEAN
  PROVE  LET t == timer_backend_on_timeout(s, made)
         IN  Inv(t, "none") /\ (In(t.events, "client") => In(s.events, "client"))
<1> DEFINE t == [s EXCEPT !.tripped = @ \/ s.place # "used"]
<1>0. timer_backend_on_timeout(s, made) =
        CASE s.sending \/ s.started -> t
          [] ~ (s.sending \/ s.started) /\ s.retry >= RetryCount -> fail_proxy_request(t)
          [] OTHER -> retry_proxy_request(t, made)
  BY DEF timer_backend_on_timeout
<1>T. Typed(s) /\ PlaceInv(s) /\ s.place = "used" BY DEF InUse
<1>1. /\ DOMAIN t = Fields /\ SameLoop(s, t) /\ SameBody(s, t) /\ SameHandler(s, t)
  BY <1>T DEF Typed, Fields, SameLoop, SameBody, SameState, SameTimers, SameStreams, SameHandler
<1> HIDE DEF t
<1>2. PlaceInv(t) BY <1>T, <1>1 DEF PlaceInv, SameLoop, SameHandler, SameTimers
<1>3. StateTimer(t) = StateTimer(s) BY <1>1 DEF StateTimer, SameBody, SameState
<1>4. WatchInv(t)
  BY <1>1, <1>3 DEF WatchInv, SameLoop, SameTimers, SameBody, SameState, SameHandler
<1>5. InUse(t) /\ Inv(t, "none") BY <1>1, <1>2, <1>4, HandlerChange
<1>6. t.events = s.events /\ t.place = "used" /\ "backend" \notin t.timers
  BY <1>T, <1>1 DEF SameLoop, SameTimers
<1>7. CASE s.sending \/ s.started BY <1>0, <1>5, <1>6, <1>7
<1>8. CASE ~ (s.sending \/ s.started)
  <2>1. ~ t.started /\ ~ t.sending BY <1>1, <1>8 DEF SameHandler, SameBody, SameState
  <2>2. t.bodies = 0 BY <1>5, <2>1 DEF InUse, BodyInv
  <2>3. t.state = "IDLE" /\ "keep_alive" \notin t.timers => t.error \/ Sure(t.events)
    BY <1>4, <1>6 DEF WatchInv
  <2> DEFINE f == fail_proxy_request(t)
             r == retry_proxy_request(t, made)
  <2>4. Inv(f, "none") /\ f.events = t.events BY <1>5, <2>1, <2>3, RequestFails
  <2>5. Inv(r, "none") /\ (In(r.events, "client") => In(t.events, "client"))
    BY <1>2, <1>5, <1>6, <2>1, <2>2, Retries DEF InUse
  <2>6. timer_backend_on_timeout(s, made) \in {f, r} BY <1>0, <1>8
  <2> HIDE DEF f, r
  <2> QED BY <1>6, <2>4, <2>5, <2>6
<1> QED BY <1>7, <1>8

LEMMA ResponseComes ==
  ASSUME NEW s, InUse(s), WatchInv(s) PROVE Inv(OnResponse(s), "none")
<1> DEFINE a == [s EXCEPT !.started = TRUE]
           t == nxe_unset_timer(a, "backend")
           u == [t EXCEPT !.conn = "sending", !.via = "backend"]
<1>0. OnResponse(s) = IF s.conn = "sending" THEN t ELSE u BY DEF OnResponse
<1>T. Typed(s) /\ PlaceInv(s) /\ s.place = "used" /\ BodyInv(s) /\ StateInv(s) /\ FlowInv(s, "none")
  BY DEF InUse
<1>1. /\ DOMAIN a = Fields /\ SameLoop(s, a) /\ SameBody(s, a) /\ a.started = TRUE
      /\ a.conn = s.conn /\ a.via = s.via /\ a.complete = s.complete /\ a.error = s.error /\ a.retry = s.retry
  BY <1>T DEF Typed, Fields, SameLoop, SameBody, SameState, SameTimers, SameStreams
<1> HIDE DEF a
<1>2. Typed(a) BY <1>T, <1>1 DEF Typed, SameLoop, SameBody, SameState, SameTimers, SameStreams
<1>3. /\ Calm(a, t) /\ SameBody(a, t) /\ SameStreams(a, t) /\ t.events = a.events
      /\ t.timers = a.timers \ {"backend"}
  BY <1>2, UnsetTimer
<1> HIDE DEF t
<1>4. Typed(t) /\ SameRequest(a, t) BY <1>3 DEF Calm, Kept
<1>5. /\ t.conn = s.conn /\ t.via = s.via /\ t.complete = s.complete /\ t.error = s.error
      /\ t.retry = s.retry /\ t.started = TRUE /\ t.place = "used" /\ t.events = s.events /\ t.pair = s.pair
      /\ t.timers = s.timers \ {"backend"} /\ SameBody(s, t) /\ SameStreams(s, t)
  BY <1>T, <1>1, <1>3, <1>4
     DEF SameRequest, SameLoop, SameBody, SameState, SameTimers, SameStreams
<1>6. /\ DOMAIN u = Fields /\ SameLoop(t, u) /\ SameBody(t, u) /\ u.conn = "sending"
      /\ u.via = "backend" /\ u.started = t.started /\ u.complete = t.complete /\ u.error = t.error
      /\ u.retry = t.retry
  BY <1>4 DEF Typed, Fields, SameLoop, SameBody, SameState, SameTimers, SameStreams
<1> HIDE DEF u
<1> DEFINE z == IF s.conn = "sending" THEN t ELSE u
<1>7. /\ DOMAIN z = Fields /\ z.conn = "sending" /\ z.complete = s.complete /\ z.error = s.error
      /\ z.retry = s.retry /\ z.started = TRUE /\ z.place = "used" /\ z.events = s.events /\ z.pair = s.pair
      /\ z.timers = s.timers \ {"backend"} /\ SameBody(s, z) /\ SameStreams(s, z) /\ Typed(z)
  <2>1. CASE s.conn = "sending" BY <1>4, <1>5, <2>1 DEF Typed
  <2>2. CASE s.conn # "sending"
    <3>1. Typed(u) BY <1>4, <1>6 DEF Typed, SameLoop, SameBody, SameState, SameTimers, SameStreams
    <3> QED BY <1>5, <1>6, <2>2, <3>1
            DEF SameLoop, SameBody, SameState, SameTimers, SameStreams
  <2> QED BY <2>1, <2>2
<1> HIDE DEF z
<1>8. BodyInv(z) BY <1>T, <1>7 DEF BodyInv, SameBody, SameState
<1>9. PlaceInv(z) BY <1>T, <1>7 DEF PlaceInv
<1>10. StateInv(z) BY <1>T, <1>7 DEF StateInv, SameBody, SameState, SameStreams
<1>11. \A y : Flowing(z, y) <=> Flowing(s, y) BY <1>7 DEF Flowing, SameStreams
<1>12. FlowInv(z, "none") BY <1>T, <1>7, <1>11 DEF FlowInv
<1>13. StateTimer(z) = StateTimer(s) BY <1>7 DEF StateTimer, SameBody, SameState
<1>14. StateTimer(s) # "backend" BY TimerOfState DEF HcpTimers
<1>15. WatchInv(z) BY <1>T, <1>7, <1>13, <1>14 DEF WatchInv, SameBody, SameState
<1>16. Inv(z, "none") BY <1>7, <1>8, <1>9, <1>10, <1>12, <1>15 DEF Inv, ConnInv
<1> QED BY <1>0, <1>16 DEF z

(* The watch over the connection may be over: the error is being reported. *)
LEMMA ErrorComes ==
  ASSUME NEW s, InUse(s), NEW made \in BOOLEAN
  PROVE  Inv(OnError(s, made), "none")
<1> DEFINE t == [s EXCEPT !.error = TRUE, !.tripped = @ \/ s.place # "used"]
           u == nxe_unset_timer(t, "backend")
<1>0. OnError(s, made) =
        CASE s.complete -> t
          [] ~ s.complete /\ s.started -> fail_proxy_request(t)
          [] OTHER -> IF s.retry >= RetryCount \/ s.sending THEN fail_proxy_request(u)
                      ELSE retry_proxy_request(u, made)
  BY DEF OnError
<1>T. Typed(s) /\ PlaceInv(s) /\ s.place = "used" BY DEF InUse
<1>1. /\ DOMAIN t = Fields /\ SameLoop(s, t) /\ SameBody(s, t) /\ t.error = TRUE
      /\ t.conn = s.conn /\ t.via = s.via /\ t.started = s.started /\ t.complete = s.complete
      /\ t.retry = s.retry
  BY <1>T DEF Typed, Fields, SameLoop, SameBody, SameState, SameTimers, SameStreams
<1> HIDE DEF t
<1>2. PlaceInv(t) BY <1>T, <1>1 DEF PlaceInv, SameLoop, SameTimers, SameBody, SameState
<1>3. InUse(t) /\ (WatchInv(t) => Inv(t, "none")) BY <1>1, <1>2, HandlerChange
<1>4. CASE s.complete
  <2>1. WatchInv(t) BY <1>T, <1>1, <1>4 DEF WatchInv, SameLoop
  <2> QED BY <1>0, <1>3, <1>4, <2>1
<1>5. CASE ~ s.complete /\ s.started
  <2>1. OnError(s, made) = request_finalize(t) BY <1>0, <1>1, <1>5 DEF fail_proxy_request
  <2>2. Inv(request_finalize(t), "none") BY <1>1, <1>3, RequestEnds DEF InUse
  <2> QED BY <2>1, <2>2
<1>6. CASE ~ s.complete /\ ~ s.started
  <2>1. /\ InUse(u) /\ "backend" \notin u.timers /\ u.events = t.events /\ SameRequest(t, u)
        /\ SameState(t, u)
    BY <1>3, BackendTimerOff
  <2> HIDE DEF u
  <2>2. ~ u.started /\ u.error BY <1>1, <1>6, <2>1 DEF SameRequest
  <2>3. Inv(fail_proxy_request(u), "none") BY <2>1, <2>2, RequestFails
  <2>4. ASSUME ~ s.sending PROVE Inv(retry_proxy_request(u, made), "none")
    <3>1. ~ u.sending BY <1>1, <2>1, <2>4 DEF SameBody, SameState
    <3>2. u.bodies = 0 BY <2>1, <3>1 DEF InUse, BodyInv
    <3> QED BY <2>1, <2>2, <3>2, Retries DEF InUse
  <2> QED BY <1>0, <1>6, <2>3, <2>4
<1> QED BY <1>4, <1>5, <1>6

-----------------------------------------------------------------------------
(* What keeps the invariant as a whole.                                    *)

LEMMA HereServed == ASSUME NEW x, NEW s, Inv(s, x), s.place # "none" PROVE Served(s, x)
BY DEF Inv, PlaceInv, Served

LEMMA RoundKeeps ==
  ASSUME NEW x, NEW s, NEW t, Inv(s, x), s.place # "none", Round(s, t, x)
  PROVE  Inv(t, x) /\ t.place # "none" /\ (In(t.events, "client") => In(s.events, "client"))
<1>1. /\ Typed(s) /\ PlaceInv(s) /\ StateInv(s) BY DEF Inv, ConnInv
<1>2. /\ Typed(t) /\ BodyInv(t) /\ ConnInv(t, x) /\ SameRequest(s, t)
      /\ In(t.events, "client") => In(s.events, "client")
      /\ "backend" \in t.timers => "backend" \in s.timers
      /\ s.state = "IDLE" => t.bodies = s.bodies
  BY DEF Round, Served, Kept
<1>3. t.conn = "idle" => t.bodies = 0
  <2>1. ASSUME t.conn = "idle" PROVE s.place = "pool" /\ s.bodies = 0
    BY <1>1, <1>2, <2>1 DEF PlaceInv, SameRequest
  <2> QED BY <1>1, <1>2, <2>1 DEF StateInv
<1>4. PlaceInv(t) BY <1>1, <1>2, <1>3 DEF PlaceInv, SameRequest
<1> QED BY <1>2, <1>4 DEF Inv, SameRequest

(* Time, the peer, and what the client's side does with its data.          *)
LEMMA OutsideChange ==
  ASSUME NEW x, NEW s, NEW t, Inv(s, x), s.place # "none", DOMAIN t = Fields, t.events = s.events,
         t.place = s.place, t.pair = s.pair, t.timers = s.timers, t.expired \in SUBSET s.timers,
         SameStreams(s, t), SameHandler(s, t), SameState(s, t), t.room \in Nat
  PROVE  Inv(t, x)
<1>1. /\ Typed(s) /\ BodyInv(s) /\ PlaceInv(s) /\ WatchInv(s) /\ StateInv(s) /\ FlowInv(s, x)
  BY DEF Inv, ConnInv
<1>2. Typed(t) BY <1>1 DEF Typed, SameStreams, SameState
<1>3. BodyInv(t) BY <1>1 DEF BodyInv, SameState
<1>4. PlaceInv(t) BY <1>1 DEF PlaceInv, SameHandler
<1>5. StateTimer(t) = StateTimer(s) BY DEF StateTimer, SameState
<1>6. WatchInv(t) BY <1>1, <1>5 DEF WatchInv, SameHandler, SameState
<1>7. StateInv(t) BY <1>1 DEF StateInv, SameState, SameStreams
<1>8. \A y : Flowing(t, y) <=> Flowing(s, y) BY DEF Flowing, SameStreams
<1>9. FlowInv(t, x) BY <1>1, <1>8 DEF FlowInv
<1> QED BY <1>2, <1>3, <1>4, <1>6, <1>7, <1>9 DEF Inv, ConnInv

LEMMA ClientPublishes ==
  ASSUME NEW s, Inv(s, "none"), s.conn # "idle" PROVE Inv(nxe_publish(s, "client"), "none")
<1> DEFINE t == nxe_publish(s, "client")
<1>T. Typed(s) /\ BodyInv(s) /\ PlaceInv(s) BY DEF Inv
<1>1. /\ DOMAIN t = Fields /\ t.events = Append(s.events, "client") /\ t.pend = s.pend
      /\ SameRequest(s, t) /\ SameBody(s, t) /\ SameTimers(s, t) /\ SameStreams(s, t)
  BY <1>T DEF nxe_publish, Typed, Fields, SameRequest, SameBody, SameState, SameTimers, SameStreams
<1> HIDE DEF t
<1>2. /\ t.events \in Seq(Events) /\ Later(s.events, t.events)
      /\ \A f : In(t.events, f) <=> In(s.events, f) \/ f = "client"
  <2>1. "client" \in Events BY DEF Events, ClientMessages
  <2> QED BY <1>T, <1>1, <2>1, Appended DEF Typed
<1>3. Sure(s.events) => Sure(t.events) BY <1>T, <1>2, LaterHolds DEF Typed
<1>4. Typed(t) BY <1>T, <1>1, <1>2 DEF Typed, SameRequest, SameTimers, SameStreams, SameBody, SameState
<1>5. BodyInv(t) BY <1>T, <1>1 DEF BodyInv, SameBody, SameState
<1>6. PlaceInv(t) BY <1>T, <1>1 DEF PlaceInv, SameRequest, SameBody, SameState, SameTimers
<1>7. CASE s.place = "none"
  <2>1. NoneInv(s) BY <1>7 DEF Inv
  <2>2. "client" \notin HcpMessages \cup SockMessages BY DEF HcpMessages, SockMessages
  <2>3. NoneInv(t) BY <1>1, <1>2, <2>1, <2>2 DEF NoneInv, SameRequest, SameBody, SameState, SameTimers
  <2>4. t.place = "none" BY <1>1, <1>7 DEF SameRequest
  <2> QED BY <1>4, <1>5, <1>6, <2>3, <2>4 DEF Inv, t
<1>8. CASE s.place # "none"
  <2>1. WatchInv(s) /\ StateInv(s) /\ FlowInv(s, "none") BY <1>8 DEF Inv, ConnInv
  <2>2. StateInv(t) BY <1>1, <2>1 DEF StateInv, SameRequest, SameBody, SameState, SameStreams
  <2>3. \A y : Flowing(t, y) <=> Flowing(s, y) BY <1>1 DEF Flowing, SameStreams, SameRequest
  <2>4. FlowInv(t, "none") BY <1>2, <2>1, <2>3 DEF FlowInv
  <2>5. StateTimer(t) = StateTimer(s) BY <1>1 DEF StateTimer, SameBody, SameState
  <2>6. WatchInv(t)
    BY <1>1, <1>2, <1>3, <2>1, <2>5 DEF WatchInv, SameRequest, SameBody, SameState, SameTimers
  <2>7. t.place # "none" BY <1>1, <1>8 DEF SameRequest
  <2> QED BY <1>4, <1>5, <1>6, <2>2, <2>4, <2>6, <2>7 DEF Inv, ConnInv, t
<1> QED BY <1>7, <1>8

(* The turn of the loop: nothing of the client is in the list.             *)
Turn(s) == Inv(s, "none") /\ ~ In(s.events, "client")

LEMMA TimerExpires ==
  ASSUME NEW s, Turn(s), NEW x \in Timers, NEW made \in BOOLEAN
  PROVE  Turn(Timeout(s, x, made))
<1> DEFINE u == nxe_unset_timer(s, x)
<1>T. Typed(s) /\ BodyInv(s) /\ PlaceInv(s) BY DEF Turn, Inv
<1>1. CASE x \notin s.expired
  <2>1. Timeout(s, x, made) = s BY <1>1 DEF Timeout
  <2> QED BY <2>1
<1>2. CASE x \in s.expired /\ x # "backend"
  <2> DEFINE t == nxe_publish(u, "error")
  <2>0. Timeout(s, x, made) = t BY <1>2 DEF Timeout
  <2>1. s.place # "none" BY <1>T, <1>2 DEF Turn, Inv, NoneInv, Typed
  <2>2. WatchInv(s) /\ StateInv(s) /\ FlowInv(s, "none") BY <2>1 DEF Turn, Inv, ConnInv
  <2>3. /\ Calm(s, u) /\ SameBody(s, u) /\ SameStreams(s, u) /\ u.events = s.events
        /\ u.timers = s.timers \ {x}
    BY <1>T, UnsetTimer
  <2> HIDE DEF u
  <2>4. Typed(u) BY <2>3, CalmTyped
  <2>5. /\ Calm(u, t) /\ SameBody(u, t) /\ SameTimers(u, t) /\ SameStreams(u, t)
        /\ In(t.events, "error") /\ (~ In(u.events, "client") => Sure(t.events))
        /\ \A f : In(t.events, f) <=> In(u.events, f) \/ f = "error"
    <3>1. "error" \in Messages BY DEF Messages, HcpMessages
    <3> QED BY <2>4, <3>1, Publish
  <2> HIDE DEF t
  <2>6. Calm(s, t) BY <1>T, <2>3, <2>5, CalmTransitive
  <2>7. Typed(t) /\ SameRequest(s, t) /\ FlowInv(t, "none") BY <2>2, <2>6 DEF Calm, Kept, KeepsFlow
  <2>8. SameState(s, t) /\ SameStreams(s, t) /\ t.timers = s.timers \ {x}
    BY <2>3, <2>5 DEF SameBody, SameState, SameStreams, SameTimers
  <2>9. ~ In(t.events, "client") /\ Sure(t.events) BY <2>3, <2>5 DEF Turn
  <2>10. BodyInv(t) BY <1>T, <2>8 DEF BodyInv, SameState
  <2>11. PlaceInv(t) BY <1>T, <2>7, <2>8, <2>9 DEF PlaceInv, SameRequest, SameState
  <2>12. StateInv(t) BY <2>2, <2>7, <2>8 DEF StateInv, SameRequest, SameState, SameStreams
  <2>13. WatchInv(t) BY <2>5, <2>9 DEF WatchInv
  <2>14. t.place # "none" BY <2>1, <2>7 DEF SameRequest
  <2> QED BY <2>0, <2>7, <2>9, <2>10, <2>11, <2>12, <2>13, <2>14 DEF Turn, Inv, ConnInv
<1>3. CASE x \in s.expired /\ x = "backend"
  <2> DEFINE t == timer_backend_on_timeout(u, made)
  <2>0. Timeout(s, x, made) = t BY <1>3 DEF Timeout
  <2>1. s.place = "used" BY <1>T, <1>3 DEF PlaceInv, Typed
  <2>2. InUse(s) /\ WatchInv(s) BY <2>1 DEF Turn, Inv, ConnInv, InUse
  <2>3. InUse(u) /\ "backend" \notin u.timers /\ u.events = s.events /\ WatchInv(u)
    BY <1>3, <2>2, BackendTimerOff
  <2> HIDE DEF u
  <2>4. Inv(t, "none") /\ (In(t.events, "client") => In(u.events, "client"))
    BY <2>3, BackendTimeout
  <2> QED BY <2>0, <2>3, <2>4 DEF Turn
<1> QED BY <1>1, <1>2, <1>3

LEMMA TimersProcessed ==
  ASSUME NEW s, Turn(s), NEW made \in BOOLEAN PROVE Turn(ProcessTimers(s, made))
<1> DEFINE a == Timeout(s, "keep_alive", made)
           b == Timeout(a, "read", made)
           c == Timeout(b, "write", made)
           d == Timeout(c, "backend", made)
           e == Timeout(d, "100continue", made)
<1>0. ProcessTimers(s, made) = e BY DEF ProcessTimers
<1>S. /\ "keep_alive" \in Timers /\ "read" \in Timers /\ "write" \in Timers
      /\ "backend" \in Timers /\ "100continue" \in Timers
  BY DEF Timers, HcpTimers
<1>1. Turn(a) BY <1>S, TimerExpires
<1> HIDE DEF a
<1>2. Turn(b) BY <1>S, <1>1, TimerExpires
<1> HIDE DEF b
<1>3. Turn(c) BY <1>S, <1>2, TimerExpires
<1> HIDE DEF c
<1>4. Turn(d) BY <1>S, <1>3, TimerExpires
<1> HIDE DEF d
<1>5. Turn(e) BY <1>S, <1>4, TimerExpires
<1> QED BY <1>0, <1>5

-----------------------------------------------------------------------------
(* The network thread's steps.                                             *)

(* What epoll reports is known to the streams.                             *)
Reported(r) ==
  LET s == IF "in" \in r.edge THEN nxe_istream_set_ready(r, "in") ELSE r
      t == IF "out" \in r.edge THEN nxe_ostream_set_ready(s, "out") ELSE s
      u == CASE "err" \in r.edge -> nxe_publish(t, "sock_error")
             [] "err" \notin r.edge /\ "hup" \in r.edge -> nxe_publish(t, "data_error")
             [] OTHER -> t
  IN  [u EXCEPT !.edge = {}]

LEMMA TurnBegins ==
  ASSUME ProxyInv, LoopTurn
  PROVE  /\ Turn(Reported(p)) /\ cur = "none" /\ cur' = cur
         /\ \E made \in BOOLEAN : p' = ProcessTimers(Reported(p), made)
<1> DEFINE s == IF "in" \in p.edge THEN nxe_istream_set_ready(p, "in") ELSE p
           t == IF "out" \in p.edge THEN nxe_ostream_set_ready(s, "out") ELSE s
           u == CASE "err" \in p.edge -> nxe_publish(t, "sock_error")
                  [] "err" \notin p.edge /\ "hup" \in p.edge -> nxe_publish(t, "data_error")
                  [] OTHER -> t
           v == [u EXCEPT !.edge = {}]
<1>0. Reported(p) = v BY DEF Reported
<1>1. \E made \in BOOLEAN : p' = ProcessTimers(v, made) BY DEF LoopTurn
<1>2. Inv(p, "none") /\ cur = "none" /\ p.events = <<>> /\ cur' = cur BY DEF LoopTurn, Idle, ProxyInv
<1>3. p.place # "none"
  <2>1. p.edge # {} \/ p.expired # {} BY DEF LoopTurn
  <2>2. p.expired \in SUBSET p.timers BY <1>2 DEF Inv, Typed
  <2> QED BY <1>2, <2>1, <2>2 DEF Inv, NoneInv
<1>4. Served(p, "none") BY <1>2, <1>3, HereServed
<1>S. /\ "in" \in Streams /\ "out" \in Streams \ {"req"} /\ "sock_error" \in Messages
      /\ "data_error" \in Messages
  BY DEF Streams, Messages, SockMessages
<1>5. Quiet(p, s, "none") BY <1>4, <1>S, QuietCalls, QuietReflexive
<1> HIDE DEF s
<1>6. Served(s, "none") BY <1>5, QuietServed
<1>7. Quiet(s, t, "none") BY <1>6, <1>S, QuietCalls, QuietReflexive
<1> HIDE DEF t
<1>8. Served(t, "none") BY <1>7, QuietServed
<1>9. Quiet(t, u, "none") BY <1>8, <1>S, QuietCalls, QuietReflexive
<1> HIDE DEF u
<1>10. Quiet(p, u, "none") BY <1>4, <1>5, <1>7, <1>9, QuietTransitive
<1>11. Inv(u, "none") /\ u.place # "none" /\ (In(u.events, "client") => In(p.events, "client"))
  BY <1>2, <1>3, <1>10, RoundKeeps DEF Quiet
<1>12. Typed(u) BY <1>11 DEF Inv
<1>13. /\ DOMAIN v = Fields /\ v.events = u.events /\ v.place = u.place /\ v.pair = u.pair
       /\ v.timers = u.timers /\ v.expired = u.expired /\ SameStreams(u, v) /\ SameHandler(u, v)
       /\ SameState(u, v) /\ v.room = u.room
  BY <1>12 DEF Typed, Fields, SameStreams, SameHandler, SameState
<1> HIDE DEF v
<1>14. v.expired \in SUBSET u.timers /\ v.room \in Nat BY <1>12, <1>13 DEF Typed
<1>15. Inv(v, "none") BY <1>11, <1>13, <1>14, OutsideChange
<1>16. ~ In(p.events, "client")
  <2>1. Len(p.events) = 0 BY <1>2
  <2> QED BY <2>1 DEF In
<1>17. Turn(v) BY <1>11, <1>13, <1>15, <1>16 DEF Turn
<1> QED BY <1>0, <1>1, <1>2, <1>17

LEMMA LoopTurnKeeps == ASSUME ProxyInv, LoopTurn PROVE ProxyInv'
<1>1. Turn(p') BY TurnBegins, TimersProcessed
<1> QED BY <1>1, TurnBegins DEF Turn, ProxyInv

(* What is known when the head of the list is taken.                       *)
LEMMA TakesHead ==
  ASSUME ProxyInv, NEW m, Delivers(m)
  PROVE  /\ Typed(Popped) /\ BodyInv(Popped) /\ PlaceInv(Popped) /\ SameRequest(p, Popped)
         /\ SameState(p, Popped) /\ SameTimers(p, Popped) /\ m \in Events /\ In(p.events, m)
         /\ p.place = "none" => NoneInv(Popped) /\ m \notin Messages
         /\ p.place # "none" =>
              /\ StateInv(Popped) /\ FlowInv(Popped, m) /\ (m # "error" => WatchInv(Popped))
              /\ p.place = "used" /\ p.state = "IDLE" /\ "keep_alive" \notin p.timers =>
                   p.error \/ m # "client"
         /\ cur = "none"
BY Pops DEF ProxyInv, Delivers, Idle, Popped

LEMMA PoppedKeeps ==
  ASSUME ProxyInv, NEW m, Delivers(m), m # "error"
  PROVE  /\ Inv(Popped, m) /\ (m \in Messages => Inv(Popped, "none") /\ p.place # "none")
         /\ m \in Messages /\ p.place = "used" => InUse(Popped) /\ WatchInv(Popped)
<1> HIDE DEF Popped
<1>1. Popped.place = p.place BY TakesHead DEF SameRequest
<1>2. Inv(Popped, m) BY <1>1, TakesHead DEF Inv, ConnInv
<1>3. ASSUME m \in Messages PROVE FlowInv(Popped, m) => FlowInv(Popped, "none")
  <2>1. Streams \ {m} = Streams \ {"none"} BY <1>3 DEF Streams, Messages, HcpMessages, SockMessages
  <2> QED BY <2>1 DEF FlowInv
<1>4. m \in Messages => Inv(Popped, "none") /\ p.place # "none"
  BY <1>1, <1>2, <1>3, TakesHead DEF Inv, ConnInv
<1>5. m \in Messages /\ p.place = "used" => InUse(Popped) /\ WatchInv(Popped)
  BY <1>1, <1>4 DEF Inv, ConnInv, InUse
<1> QED BY <1>2, <1>4, <1>5

LEMMA StreamBeginKeeps == ASSUME ProxyInv, NEW x \in Streams, StreamBegin(x) PROVE ProxyInv'
<1>1. Delivers(x) /\ p' = Popped /\ cur' = x BY DEF StreamBegin
<1>2. x # "error" BY DEF Streams
<1>3. Inv(Popped, x) BY <1>1, <1>2, PoppedKeeps
<1> QED BY <1>1, <1>3 DEF ProxyInv

LEMMA StreamRoundKeeps == ASSUME ProxyInv, NEW x \in Streams, StreamRound(x) PROVE ProxyInv'
<1>1. Inv(p, x) /\ cur = x /\ Flowing(p, x) /\ cur' = cur BY DEF ProxyInv, StreamRound
<1>2. PICK size \in 1 .. RbufSize : p' = do_stream(x, size) BY DEF StreamRound
<1>3. size \in Nat BY <1>2, ProxyAssumption
<1>4. p.place # "none" BY <1>1 DEF Inv, NoneInv, Flowing
<1>5. Served(p, x) BY <1>1, <1>4, HereServed
<1>6. Round(p, p', x)
  <2>1. CASE x = "in"
    <3>1. p' = data_in_do_read(p) BY <1>2, <2>1 DEF do_stream
    <3> QED BY <1>5, <3>1, InputRound
  <2>2. CASE x = "out"
    <3>1. p' = data_out_do_write(p, size) BY <1>2, <2>2 DEF do_stream
    <3> QED BY <1>1, <1>3, <1>5, <2>2, <3>1, OutputRound
  <2>3. CASE x = "req"
    <3>1. p' = rb_req_do_write(p, size) BY <1>2, <2>3 DEF do_stream
    <3> QED BY <1>3, <1>5, <3>1, RequestRingGives
  <2>4. CASE x = "resp"
    <3>1. p' = rb_resp_do_read(p) BY <1>2, <2>4 DEF do_stream
    <3> QED BY <1>5, <3>1, ResponseRingTakes
  <2> QED BY <2>1, <2>2, <2>3, <2>4 DEF Streams
<1>7. Inv(p', x) BY <1>1, <1>4, <1>6, RoundKeeps
<1> QED BY <1>1, <1>7 DEF ProxyInv

LEMMA StreamEndKeeps == ASSUME ProxyInv, NEW x \in Streams, StreamEnd(x) PROVE ProxyInv'
<1>1. /\ Inv(p, x) /\ cur' = "none" /\ p' = IF Flowing(p, x) THEN nxe_link(p, x) ELSE p
  BY DEF ProxyInv, StreamEnd
<1>T. Typed(p) /\ BodyInv(p) /\ PlaceInv(p) BY <1>1 DEF Inv
<1>2. CASE ~ Flowing(p, x)
  <2>1. p' = p BY <1>1, <1>2
  <2>2. FlowInv(p, x) => FlowInv(p, "none") BY <1>2 DEF FlowInv
  <2>3. Inv(p, "none") BY <1>1, <2>2 DEF Inv, ConnInv
  <2> QED BY <1>1, <2>1, <2>3 DEF ProxyInv
<1>3. CASE Flowing(p, x)
  <2> DEFINE t == nxe_link(p, x)
  <2>0. p' = t BY <1>1, <1>3
  <2>1. p.place # "none" BY <1>1, <1>3 DEF Inv, NoneInv, Flowing
  <2>2. /\ DOMAIN t = Fields /\ t.events = Append(p.events, x)
        /\ SameRequest(p, t) /\ SameBody(p, t) /\ SameTimers(p, t) /\ SameStreams(p, t)
    BY <1>T DEF nxe_link, Typed, Fields, SameRequest, SameBody, SameState, SameTimers, SameStreams
  <2> HIDE DEF t
  <2>3. /\ t.events \in Seq(Events) /\ Later(p.events, t.events)
        /\ \A f : In(t.events, f) <=> In(p.events, f) \/ f = x
    <3>1. x \in Events BY DEF Events
    <3> QED BY <1>T, <2>2, <3>1, Appended DEF Typed
  <2>4. Sure(p.events) => Sure(t.events) BY <1>T, <2>3, LaterHolds DEF Typed
  <2>5. Typed(t) BY <1>T, <2>2, <2>3 DEF Typed, SameRequest, SameTimers, SameStreams, SameBody, SameState
  <2>6. BodyInv(t) BY <1>T, <2>2 DEF BodyInv, SameBody, SameState
  <2>7. x # "client" BY DEF Streams
  <2>8. PlaceInv(t) BY <1>T, <2>2, <2>3, <2>7 DEF PlaceInv, SameRequest, SameBody, SameState, SameTimers
  <2>9. WatchInv(p) /\ StateInv(p) /\ FlowInv(p, x) BY <1>1, <2>1 DEF Inv, ConnInv
  <2>10. StateInv(t) BY <2>2, <2>9 DEF StateInv, SameRequest, SameBody, SameState, SameStreams
  <2>11. \A y : Flowing(t, y) <=> Flowing(p, y) BY <2>2 DEF Flowing, SameStreams, SameRequest
  <2>12. FlowInv(t, "none") BY <2>3, <2>9, <2>11 DEF FlowInv
  <2>13. StateTimer(t) = StateTimer(p) BY <2>2 DEF StateTimer, SameBody, SameState
  <2>14. WatchInv(t)
    BY <2>2, <2>3, <2>4, <2>9, <2>13 DEF WatchInv, SameRequest, SameBody, SameState, SameTimers
  <2>15. t.place # "none" BY <2>1, <2>2 DEF SameRequest
  <2>16. Inv(t, "none") BY <2>5, <2>6, <2>8, <2>10, <2>12, <2>14, <2>15 DEF Inv, ConnInv
  <2> QED BY <1>1, <2>0, <2>16 DEF ProxyInv
<1> QED BY <1>2, <1>3

LEMMA SocketErrorKeeps == ASSUME ProxyInv, SocketErrorDelivered PROVE ProxyInv'
<1> DEFINE s == Popped
<1>1. PICK m \in SockMessages, hup \in BOOLEAN : Delivers(m) /\ p' = data_error_on_message(s, hup)
  BY DEF SocketErrorDelivered, SockMessages
<1>2. cur' = cur BY DEF SocketErrorDelivered
<1>3. m # "error" /\ m \in Messages BY DEF SockMessages, Messages
<1>4. Inv(s, "none") /\ s.place # "none" /\ cur = "none"
  BY <1>1, <1>3, PoppedKeeps, TakesHead DEF SameRequest
<1> HIDE DEF s
<1>5. Served(s, "none") BY <1>4, HereServed
<1> DEFINE a == [s EXCEPT !.all = TRUE]
           b == nxe_istream_set_ready(a, "resp")
           q == [s EXCEPT !.queued = TRUE]
           e == nxe_publish(s, "error")
<1>6. data_error_on_message(s, hup) \in {b, q, e} BY DEF data_error_on_message
<1>T. Typed(s) BY <1>4 DEF Inv
<1>7. /\ DOMAIN a = Fields /\ a.events = s.events /\ SameRequest(s, a) /\ SameBody(s, a)
      /\ SameTimers(s, a) /\ SameStreams(s, a)
  BY <1>T DEF Typed, Fields, SameRequest, SameBody, SameState, SameTimers, SameStreams
<1>8. /\ DOMAIN q = Fields /\ q.events = s.events /\ SameRequest(s, q) /\ SameBody(s, q)
      /\ SameTimers(s, q) /\ SameStreams(s, q)
  BY <1>T DEF Typed, Fields, SameRequest, SameBody, SameState, SameTimers, SameStreams
<1> HIDE DEF a, q
<1>9. Quiet(s, a, "none") /\ Quiet(s, q, "none") BY <1>5, <1>7, <1>8, QuietData
<1>10. Quiet(a, b, "none")
  <2>1. "resp" \in Streams BY DEF Streams
  <2> QED BY <1>9, <2>1, QuietServed, QuietCalls
<1>11. Quiet(s, b, "none") BY <1>5, <1>9, <1>10, QuietTransitive
<1>12. Quiet(s, e, "none")
  <2>1. "error" \in Messages BY DEF Messages, HcpMessages
  <2> QED BY <1>5, <2>1, QuietCalls
<1> HIDE DEF b, e
<1>13. Quiet(s, p', "none") BY <1>1, <1>6, <1>9, <1>11, <1>12
<1>14. Inv(p', "none") BY <1>4, <1>13, RoundKeeps DEF Quiet
<1> QED BY <1>2, <1>4, <1>14 DEF ProxyInv

LEMMA HandlerMessageKeeps == ASSUME ProxyInv, HandlerMessage PROVE ProxyInv'
<1>0. p.place # "pool" /\ cur' = cur BY DEF HandlerMessage
<1>S. /\ "connected" \in Messages /\ "response" \in Messages /\ "complete" \in Messages
      /\ "error" \in Messages
  BY DEF Messages, HcpMessages
<1>P. p.place \in {"none", "used", "pool"} BY DEF ProxyInv, Inv, PlaceInv
<1>1. CASE Delivers("connected") /\ p' = Popped
  <2>1. Inv(Popped, "none") /\ cur = "none" BY <1>1, <1>S, PoppedKeeps, TakesHead
  <2> QED BY <1>0, <1>1, <2>1 DEF ProxyInv
<1>2. CASE Delivers("response") /\ p' = OnResponse(Popped)
  <2>1. p.place = "used" BY <1>0, <1>P, <1>2, <1>S, PoppedKeeps
  <2>2. InUse(Popped) /\ WatchInv(Popped) /\ cur = "none" BY <1>2, <1>S, <2>1, PoppedKeeps, TakesHead
  <2>3. Inv(p', "none") BY <1>2, <2>2, ResponseComes
  <2> QED BY <1>0, <2>2, <2>3 DEF ProxyInv
<1>3. CASE Delivers("complete") /\ p' = [Popped EXCEPT !.complete = TRUE]
  <2> DEFINE s == Popped
             t == [s EXCEPT !.complete = TRUE]
  <2>1. p.place = "used" BY <1>0, <1>P, <1>3, <1>S, PoppedKeeps
  <2>2. InUse(s) /\ WatchInv(s) /\ cur = "none" BY <1>3, <1>S, <2>1, PoppedKeeps, TakesHead
  <2> HIDE DEF s
  <2>3. Typed(s) /\ PlaceInv(s) /\ s.place = "used" BY <2>2 DEF InUse
  <2>4. /\ DOMAIN t = Fields /\ SameLoop(s, t) /\ SameBody(s, t) /\ t.conn = s.conn /\ t.via = s.via
        /\ t.started = s.started /\ t.error = s.error /\ t.complete = TRUE
        /\ t.retry = s.retry
    BY <2>3 DEF Typed, Fields, SameLoop, SameBody, SameState, SameTimers, SameStreams
  <2>5. p' = t BY <1>3 DEF s
  <2> HIDE DEF t
  <2>6. PlaceInv(t) BY <2>3, <2>4 DEF PlaceInv, SameLoop, SameTimers, SameBody, SameState
  <2>7. WatchInv(t)
    BY <2>2, <2>3, <2>4 DEF WatchInv, SameLoop, SameTimers, SameBody, SameState
  <2>8. Inv(t, "none") BY <2>2, <2>4, <2>6, <2>7, HandlerChange
  <2> QED BY <1>0, <2>2, <2>5, <2>8 DEF ProxyInv
<1>4. CASE Delivers("error") /\ \E made \in BOOLEAN : p' = OnError(Popped, made)
  <2>1. PICK made \in BOOLEAN : p' = OnError(Popped, made) BY <1>4
  <2> DEFINE s == Popped
  <2>2. /\ Typed(s) /\ BodyInv(s) /\ PlaceInv(s) /\ SameRequest(p, s)
        /\ p.place # "none" /\ StateInv(s) /\ FlowInv(s, "error") /\ cur = "none"
    BY <1>4, <1>S, TakesHead
  <2> HIDE DEF s
  <2>3. "none" \notin Streams /\ "error" \notin Streams BY DEF Streams
  <2>4. FlowInv(s, "none") BY <2>2, <2>3 DEF FlowInv
  <2>5. s.place = "used" BY <1>0, <1>P, <2>2 DEF SameRequest
  <2>6. InUse(s) BY <2>2, <2>4, <2>5 DEF InUse
  <2>7. Inv(p', "none") BY <2>1, <2>6, ErrorComes DEF s
  <2> QED BY <1>0, <2>2, <2>7 DEF ProxyInv
<1> QED BY <1>1, <1>2, <1>3, <1>4 DEF HandlerMessage

LEMMA IdleMessageKeeps == ASSUME ProxyInv, IdleMessage PROVE ProxyInv'
<1>1. PICK m \in HcpMessages :
        Delivers(m) /\ p' = IF m = "error" THEN nxd_http_proxy_finalize(Popped) ELSE Popped
  BY DEF IdleMessage
<1>2. p.place = "pool" /\ cur' = cur BY DEF IdleMessage
<1>3. m \in Messages BY DEF Messages
<1>4. cur = "none" BY <1>1, TakesHead
<1>5. CASE m # "error"
  <2>1. Inv(Popped, "none") BY <1>1, <1>3, <1>5, PoppedKeeps
  <2> QED BY <1>1, <1>2, <1>4, <1>5, <2>1 DEF ProxyInv
<1>6. CASE m = "error"
  <2> DEFINE s == Popped
             t == nxd_http_proxy_finalize(s)
  <2>1. Typed(s) /\ PlaceInv(s) /\ SameRequest(p, s) BY <1>1, TakesHead
  <2> HIDE DEF s
  <2>2. s.place = "pool" /\ "backend" \notin s.timers BY <1>2, <2>1 DEF PlaceInv, SameRequest
  <2>3. Released(s, t) BY <2>1, <2>2, Finalizes
  <2> HIDE DEF t
  <2>4. s.conn = "idle" /\ s.via = "none" /\ s.bodies = 0 /\ ~ In(s.events, "client")
        /\ s.retry \in Nat
    BY <2>1, <2>2 DEF PlaceInv
  <2>5. /\ Typed(t) /\ t.place = "none" /\ NoneInv(t) /\ t.conn = "idle" /\ t.via = "none"
        /\ t.bodies = 0 /\ ~ In(t.events, "client") /\ t.retry \in Nat
    BY <2>3, <2>4 DEF Released, SameHandler
  <2>6. BodyInv(t) /\ PlaceInv(t) BY <2>5 DEF BodyInv, PlaceInv, NoneInv
  <2>7. Inv(t, "none") BY <2>5, <2>6 DEF Inv
  <2> QED BY <1>1, <1>2, <1>4, <1>6, <2>7 DEF ProxyInv, s, t
<1> QED BY <1>5, <1>6

LEMMA ClientMessageKeeps == ASSUME ProxyInv, ClientMessage PROVE ProxyInv'
<1> DEFINE s == Popped
<1>1. Delivers("client") /\ p' = request_finalize(s) /\ cur' = cur BY DEF ClientMessage
<1>2. /\ Typed(s) /\ PlaceInv(s) /\ SameRequest(p, s) /\ SameState(p, s) /\ SameTimers(p, s)
      /\ In(p.events, "client") /\ cur = "none"
      /\ p.place = "none" => NoneInv(s)
      /\ p.place # "none" => StateInv(s)
      /\ p.place = "used" /\ p.state = "IDLE" /\ "keep_alive" \notin p.timers => p.error
  <2>1. p.place = "used" => p.place # "none" OBVIOUS
  <2> QED BY <1>1, <2>1, TakesHead
<1> HIDE DEF s
<1>3. p.place \in {"none", "used"}
  <2>1. PlaceInv(p) BY DEF ProxyInv, Inv
  <2> QED BY <1>2, <2>1 DEF PlaceInv
<1>4. Inv(request_finalize(s), "none")
  <2>1. s.place = p.place /\ s.state = p.state /\ s.timers = p.timers /\ s.error = p.error
    BY <1>2 DEF SameRequest, SameState, SameTimers
  <2> QED BY <1>2, <1>3, <2>1, RequestEnds
<1> QED BY <1>1, <1>2, <1>4 DEF ProxyInv

-----------------------------------------------------------------------------
(* The steps of the client's connection, of the backend and of time.       *)

LEMMA FreeForRequest ==
  ASSUME Inv(p, "none"), p.conn = "idle", NEW s, DOMAIN s = Fields, SameLoop(p, s), SameBody(p, s),
         s.complete = p.complete, s.error = p.error
  PROVE  Free(s)
<1>T. Typed(p) /\ PlaceInv(p) BY DEF Inv
<1>1. p.place \in {"none", "pool"} /\ "backend" \notin p.timers BY <1>T DEF PlaceInv
<1>2. Typed(s) BY <1>T DEF Typed, SameLoop, SameBody, SameState, SameTimers, SameStreams
<1>3. ASSUME p.place = "none" PROVE NoneInv(s)
  <2>1. NoneInv(p) BY <1>3 DEF Inv
  <2> QED BY <2>1 DEF NoneInv, SameLoop, SameBody, SameState, SameTimers
<1>4. ASSUME p.place = "pool" PROVE ConnInv(s, "none")
  <2>1. WatchInv(p) /\ StateInv(p) /\ FlowInv(p, "none") BY <1>4 DEF Inv, ConnInv
  <2>2. \A y : Flowing(s, y) <=> Flowing(p, y) BY DEF Flowing, SameLoop, SameStreams
  <2>3. FlowInv(s, "none") BY <2>1, <2>2 DEF FlowInv, SameLoop
  <2>4. StateInv(s) BY <2>1 DEF StateInv, SameLoop, SameBody, SameState, SameStreams
  <2>5. StateTimer(s) = StateTimer(p) BY DEF StateTimer, SameBody, SameState
  <2>6. WatchInv(s) BY <2>1, <2>5 DEF WatchInv, SameLoop, SameBody, SameState, SameTimers
  <2> QED BY <2>3, <2>4, <2>6 DEF ConnInv
<1> QED BY <1>1, <1>2, <1>3, <1>4 DEF Free, SameLoop, SameTimers

LEMMA RequestBeginsKeeps ==
  ASSUME ProxyInv, NEW m, NEW n, NEW made \in BOOLEAN, RequestBegins(m, n, made) PROVE ProxyInv'
<1> DEFINE c == IF n > 0 THEN "receiving" ELSE "handling"
           s == [p EXCEPT !.no = @ + 1, !.method = m, !.size = n, !.left = n, !.conn = c]
           t == start_proxy_request(s, made)
           u == [t EXCEPT !.conn = "sending", !.via = "error"]
<1>1. /\ cur = "none" /\ cur' = cur /\ p.conn = "idle" /\ p' = IF t.place = "used" THEN t ELSE u
      /\ Inv(p, "none")
  BY DEF RequestBegins, Idle, ProxyInv
<1>C. c \in {"receiving", "handling"} OBVIOUS
<1> HIDE DEF c
<1>T. Typed(p) /\ BodyInv(p) /\ PlaceInv(p) BY <1>1 DEF Inv
<1>2. /\ p.place \in {"none", "pool"} /\ p.via = "none" /\ p.bodies = 0 /\ ~ In(p.events, "client")
      /\ "backend" \notin p.timers
  BY <1>1, <1>T DEF PlaceInv
<1>3. /\ DOMAIN s = Fields /\ SameLoop(p, s) /\ SameBody(p, s) /\ s.conn = c /\ s.via = p.via
      /\ s.complete = p.complete /\ s.error = p.error /\ s.retry = p.retry
  BY <1>T DEF Typed, Fields, SameLoop, SameBody, SameState, SameTimers, SameStreams
<1> HIDE DEF s
<1>5. Free(s) BY <1>1, <1>3, FreeForRequest
<1>6. /\ Begun(s, t)
      /\ \/ t.place = "used" /\ ConnInv(t, "none")
         \/ t.place = "none" /\ NoneInv(t) /\ ~ made
  BY <1>5, RequestStarts
<1> HIDE DEF t
<1>7. Typed(t) /\ t.conn = c /\ t.via = "none" /\ t.bodies = 0 /\ ~ t.started /\ t.retry \in Nat
  BY <1>T, <1>2, <1>3, <1>6 DEF Begun, PlaceInv, SameBody, SameState
<1>8. BodyInv(t) BY <1>7 DEF BodyInv
<1>9. CASE t.place = "used" /\ ConnInv(t, "none")
  <2>1. PlaceInv(t) BY <1>C, <1>7, <1>9 DEF PlaceInv
  <2>2. Inv(t, "none") BY <1>7, <1>8, <1>9, <2>1 DEF Inv
  <2> QED BY <1>1, <1>9, <2>2 DEF ProxyInv
<1>10. CASE t.place = "none" /\ NoneInv(t)
  <2>1. /\ DOMAIN u = Fields /\ SameLoop(t, u) /\ SameBody(t, u) /\ u.conn = "sending" /\ u.via = "error"
        /\ u.retry = t.retry
    BY <1>7 DEF Typed, Fields, SameLoop, SameBody, SameState, SameTimers, SameStreams
  <2>2. p' = u BY <1>1, <1>10
  <2> HIDE DEF u
  <2>3. Typed(u) BY <1>7, <2>1 DEF Typed, SameLoop, SameBody, SameState, SameTimers, SameStreams
  <2>4. NoneInv(u) /\ u.place = "none"
    BY <1>10, <2>1 DEF NoneInv, SameLoop, SameBody, SameState, SameTimers
  <2>5. PlaceInv(u) BY <1>7, <2>1, <2>4 DEF PlaceInv, NoneInv
  <2>6. BodyInv(u) BY <1>8, <2>1 DEF BodyInv, SameBody, SameState
  <2>7. Inv(u, "none") BY <2>3, <2>4, <2>5, <2>6 DEF Inv
  <2> QED BY <1>1, <2>2, <2>7 DEF ProxyInv
<1> QED BY <1>6, <1>9, <1>10

LEMMA ClientSendsBodyKeeps ==
  ASSUME ProxyInv, NEW k \in 1 .. RbufSize, ClientSendsBody(k) PROVE ProxyInv'
<1> DEFINE c == IF k = p.left THEN "handling" ELSE p.conn
           s == [p EXCEPT !.rb_req = @ + k, !.left = @ - k, !.eof_req = k = p.left, !.conn = c]
           t == nxe_istream_set_ready(s, "req")
<1>1. /\ cur = "none" /\ cur' = cur /\ p.conn = "receiving" /\ p.place = "used" /\ p' = t
      /\ Inv(p, "none")
  BY DEF ClientSendsBody, Idle, ProxyInv
<1>C. c \in {"receiving", "handling"} BY <1>1
<1> HIDE DEF c
<1>2. InUse(p) /\ WatchInv(p) BY <1>1 DEF Inv, ConnInv, InUse
<1>T. Typed(p) /\ BodyInv(p) /\ PlaceInv(p) BY <1>2 DEF InUse
<1>3. /\ DOMAIN s = Fields /\ SameLoop(p, s) /\ s.conn = c /\ s.via = p.via /\ s.started = p.started
      /\ s.complete = p.complete /\ s.error = p.error /\ s.rb_req = p.rb_req + k
      /\ s.retry = p.retry
      /\ s.state = p.state /\ s.wait100 = p.wait100 /\ s.sending = p.sending /\ s.fwd = p.fwd
      /\ s.bodies = p.bodies /\ s.room = p.room
  BY <1>T DEF Typed, Fields, SameLoop, SameTimers, SameStreams
<1> HIDE DEF s
<1>4. Typed(s)
  <2>1. s.rb_req \in Nat BY <1>T, <1>3, ProxyAssumption DEF Typed
  <2> QED BY <1>T, <1>3, <2>1 DEF Typed, SameLoop, SameTimers, SameStreams
<1>5. BodyInv(s) BY <1>T, <1>3 DEF BodyInv
<1>6. PlaceInv(s) BY <1>C, <1>T, <1>1, <1>3 DEF PlaceInv, SameLoop, SameTimers
<1>7. StateInv(s) BY <1>2, <1>3 DEF InUse, StateInv, SameLoop, SameStreams
<1>8. StateTimer(s) = StateTimer(p) BY <1>3 DEF StateTimer
<1>9. WatchInv(s) BY <1>2, <1>3, <1>8 DEF WatchInv, SameLoop, SameTimers
<1>10. \A y : Flowing(s, y) <=> Flowing(p, y) BY <1>3 DEF Flowing, SameLoop, SameStreams
<1>11. FlowInv(s, "none") BY <1>2, <1>3, <1>10 DEF InUse, FlowInv, SameLoop
<1>12. s.place # "none" BY <1>1, <1>3 DEF SameLoop
<1>13. Inv(s, "none") BY <1>4, <1>5, <1>6, <1>7, <1>9, <1>11, <1>12 DEF Inv, ConnInv
<1>14. Quiet(s, t, "none")
  <2>1. "req" \in Streams BY DEF Streams
  <2> QED BY <1>12, <1>13, <2>1, HereServed, QuietCalls
<1>15. Inv(t, "none") BY <1>12, <1>13, <1>14, RoundKeeps DEF Quiet
<1> QED BY <1>1, <1>15 DEF ProxyInv

LEMMA ClientTakesKeeps ==
  ASSUME ProxyInv, NEW k, ClientTakes(k) PROVE ProxyInv'
<1> DEFINE s == [p EXCEPT !.rb_resp = @ - k]
           t == nxe_ostream_set_ready(s, "resp")
<1>1. /\ cur = "none" /\ cur' = cur /\ p.via = "backend" /\ p' = IF p.eof_resp THEN s ELSE t
      /\ Inv(p, "none")
  BY DEF ClientTakes, Idle, ProxyInv
<1>2. p.place # "none" BY <1>1 DEF Inv, PlaceInv
<1>T. Typed(p) BY <1>1 DEF Inv
<1>3. /\ DOMAIN s = Fields /\ s.events = p.events /\ s.place = p.place /\ s.pair = p.pair
      /\ s.timers = p.timers /\ s.expired = p.expired /\ SameStreams(p, s) /\ SameHandler(p, s)
      /\ SameState(p, s) /\ s.room = p.room
  BY <1>T DEF Typed, Fields, SameStreams, SameHandler, SameState
<1> HIDE DEF s
<1>4. s.expired \in SUBSET p.timers /\ s.room \in Nat BY <1>T, <1>3 DEF Typed
<1>5. Inv(s, "none") BY <1>1, <1>2, <1>3, <1>4, OutsideChange
<1>6. Quiet(s, t, "none")
  <2>1. "resp" \in Streams \ {"req"} BY DEF Streams
  <2> QED BY <1>2, <1>3, <1>5, <2>1, HereServed, QuietCalls
<1>7. Inv(t, "none") BY <1>2, <1>3, <1>5, <1>6, RoundKeeps DEF Quiet
<1> HIDE DEF t
<1> QED BY <1>1, <1>5, <1>7 DEF ProxyInv

LEMMA ClientEndsKeeps == ASSUME ProxyInv, ClientDone \/ ClientGone PROVE ProxyInv'
<1>1. cur = "none" /\ cur' = cur /\ p.conn # "idle" /\ p' = nxe_publish(p, "client")
  BY DEF ClientDone, ClientGone, Idle
<1>2. Inv(p', "none") BY <1>1, ClientPublishes DEF ProxyInv
<1> QED BY <1>1, <1>2 DEF ProxyInv

(* Data of the peer changes, and what epoll has to report.                 *)
Peer(s, pend, wire, closed, edge, room, owed, said, toend, expired) ==
  [s EXCEPT !.pend = pend, !.wire = wire, !.rdclosed = closed, !.edge = edge,
            !.room = room, !.owed = owed, !.said100 = said, !.toend = toend,
            !.expired = expired]

LEMMA PeerChange ==
  ASSUME NEW x, NEW s, Inv(s, x), s.place # "none", NEW pend, NEW wire, NEW closed, NEW edge,
         NEW room \in Nat, NEW owed, NEW said, NEW toend, NEW expired \in SUBSET s.timers
  PROVE  Inv(Peer(s, pend, wire, closed, edge, room, owed, said, toend, expired), x)
<1> DEFINE t == Peer(s, pend, wire, closed, edge, room, owed, said, toend, expired)
<1>T. Typed(s) BY DEF Inv
<1>1. /\ DOMAIN t = Fields /\ t.events = s.events /\ t.place = s.place /\ t.pair = s.pair
      /\ t.timers = s.timers /\ t.expired = expired /\ SameStreams(s, t) /\ SameHandler(s, t)
      /\ SameState(s, t) /\ t.room = room
  BY <1>T DEF Peer, Typed, Fields, SameStreams, SameHandler, SameState
<1> HIDE DEF t
<1>2. Inv(t, x) BY <1>1, OutsideChange
<1> QED BY <1>2 DEF t

LEMMA OutsideSteps ==
  ASSUME ProxyInv, Backend \/ (\E t \in Timers : Expire(t)) PROVE ProxyInv'
<1>T. Typed(p) BY DEF ProxyInv, Inv
<1>R. p.room \in Nat /\ TxRoom \in Nat /\ p.expired \in SUBSET p.timers BY <1>T, ProxyAssumption DEF Typed
<1>I. Inv(p, cur) BY DEF ProxyInv
<1>N. p.place = "none" => p.pend = <<>> /\ p.timers = {} BY DEF ProxyInv, Inv, NoneInv
<1>1. CASE BackendAccepts
  <2>1. p' = Peer(p, p.pend, p.wire, p.rdclosed, p.edge \cup {"out"}, p.room, p.owed, p.said100,
                  p.toend, p.expired)
    BY <1>1, <1>T DEF Peer, BackendAccepts, Typed
  <2>2. p.place # "none" /\ cur' = cur BY <1>1 DEF BackendAccepts
  <2> QED BY <1>I, <1>R, <2>1, <2>2, PeerChange DEF ProxyInv
<1>2. CASE BackendReads
  <2>1. p' = Peer(p, p.pend, p.wire, p.rdclosed, p.edge \cup {"out"}, TxRoom, p.owed, p.said100,
                  p.toend, p.expired)
    BY <1>2, <1>T DEF Peer, BackendReads, Typed
  <2>2. p.place # "none" /\ cur' = cur BY <1>2 DEF BackendReads, Connected
  <2> QED BY <1>I, <1>R, <2>1, <2>2, PeerChange DEF ProxyInv
<1>3. CASE Backend100
  <2>1. p' = Peer(p, Append(p.pend, Piece("100")), p.wire, p.rdclosed, p.edge, p.room, p.owed, TRUE,
                  p.toend, p.expired)
    BY <1>3, <1>T DEF Peer, Backend100, Typed
  <2>2. p.place # "none" /\ cur' = cur BY <1>3 DEF Backend100, Connected
  <2> QED BY <1>I, <1>R, <2>1, <2>2, PeerChange DEF ProxyInv
<1>4. CASE \E f \in Framings, h \in HeadParts, n \in RespSizes : BackendAnswers(f, h, n)
  <2>1. PICK f \in Framings, h \in HeadParts, n \in RespSizes : BackendAnswers(f, h, n) BY <1>4
  <2> DEFINE body == [i \in 1 .. n |-> Piece("body")] \o
                       (CASE f = "chunked" -> <<Piece("end")>>
                          [] f = "broken" -> <<Piece("junk")>>
                          [] OTHER -> <<>>)
             head == [i \in 1 .. h |-> Piece("part")] \o
                       (IF f = "bad" THEN <<Piece("bad")>> ELSE <<HeadEnd(f, n, p.asked)>>)
             more == p.pend \o head \o (IF p.method = "HEAD" THEN <<>> ELSE body)
             close == (f = "close")
  <2>2. /\ p' = [p EXCEPT !.owed = FALSE, !.toend = close, !.said100 = FALSE, !.pend = more]
        /\ p.place # "none" /\ cur' = cur
    BY <2>1 DEF BackendAnswers, Connected
  <2> HIDE DEF more, close
  <2>3. p' = Peer(p, more, p.wire, p.rdclosed, p.edge, p.room, FALSE, FALSE, close, p.expired)
    BY <1>T, <2>2 DEF Peer, Typed
  <2>4. p.place # "none" /\ cur' = cur BY <2>2
  <2>5. Inv(p', cur) BY <1>I, <1>R, <2>3, <2>4, PeerChange
  <2> QED BY <2>4, <2>5 DEF ProxyInv
<1>5. CASE BackendSends
  <2> DEFINE w == Append(p.wire, Head(p.pend))
             r == Tail(p.pend)
  <2>1. p' = [p EXCEPT !.wire = w, !.pend = r, !.edge = @ \cup {"in"}] /\ cur' = cur /\ p.pend # <<>>
    BY <1>5 DEF BackendSends
  <2> HIDE DEF w, r
  <2>2. p' = Peer(p, r, w, p.rdclosed, p.edge \cup {"in"}, p.room, p.owed, p.said100,
                  p.toend, p.expired)
    BY <1>T, <2>1 DEF Peer, Typed
  <2>3. p.place # "none" BY <1>N, <2>1
  <2> QED BY <1>I, <1>R, <2>1, <2>2, <2>3, PeerChange DEF ProxyInv
<1>6. CASE BackendCloses
  <2>1. p' = Peer(p, <<>>, p.wire, TRUE, p.edge \cup {"in", "hup"}, p.room, p.owed, p.said100,
                  p.toend, p.expired)
    BY <1>6, <1>T DEF Peer, BackendCloses, Typed
  <2>2. p.place # "none" /\ cur' = cur BY <1>6 DEF BackendCloses, Connected
  <2> QED BY <1>I, <1>R, <2>1, <2>2, PeerChange DEF ProxyInv
<1>7. CASE BackendFails
  <2>1. p' = Peer(p, <<>>, <<>>, TRUE, p.edge \cup {"err"}, p.room, p.owed, p.said100,
                  p.toend, p.expired)
    BY <1>7, <1>T DEF Peer, BackendFails, Typed
  <2>2. p.place # "none" /\ cur' = cur BY <1>7 DEF BackendFails
  <2> QED BY <1>I, <1>R, <2>1, <2>2, PeerChange DEF ProxyInv
<1>8. CASE \E t \in Timers : Expire(t)
  <2>1. PICK t \in Timers : Expire(t) BY <1>8
  <2>2. t \in p.timers /\ p' = [p EXCEPT !.expired = @ \cup {t}] /\ cur' = cur BY <2>1 DEF Expire
  <2>3. p' = Peer(p, p.pend, p.wire, p.rdclosed, p.edge, p.room, p.owed, p.said100,
                  p.toend, p.expired \cup {t})
    BY <1>T, <2>2 DEF Peer, Typed
  <2>4. p.expired \cup {t} \in SUBSET p.timers BY <1>R, <2>2
  <2>5. p.place # "none" BY <1>N, <2>2
  <2>6. Inv(p', cur) BY <1>I, <1>R, <2>3, <2>4, <2>5, PeerChange
  <2> QED BY <2>2, <2>6 DEF ProxyInv
<1> QED BY <1>1, <1>2, <1>3, <1>4, <1>5, <1>6, <1>7, <1>8 DEF Backend

-----------------------------------------------------------------------------
(* The theorems.                                                           *)

LEMMA Begins == ASSUME Init PROVE ProxyInv
<1>1. p = Over(Fresh, Outer) /\ cur = "none" BY DEF Init
<1> DEFINE o == Outer
<1>2. /\ DOMAIN o = Fields \ FreshFields /\ o.events = <<>> /\ o.timers = {} /\ o.expired = {}
      /\ o.pair = {} /\ o.is = [x \in Streams |-> x = "out"] /\ o.os = [x \in Streams |-> FALSE]
      /\ o.place = "none" /\ o.conn = "idle" /\ o.via = "none" /\ o.bodies = 0 /\ o.rb_req = 0
      /\ o.retry = 0
  BY DEF Outer, Fields, FreshFields
<1> HIDE DEF o
<1>3. DOMAIN p = DOMAIN Fresh \cup DOMAIN o BY <1>1 DEF Over, o
<1>4. \A f \in DOMAIN Fresh \cup DOMAIN o : p[f] = IF f \in DOMAIN Fresh THEN Fresh[f] ELSE o[f]
  BY <1>1 DEF Over, o
<1>5. FreshFields \subseteq Fields BY DEF Fields, FreshFields
<1>6. DOMAIN p = Fields /\ \A f \in Fields : p[f] = IF f \in FreshFields THEN Fresh[f] ELSE o[f]
  BY <1>2, <1>3, <1>4, <1>5, FreshIs
<1>7. /\ p.state = Fresh.state /\ p.edge = Fresh.edge /\ p.room = Fresh.room /\ p.pend = Fresh.pend
  BY <1>6 DEF Fields, FreshFields
<1>8. /\ p.events = o.events /\ p.timers = o.timers /\ p.expired = o.expired /\ p.pair = o.pair
      /\ p.is = o.is /\ p.os = o.os /\ p.place = o.place /\ p.conn = o.conn /\ p.via = o.via
      /\ p.bodies = o.bodies /\ p.rb_req = o.rb_req /\ p.retry = o.retry
  BY <1>6 DEF Fields, FreshFields
<1>9. \A f : ~ In(p.events, f)
  <2>1. Len(p.events) = 0 BY <1>2, <1>8
  <2> QED BY <2>1 DEF In
<1>10. Typed(p)
  <2>1. TxRoom \in Nat BY ProxyAssumption
  <2>2. p.events \in Seq(Events) BY <1>2, <1>8
  <2>3. p.is \in [Streams -> BOOLEAN] /\ p.os \in [Streams -> BOOLEAN] BY <1>2, <1>8
  <2>4. p.room \in Nat /\ p.rb_req \in Nat BY <1>2, <1>7, <1>8, <2>1, FreshIs
  <2>5. p.pair = {} /\ p.timers = {} /\ p.expired = {} BY <1>2, <1>8
  <2> QED BY <1>6, <2>2, <2>3, <2>4, <2>5 DEF Typed
<1>11. p.place = "none" /\ p.conn = "idle" /\ p.via = "none" /\ p.bodies = 0 /\ p.timers = {}
       /\ p.retry = 0
  BY <1>2, <1>8
<1>12. BodyInv(p) /\ PlaceInv(p) BY <1>9, <1>11 DEF BodyInv, PlaceInv
<1>13. NoneInv(p) BY <1>2, <1>7, <1>8, <1>9, FreshIs DEF NoneInv
<1> QED BY <1>1, <1>10, <1>11, <1>12, <1>13 DEF ProxyInv, Inv

LEMMA StepsKeep == ASSUME ProxyInv, [Next]_vars PROVE ProxyInv'
<1>1. CASE NetStep
  <2>1. ASSUME NEW x \in Streams, StreamBegin(x) \/ StreamRound(x) \/ StreamEnd(x) PROVE ProxyInv'
    BY <2>1, StreamBeginKeeps, StreamRoundKeeps, StreamEndKeeps
  <2> QED BY <1>1, <2>1, LoopTurnKeeps, SocketErrorKeeps, HandlerMessageKeeps, IdleMessageKeeps,
             ClientMessageKeeps DEF NetStep
<1>2. CASE Client
  <2>1. ASSUME NEW m, NEW n, NEW made \in BOOLEAN, RequestBegins(m, n, made) PROVE ProxyInv'
    BY <2>1, RequestBeginsKeeps
  <2>2. ASSUME NEW k \in 1 .. RbufSize, ClientSendsBody(k) \/ ClientTakes(k) PROVE ProxyInv'
    BY <2>2, ClientSendsBodyKeeps, ClientTakesKeeps
  <2> QED BY <1>2, <2>1, <2>2, ClientEndsKeeps DEF Client
<1>3. CASE Backend \/ (\E t \in Timers : Expire(t)) BY <1>3, OutsideSteps
<1>4. CASE AllServed \/ UNCHANGED vars
  <2>1. p' = p /\ cur' = cur BY <1>4 DEF AllServed, vars
  <2> QED BY <2>1 DEF ProxyInv
<1> QED BY <1>1, <1>2, <1>3, <1>4 DEF Next

(* In every state of the proxy the request, the backend connection and the *)
(* loop fit together: a connection that is not there has left no stream,   *)
(* timer, message or report of epoll behind; one that is there is watched, *)
(* every stream of it that could move is scheduled, and the body of the    *)
(* request has gone to this connection, if to any.                         *)
THEOREM ProxyInvariant == Spec => []ProxyInv
<1>1. Init => ProxyInv BY Begins
<1>2. ProxyInv /\ [Next]_vars => ProxyInv' BY StepsKeep
<1> QED BY <1>1, <1>2, PTL DEF Spec

(* The body of a request is never sent to two backends, however often the  *)
(* request is repeated after errors and timeouts (retry_proxy_request is   *)
(* reached only while req_body_sending_started is not set).                *)
THEOREM BodyGoesOnce == Spec => []BodySentOnce
<1>1. ProxyInv => BodySentOnce BY DEF ProxyInv, Inv, BodyInv, BodySentOnce
<1> QED BY <1>1, ProxyInvariant, PTL

LEMMA NothingAtRest == ASSUME AtRest PROVE cur = "none" /\ \A f : ~ In(p.events, f)
<1>1. cur = "none" /\ p.events = <<>> BY DEF AtRest, Idle
<1>2. Len(p.events) = 0 BY <1>1
<1> QED BY <1>1, <1>2 DEF In

LEMMA NoReadinessLost == ASSUME ProxyInv PROVE NoLostReadiness
<1> SUFFICES ASSUME AtRest, NEW x \in p.pair, p.is[x], p.os[x] PROVE FALSE BY DEF NoLostReadiness
<1>1. Inv(p, "none") /\ \A f : ~ In(p.events, f) BY NothingAtRest DEF ProxyInv
<1>2. x \in Streams /\ Flowing(p, x) BY <1>1 DEF Inv, Typed, Flowing
<1>3. p.place # "none" BY <1>1 DEF Inv, NoneInv
<1>4. FlowInv(p, "none") BY <1>1, <1>3 DEF Inv, ConnInv
<1>5. "out" \in Streams \ {"none"} /\ x \in Streams \ {"none"} BY <1>2 DEF Streams
<1> QED BY <1>1, <1>2, <1>4, <1>5 DEF FlowInv

(* No wake-up between the two ends of a stream is ever lost, whatever the  *)
(* sizes of the buffers and the pieces the socket takes and gives.         *)
THEOREM NoWakeUpLost == Spec => []NoLostReadiness
<1>1. ProxyInv => NoLostReadiness BY NoReadinessLost
<1> QED BY <1>1, ProxyInvariant, PTL

(* A proxied request never waits for nothing: a timer of the state of the *)
(* client protocol runs, and what could move is scheduled.  The only one   *)
(* that nothing watches is a request whose retry got no connection (whose  *)
(* failure retry_proxy_request does not look at): nothing comes back to    *)
(* the handler for it.                                                     *)
THEOREM RequestNeverStalls == Spec => []NeverStalls
<1>1. ASSUME ProxyInv, Waiting, p.place = "none" PROVE Abandoned
  <2>1. NoneInv(p) /\ PlaceInv(p) BY <1>1 DEF ProxyInv, Inv
  <2>2. p.retry > 0 BY <1>1, <2>1 DEF PlaceInv, Waiting
  <2>3. \A m \in HcpMessages \cup SockMessages : ~ InLoop(p, m) BY <2>1 DEF NoneInv, In, InLoop
  <2> QED BY <1>1, <2>1, <2>2, <2>3 DEF NoneInv, Abandoned, Waiting
<1>2. ASSUME ProxyInv PROVE Watched
  <2> SUFFICES ASSUME AtRest, Waiting \/ p.via = "backend" \/ p.place = "pool", ~ Abandoned
               PROVE  p.place # "none" /\ (StateTimer(p) \in p.timers \/ p.complete)
    BY <1>1, <1>2 DEF Watched
  <2>1. Inv(p, "none") /\ \A f : ~ In(p.events, f) BY <1>2, NothingAtRest DEF ProxyInv
  <2>2. p.place # "none" BY <1>1, <1>2, <2>1 DEF Inv, PlaceInv
  <2>3. WatchInv(p) BY <2>1, <2>2 DEF Inv, ConnInv
  <2> QED BY <2>1, <2>2, <2>3 DEF WatchInv
<1>3. ProxyInv => NeverStalls BY <1>2, NoReadinessLost DEF NeverStalls
<1> QED BY <1>3, ProxyInvariant, PTL
=============================================================================
