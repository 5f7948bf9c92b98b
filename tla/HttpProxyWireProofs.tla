------------------------- MODULE HttpProxyWireProofs -------------------------
(***************************************************************************)
(* Proofs about HttpProxy, for any framings, sizes of heads and bodies,    *)
(* cuts into reads, and sizes of the buffers: reuse of a backend           *)
(* connection mixes no two exchanges, the end of a response is reported    *)
(* only behind all of it, and no buffer is overrun.                        *)
(*                                                                         *)
(* The invariant of HttpProxyProofs is about who waits for whom.  The one  *)
(* added here follows what the backend has said and nobody has read yet.   *)
(* It is kept by every call of the protocol (lemmas Sound...), and so by   *)
(* every step (lemmas Wire...).                                            *)
(***************************************************************************)
EXTENDS HttpProxyProofs

-----------------------------------------------------------------------------
(* What is on its way from the backend belongs to the exchange that goes   *)
(* on: the second inductive invariant.                                     *)

HcpStates == {"CONNECTING", "IDLE", "SENDING_HEADERS", "SENDING_BODY",
              "WAITING_FOR_RESPONSE", "RECEIVING_HEADERS", "RECEIVING_BODY"}
Sending == {"CONNECTING", "SENDING_HEADERS", "SENDING_BODY"}
Asked == {"SENDING_BODY", "WAITING_FOR_RESPONSE", "RECEIVING_HEADERS"}
Answering == {"RECEIVING_BODY", "IDLE"}
Pieces == [piece : {"part", "head", "bad", "100", "body", "end", "junk"},
           framing : {"length", "final", "chunked", "broken", "close", "bad"},
           size : Nat, no : Nat]
EndsHead == {"head", "100", "bad"}

(* What q holds behind its first k pieces may come behind n pieces of the  *)
(* body of response r.                                                     *)
Behind(r, n, q, k) ==
  /\ \A j \in k + 1 .. Len(q) :
       \/ q[j].piece = "body"
       \/ /\ Chunked(r) /\ j = Len(q) /\ q[j].piece \in {"junk", "end"}
          /\ q[j].piece = "end" => n + (j - k - 1) = r.size
  /\ Chunked(r) \/ n + (Len(q) - k) <= r.size

(* In q the head of a response is one to request no, its body behind it,   *)
(* and "100 Continue" can only be the first piece.                         *)
Announced(q, no) ==
  \A i \in 1 .. Len(q) :
    /\ q[i].piece = "100" => i = 1
    /\ q[i].piece = "head" => q[i].no = no /\ Behind(q[i], 0, q, i)

Has100(q) == \E i \in 1 .. Len(q) : q[i].piece = "100"
Only100(q) == \A i \in 1 .. Len(q) : q[i].piece = "100"

OnWire(s) == s.wire \o s.pend
Unread(s) == s.head \o OnWire(s)
FirstChunk(s) == IF s.chunk = NoChunk THEN 0 ELSE s.chunk

(* Nothing is overrun.                                                     *)
BoundInv(s) ==
  s.room \in 0 .. TxRoom /\ s.rb_req \in 0 .. RbufSize /\ s.retry \in 0 .. RetryCount

CountInv(s) ==
  /\ s.state \in HcpStates /\ s.rb_resp \in 0 .. RbufSize
  /\ s.no \in Nat /\ s.asked \in Nat /\ s.size \in Nat
  /\ s.head \in Seq(Pieces) /\ s.wire \in Seq(Pieces) /\ s.pend \in Seq(Pieces)
  /\ s.resp \in Pieces /\ s.received \in Nat /\ s.chunk \in Nat \cup {NoChunk}

(* The head read so far is not finished, and the first piece of the body   *)
(* fits into the unused ring.                                              *)
BufferInv(s) ==
  /\ \A i \in 1 .. Len(s.head) : s.head[i].piece \notin EndsHead
  /\ Len(s.head) <= HeadRoom
  /\ s.state # "RECEIVING_HEADERS" => s.head = <<>>
  /\ s.chunk # NoChunk =>
       s.state = "RECEIVING_BODY" /\ s.received = 0 /\ s.rb_resp = 0 /\ s.chunk <= RbufSize
  /\ s.place = "used" /\ s.state \notin Answering => s.rb_resp = 0

(* What the backend has still to do.                                       *)
OweInv(s) ==
  s.owed =>
    /\ s.state \in Asked /\ s.asked = s.no /\ Only100(Unread(s))
    /\ ~ s.said100 /\ s.size > 0 => s.wait100 /\ Unread(s) = <<>>

(* What is unread belongs to the exchange that goes on.                    *)
UnreadInv(s) ==
  /\ s.state \in {"CONNECTING", "SENDING_HEADERS"} => Unread(s) = <<>>
  /\ s.state \in Asked => Announced(Unread(s), s.no) /\ (Has100(Unread(s)) => s.wait100)
  /\ s.state = "RECEIVING_BODY" => Behind(s.resp, s.received + FirstChunk(s), OnWire(s), 0)
  /\ s.state = "RECEIVING_BODY" /\ s.all /\ ~ UntilClose(s.resp) =>
       OnWire(s) = <<>> /\ s.received + FirstChunk(s) = s.resp.size
  /\ s.state = "IDLE" /\ ~ UntilClose(s.resp) => OnWire(s) = <<>> /\ s.received = s.resp.size

(* The response and the place of the connection.                           *)
ResponseInv(s) ==
  /\ s.state = "CONNECTING" => s.resp = NoResponse /\ s.received = 0
  /\ s.state \in Answering /\ s.place = "used" => s.resp.no = s.no
  /\ UntilClose(s.resp) => s.state \in Answering
  /\ s.all => s.state \in Answering
  /\ s.done <=> s.state = "IDLE"
  /\ s.via = "backend" => s.place = "used" /\ s.state \in Answering
  /\ s.eof_resp => s.place = "none" \/ (s.place = "used" /\ s.state = "IDLE")
  /\ s.place = "pool" => KeepAlive(s.resp) /\ ~ s.nxb /\ s.pair \subseteq {"in", "out"}

DataInv(s) ==
  BoundInv(s) /\ CountInv(s) /\ BufferInv(s) /\ OweInv(s) /\ UnreadInv(s) /\ ResponseInv(s)

(* The timers of the protocol are those of its state, and nothing is sent  *)
(* any more once the request is out.                                       *)
Clocks(state) ==
  CASE state \in Sending -> {"backend", "write"}
    [] state = "WAITING_FOR_RESPONSE" -> {"backend", "read", "100continue"}
    [] state \in {"RECEIVING_HEADERS", "RECEIVING_BODY"} -> {"backend", "read"}
    [] OTHER -> {"backend", "keep_alive"}

ClockInv(s) ==
  s.timers \subseteq Clocks(s.state) /\ (s.state \notin Sending => ~ s.is["out"])

(* The head of a response is reported before the next exchange.            *)
NewsInv(s) == In(s.events, "response") => s.place = "used" /\ s.state \in Answering

WInv(s) == DataInv(s) /\ ClockInv(s) /\ NewsInv(s)

WireInv == WInv(p) /\ rounds \in 0 .. LoopGuard

-----------------------------------------------------------------------------
(* Calls that leave the data alone.                                        *)

Core(s, t) ==
  /\ t.state = s.state /\ t.wait100 = s.wait100 /\ t.all = s.all /\ t.done = s.done
  /\ t.nxb = s.nxb /\ t.head = s.head /\ t.resp = s.resp /\ t.received = s.received
  /\ t.chunk = s.chunk /\ t.wire = s.wire /\ t.pend = s.pend
  /\ t.asked = s.asked /\ t.owed = s.owed /\ t.said100 = s.said100
  /\ t.place = s.place /\ t.no = s.no /\ t.size = s.size
  /\ t.rb_resp = s.rb_resp /\ t.eof_resp = s.eof_resp /\ t.via = s.via /\ t.pair = s.pair
Same(s, t) == Core(s, t) /\ t.room = s.room /\ t.rb_req = s.rb_req /\ t.retry = s.retry

Shape(s) ==
  /\ DOMAIN s = Fields /\ s.events \in Seq(Events)
  /\ s.is \in [Streams -> BOOLEAN] /\ s.os \in [Streams -> BOOLEAN]

(* Nothing happens to the data, and no response is reported.               *)
Does(s, t) == Shape(t) /\ Same(s, t) /\ (In(t.events, "response") => In(s.events, "response"))
Mild(s, t) == Does(s, t) /\ t.timers = s.timers /\ t.is["out"] = s.is["out"]

LEMMA TypedShape == ASSUME NEW s, Typed(s) PROVE Shape(s)
BY DEF Typed, Shape

LEMMA MildTransitive == ASSUME NEW s, NEW t, NEW u, Mild(s, t), Mild(t, u) PROVE Mild(s, u)
BY DEF Mild, Does, Same, Core

LEMMA MildReflexive == ASSUME NEW s, Shape(s) PROVE Mild(s, s)
BY DEF Mild, Does, Same, Core

LEMMA MildShape == ASSUME NEW s, NEW t, Mild(s, t) PROVE Shape(t)
BY DEF Mild, Does

LEMMA MildPublish ==
  ASSUME NEW s, Shape(s), NEW m \in Events \ {"response"} PROVE Mild(s, nxe_publish(s, m))
<1> DEFINE t == nxe_publish(s, m)
<1>1. /\ DOMAIN t = Fields /\ Same(s, t) /\ t.events = Append(s.events, m)
      /\ t.timers = s.timers /\ t.is = s.is /\ t.os = s.os
  BY DEF nxe_publish, Shape, Fields, Same, Core
<1> HIDE DEF t
<1>2. t.events \in Seq(Events) /\ (In(t.events, "response") => In(s.events, "response"))
  BY <1>1, Appended DEF Shape
<1>3. Mild(s, t) BY <1>1, <1>2 DEF Mild, Does, Shape
<1> QED BY <1>3 DEF t

LEMMA MildWake == ASSUME NEW s, Shape(s), NEW y \in Streams PROVE Mild(s, Wake(s, y))
<1>1. CASE Wake(s, y) = s BY <1>1, MildReflexive
<1>2. CASE Wake(s, y) = nxe_link(s, y)
  <2> DEFINE t == nxe_link(s, y)
  <2>1. /\ DOMAIN t = Fields /\ Same(s, t) /\ t.events = Append(s.events, y)
        /\ t.timers = s.timers /\ t.is = s.is /\ t.os = s.os
    BY DEF nxe_link, Shape, Fields, Same, Core
  <2> HIDE DEF t
  <2>2. y \in Events /\ y # "response" BY DEF Events, Streams
  <2>3. t.events \in Seq(Events) /\ (In(t.events, "response") => In(s.events, "response"))
    BY <2>1, <2>2, Appended DEF Shape
  <2>4. Mild(s, t) BY <2>1, <2>3 DEF Mild, Does, Shape
  <2> QED BY <1>2, <2>4 DEF t
<1> QED BY <1>1, <1>2 DEF Wake

(* Setting a flag of a stream.                                             *)
LEMMA FlagIn ==
  ASSUME NEW s, Shape(s), NEW y \in Streams, NEW b \in BOOLEAN
  PROVE  LET t == [s EXCEPT !.is[y] = b]
         IN  /\ Does(s, t) /\ t.timers = s.timers
             /\ t.is["out"] = IF y = "out" THEN b ELSE s.is["out"]
<1> DEFINE t == [s EXCEPT !.is[y] = b]
<1>1. /\ DOMAIN t = Fields /\ Same(s, t) /\ t.events = s.events
      /\ t.timers = s.timers /\ t.is = [s.is EXCEPT ![y] = b] /\ t.os = s.os
  BY DEF Shape, Fields, Same, Core
<1> HIDE DEF t
<1>2. t.is \in [Streams -> BOOLEAN] /\ t.is["out"] = IF y = "out" THEN b ELSE s.is["out"]
  BY <1>1 DEF Shape, Streams
<1>3. Does(s, t) BY <1>1, <1>2 DEF Does, Shape
<1> QED BY <1>1, <1>2, <1>3 DEF t

LEMMA FlagOut ==
  ASSUME NEW s, Shape(s), NEW y \in Streams, NEW b \in BOOLEAN
  PROVE  Mild(s, [s EXCEPT !.os[y] = b])
<1> DEFINE t == [s EXCEPT !.os[y] = b]
<1>1. /\ DOMAIN t = Fields /\ Same(s, t) /\ t.events = s.events
      /\ t.timers = s.timers /\ t.os = [s.os EXCEPT ![y] = b] /\ t.is = s.is
  BY DEF Shape, Fields, Same, Core
<1> HIDE DEF t
<1>2. t.os \in [Streams -> BOOLEAN] BY <1>1 DEF Shape, Streams
<1>3. Mild(s, t) BY <1>1, <1>2 DEF Mild, Does, Shape
<1> QED BY <1>3 DEF t

LEMMA MildSetInput ==
  ASSUME NEW s, Shape(s), NEW y \in Streams \ {"out"} PROVE Mild(s, nxe_istream_set_ready(s, y))
<1> DEFINE t == [s EXCEPT !.is[y] = TRUE]
<1>1. Mild(s, t) BY FlagIn DEF Mild
<1> HIDE DEF t
<1>2. Mild(t, Wake(t, y)) BY <1>1, MildShape, MildWake
<1>3. nxe_istream_set_ready(s, y) = IF s.is[y] THEN s ELSE Wake(t, y) BY DEF nxe_istream_set_ready, t
<1> QED BY <1>1, <1>2, <1>3, MildTransitive, MildReflexive

LEMMA MildUnsetInput ==
  ASSUME NEW s, Shape(s), NEW y \in Streams \ {"out"} PROVE Mild(s, nxe_istream_unset_ready(s, y))
BY FlagIn DEF Mild, nxe_istream_unset_ready

LEMMA MildSetOutput ==
  ASSUME NEW s, Shape(s), NEW y \in Streams PROVE Mild(s, nxe_ostream_set_ready(s, y))
<1> DEFINE t == [s EXCEPT !.os[y] = TRUE]
<1>1. Mild(s, t) BY FlagOut
<1> HIDE DEF t
<1>2. Mild(t, Wake(t, y)) BY <1>1, MildShape, MildWake
<1>3. nxe_ostream_set_ready(s, y) = Wake(t, y) BY DEF nxe_ostream_set_ready, t
<1> QED BY <1>1, <1>2, <1>3, MildTransitive

LEMMA MildUnsetOutput ==
  ASSUME NEW s, Shape(s), NEW y \in Streams PROVE Mild(s, nxe_ostream_unset_ready(s, y))
BY FlagOut DEF nxe_ostream_unset_ready

(* The output stream, and the timers.                                      *)
LEMMA OutputOn ==
  ASSUME NEW s, Shape(s)
  PROVE  LET t == nxe_istream_set_ready(s, "out")
         IN  Does(s, t) /\ t.timers = s.timers
<1> DEFINE t == [s EXCEPT !.is["out"] = TRUE]
<1>0. "out" \in Streams BY DEF Streams
<1>1. Does(s, t) /\ t.timers = s.timers BY <1>0, FlagIn
<1> HIDE DEF t
<1>2. Mild(t, Wake(t, "out")) BY <1>0, <1>1, MildWake DEF Does
<1>3. nxe_istream_set_ready(s, "out") = IF s.is["out"] THEN s ELSE Wake(t, "out")
  BY DEF nxe_istream_set_ready, t
<1>4. Does(s, Wake(t, "out")) /\ Wake(t, "out").timers = s.timers BY <1>1, <1>2 DEF Mild, Does, Same, Core
<1> QED BY <1>3, <1>4, MildReflexive DEF Mild

LEMMA OutputOff ==
  ASSUME NEW s, Shape(s)
  PROVE  LET t == nxe_istream_unset_ready(s, "out")
         IN  Does(s, t) /\ t.timers = s.timers /\ ~ t.is["out"]
<1>0. "out" \in Streams BY DEF Streams
<1> QED BY <1>0, FlagIn DEF nxe_istream_unset_ready

LEMMA TimerOn ==
  ASSUME NEW s, Shape(s), NEW m
  PROVE  LET t == nxe_set_timer(s, m)
         IN  Does(s, t) /\ t.timers = s.timers \cup {m} /\ t.is["out"] = s.is["out"]
<1> DEFINE t == nxe_set_timer(s, m)
<1>1. /\ DOMAIN t = Fields /\ Same(s, t) /\ t.events = s.events
      /\ t.timers = s.timers \cup {m} /\ t.os = s.os /\ t.is = s.is
  BY DEF nxe_set_timer, Shape, Fields, Same, Core
<1> HIDE DEF t
<1>2. Does(s, t) BY <1>1 DEF Does, Shape
<1> QED BY <1>1, <1>2 DEF t

LEMMA TimerOff ==
  ASSUME NEW s, Shape(s), NEW m
  PROVE  LET t == nxe_unset_timer(s, m)
         IN  Does(s, t) /\ t.timers = s.timers \ {m} /\ t.is["out"] = s.is["out"]
<1> DEFINE t == nxe_unset_timer(s, m)
<1>1. /\ DOMAIN t = Fields /\ Same(s, t) /\ t.events = s.events
      /\ t.timers = s.timers \ {m} /\ t.os = s.os /\ t.is = s.is
  BY DEF nxe_unset_timer, Shape, Fields, Same, Core
<1> HIDE DEF t
<1>2. Does(s, t) BY <1>1 DEF Does, Shape
<1> QED BY <1>1, <1>2 DEF t

(* The invariant depends on nothing else.                                  *)
LEMMA CoreData == ASSUME NEW s, NEW t, Core(s, t), BoundInv(t), DataInv(s) PROVE DataInv(t)
<1>1. OnWire(t) = OnWire(s) /\ Unread(t) = Unread(s) /\ FirstChunk(t) = FirstChunk(s)
  BY DEF OnWire, Unread, FirstChunk, Core
<1>2. CountInv(t) BY DEF DataInv, CountInv, Core
<1>3. BufferInv(t) BY DEF DataInv, BufferInv, Core
<1>4. OweInv(t) BY <1>1 DEF DataInv, OweInv, Core
<1>5. UnreadInv(t) BY <1>1 DEF DataInv, UnreadInv, Core
<1>6. ResponseInv(t) BY DEF DataInv, ResponseInv, Core
<1> QED BY <1>2, <1>3, <1>4, <1>5, <1>6 DEF DataInv

LEMMA SameData == ASSUME NEW s, NEW t, Same(s, t), DataInv(s) PROVE DataInv(t)
<1>1. BoundInv(t) BY DEF Same, BoundInv, DataInv
<1> QED BY <1>1, CoreData DEF Same

LEMMA DoesKeeps == ASSUME NEW s, NEW t, Does(s, t), WInv(s), ClockInv(t) PROVE WInv(t)
<1>1. DataInv(t) BY SameData DEF Does, WInv
<1>2. NewsInv(t) BY DEF Does, Same, Core, WInv, NewsInv
<1> QED BY <1>1, <1>2 DEF WInv

LEMMA MildKeeps == ASSUME NEW s, NEW t, Mild(s, t), WInv(s) PROVE WInv(t)
<1>1. ClockInv(t) BY DEF Mild, Does, Same, Core, WInv, ClockInv
<1> QED BY <1>1, DoesKeeps DEF Mild

LEMMA MildData ==
  ASSUME NEW s, NEW t, Shape(s), DOMAIN t = Fields, Same(s, t), t.events = s.events,
         t.is = s.is, t.os = s.os, t.timers = s.timers
  PROVE  Mild(s, t)
BY DEF Mild, Does, Shape

(* The invariant through calls.                                            *)
Sound(s) == Shape(s) /\ WInv(s)

LEMMA SoundMild ==
  ASSUME NEW s, NEW t, Sound(s), Mild(s, t) PROVE Sound(t) /\ Same(s, t)
BY MildKeeps DEF Sound, Mild, Does

LEMMA SoundPublish ==
  ASSUME NEW s, Sound(s), NEW m \in Events \ {"response"}
  PROVE  Sound(nxe_publish(s, m)) /\ Same(s, nxe_publish(s, m))
BY MildPublish, SoundMild DEF Sound

LEMMA SoundStreams ==
  ASSUME NEW s, Sound(s), NEW y \in Streams
  PROVE  /\ y # "out" => Sound(nxe_istream_set_ready(s, y)) /\ Same(s, nxe_istream_set_ready(s, y))
         /\ Sound(nxe_istream_unset_ready(s, y)) /\ Same(s, nxe_istream_unset_ready(s, y))
         /\ Sound(nxe_ostream_set_ready(s, y)) /\ Same(s, nxe_ostream_set_ready(s, y))
         /\ Sound(nxe_ostream_unset_ready(s, y)) /\ Same(s, nxe_ostream_unset_ready(s, y))
<1>1. Shape(s) BY DEF Sound
<1>2. Mild(s, nxe_ostream_set_ready(s, y)) /\ Mild(s, nxe_ostream_unset_ready(s, y))
  BY <1>1, MildSetOutput, MildUnsetOutput
<1>3. y # "out" => Mild(s, nxe_istream_set_ready(s, y)) /\ Mild(s, nxe_istream_unset_ready(s, y))
  BY <1>1, MildSetInput, MildUnsetInput
<1> DEFINE t == nxe_istream_unset_ready(s, "out")
<1>4. Does(s, t) /\ t.timers = s.timers /\ ~ t.is["out"] BY <1>1, OutputOff
<1> HIDE DEF t
<1>5. ClockInv(t) BY <1>4 DEF Sound, WInv, ClockInv, Does, Same, Core
<1>6. Sound(t) /\ Same(s, t) BY <1>4, <1>5, DoesKeeps DEF Sound, Does
<1> QED BY <1>2, <1>3, <1>6, SoundMild DEF t

LEMMA SoundOutputOn ==
  ASSUME NEW s, Sound(s), s.state \in Sending
  PROVE  LET t == nxe_istream_set_ready(s, "out") IN Sound(t) /\ Same(s, t)
<1> DEFINE t == nxe_istream_set_ready(s, "out")
<1>1. Does(s, t) /\ t.timers = s.timers BY OutputOn DEF Sound
<1> HIDE DEF t
<1>2. ClockInv(t) BY <1>1 DEF Sound, WInv, ClockInv, Does, Same, Core
<1>3. Sound(t) /\ Same(s, t) BY <1>1, <1>2, DoesKeeps DEF Sound, Does
<1> QED BY <1>3 DEF t

LEMMA SoundTimers ==
  ASSUME NEW s, Sound(s), NEW m
  PROVE  /\ Sound(nxe_unset_timer(s, m)) /\ Same(s, nxe_unset_timer(s, m))
         /\ m \in Clocks(s.state) => Sound(nxe_set_timer(s, m)) /\ Same(s, nxe_set_timer(s, m))
<1> DEFINE t == nxe_unset_timer(s, m)
           u == nxe_set_timer(s, m)
<1>1. Does(s, t) /\ t.timers = s.timers \ {m} /\ t.is["out"] = s.is["out"] BY TimerOff DEF Sound
<1>2. Does(s, u) /\ u.timers = s.timers \cup {m} /\ u.is["out"] = s.is["out"] BY TimerOn DEF Sound
<1> HIDE DEF t, u
<1>3. ClockInv(t) BY <1>1 DEF Sound, WInv, ClockInv, Does, Same, Core
<1>4. m \in Clocks(s.state) => ClockInv(u) BY <1>2 DEF Sound, WInv, ClockInv, Does, Same, Core
<1>5. Sound(t) /\ Same(s, t) BY <1>1, <1>3, DoesKeeps DEF Sound, Does
<1>6. m \in Clocks(s.state) => Sound(u) /\ Same(s, u) BY <1>2, <1>4, DoesKeeps DEF Sound, Does
<1> QED BY <1>5, <1>6 DEF t, u
-----------------------------------------------------------------------------
(* Pieces of a body.                                                       *)

LEMMA BehindMoves ==
  ASSUME NEW r, NEW n \in Nat, NEW q \in Seq(Pieces), NEW k \in Nat,
         NEW v \in Seq(Pieces), NEW m \in Nat, NEW d \in Int, NEW c \in Nat,
         Len(v) + d = Len(q), m + d = k + c, \A j \in m + 1 .. Len(v) : v[j] = q[j + d],
         r.size \in Nat, Behind(r, n, q, k)
  PROVE  Behind(r, n + c, v, m)
<1>1. Len(q) \in Nat /\ Len(v) \in Nat BY LenProperties
<1>2. ASSUME NEW j \in m + 1 .. Len(v)
      PROVE  \/ v[j].piece = "body"
             \/ /\ Chunked(r) /\ j = Len(v) /\ v[j].piece \in {"junk", "end"}
                /\ v[j].piece = "end" => n + c + (j - m - 1) = r.size
  <2>1. j + d \in k + 1 .. Len(q) BY <1>1
  <2>2. v[j] = q[j + d] OBVIOUS
  <2>3. j + d = Len(q) => j = Len(v) BY <1>1
  <2>4. n + (j + d - k - 1) = n + c + (j - m - 1) BY <1>1
  <2> QED BY <2>1, <2>2, <2>3, <2>4 DEF Behind
<1>3. n + c + (Len(v) - m) = n + (Len(q) - k) BY <1>1
<1> QED BY <1>2, <1>3 DEF Behind

LEMMA BehindCut ==
  ASSUME NEW r, NEW n \in Nat, NEW q \in Seq(Pieces), NEW k \in Nat, NEW v \in Seq(Pieces),
         Len(v) <= Len(q), \A j \in 1 .. Len(v) : v[j] = q[j],
         r.size \in Nat, Behind(r, n, q, k)
  PROVE  Behind(r, n, v, k)
<1>1. Len(q) \in Nat /\ Len(v) \in Nat BY LenProperties
<1>2. ASSUME NEW j \in k + 1 .. Len(v)
      PROVE  \/ v[j].piece = "body"
             \/ /\ Chunked(r) /\ j = Len(v) /\ v[j].piece \in {"junk", "end"}
                /\ v[j].piece = "end" => n + (j - k - 1) = r.size
  <2>1. j \in k + 1 .. Len(q) /\ j \in 1 .. Len(v) BY <1>1
  <2>2. j = Len(q) => j = Len(v) BY <1>1
  <2>3. v[j] = q[j] BY <2>1
  <2>4. \/ q[j].piece = "body"
        \/ /\ Chunked(r) /\ j = Len(q) /\ q[j].piece \in {"junk", "end"}
           /\ q[j].piece = "end" => n + (j - k - 1) = r.size
    BY <2>1 DEF Behind
  <2> QED BY <2>2, <2>3, <2>4
<1>3. n + (Len(v) - k) <= n + (Len(q) - k) BY <1>1
<1>4. n + (Len(q) - k) <= r.size => n + (Len(v) - k) <= r.size BY <1>1, <1>3
<1> QED BY <1>2, <1>4 DEF Behind

LEMMA BehindNothing ==
  ASSUME NEW r, NEW n \in Nat, n <= r.size \/ Chunked(r), r.size \in Nat PROVE Behind(r, n, <<>>, 0)
BY DEF Behind

(* The content of what is read.                                            *)
LEMMA ContentRead ==
  ASSUME NEW r, NEW n \in Nat, NEW q \in Seq(Pieces), NEW k \in Nat, NEW got \in Seq(Pieces),
         k + Len(got) <= Len(q), \A j \in 1 .. Len(got) : got[j] = q[k + j],
         r.size \in Nat, Behind(r, n, q, k)
  PROVE  /\ Content(got) \in 0 .. Len(got)
         /\ k + Len(got) < Len(q) \/ ~ Chunked(r) => Content(got) = Len(got)
         /\ Chunked(r) /\ Holds(got, "end") => k + Len(got) = Len(q) /\ n + Content(got) = r.size
<1> DEFINE c == Len(got)
           B == {i \in 1 .. c : got[i].piece = "body"}
<1>1. Len(q) \in Nat /\ c \in Nat BY LenProperties
<1> HIDE DEF c
<1>2. ASSUME NEW a \in Nat PROVE IsFiniteSet(1 .. a) /\ Cardinality(1 .. a) = a
  <2>1. a \in Int /\ 1 \in Int OBVIOUS
  <2>2. IsFiniteSet(1 .. a) /\ Cardinality(1 .. a) = IF 1 > a THEN 0 ELSE a - 1 + 1
    BY <2>1, FS_Interval, Zenon
  <2> QED BY <2>2
<1>3. Cardinality(B) \in 0 .. c
  <2>1. B \subseteq 1 .. c OBVIOUS
  <2>2. Cardinality(B) <= Cardinality(1 .. c) /\ IsFiniteSet(B) BY <1>1, <1>2, <2>1, FS_Subset
  <2>3. Cardinality(B) \in Nat BY <2>2, FS_CardinalityType
  <2> QED BY <1>1, <1>2, <2>2, <2>3
<1>4. ASSUME NEW i \in 1 .. c
      PROVE  \/ got[i].piece = "body"
             \/ /\ Chunked(r) /\ k + i = Len(q) /\ got[i].piece \in {"junk", "end"}
                /\ got[i].piece = "end" => n + (k + i - k - 1) = r.size
  <2>1. k + i \in k + 1 .. Len(q) /\ got[i] = q[k + i] BY <1>1 DEF c
  <2> QED BY <2>1 DEF Behind
<1>5. ASSUME k + c < Len(q) \/ ~ Chunked(r) PROVE Cardinality(B) = c
  <2>1. \A i \in 1 .. c : got[i].piece = "body" BY <1>1, <1>4, <1>5
  <2>2. B = 1 .. c BY <2>1
  <2> QED BY <1>1, <1>2, <2>2
<1>6. ASSUME Chunked(r), Holds(got, "end") PROVE k + c = Len(q) /\ n + Cardinality(B) = r.size
  <2>1. PICK i \in 1 .. c : got[i].piece = "end" BY <1>6 DEF Holds, c
  <2>2. i \in Nat /\ k + i = Len(q) /\ n + (k + i - k - 1) = r.size BY <1>1, <1>4, <2>1
  <2>3. i = c /\ k + c = Len(q)
    <3> DEFINE m == Len(q)
    <3>1. k + c <= m BY DEF c
    <3>2. i \in Nat /\ i <= c /\ c \in Nat /\ k \in Nat /\ k + i = m BY <1>1, <2>2
    <3> HIDE DEF m
    <3>3. i = c /\ k + c = m BY ONLY <3>1, <3>2
    <3> QED BY <3>3 DEF m
  <2>4. \A j \in 1 .. c : got[j].piece = "body" <=> j # c BY <1>1, <1>4, <2>1, <2>3
  <2>5. c - 1 \in Nat BY <2>1, <1>1
  <2>6. B = 1 .. c - 1
    <3>1. \A j : j \in 1 .. c /\ j # c <=> j \in 1 .. c - 1 BY <1>1
    <3> QED BY <2>4, <3>1
  <2>7. Cardinality(B) = c - 1 BY <1>2, <2>5, <2>6
  <2> QED BY <1>1, <2>2, <2>3, <2>7
<1>7. Content(got) = Cardinality(B) BY DEF Content, c
<1> HIDE DEF B
<1> QED BY <1>3, <1>5, <1>6, <1>7 DEF c

(* A read from the socket takes the first pieces.                          *)
Taken(s, t, got) ==
  /\ Mild([s EXCEPT !.wire = t.wire], t) /\ t.wire \in Seq(Pieces) /\ got \in Seq(Pieces)
  /\ OnWire(s) \in Seq(Pieces) /\ OnWire(t) \in Seq(Pieces)
  /\ Len(OnWire(t)) + Len(got) = Len(OnWire(s))
  /\ \A j \in 1 .. Len(got) : got[j] = OnWire(s)[j]
  /\ \A j \in 1 .. Len(OnWire(t)) : OnWire(t)[j] = OnWire(s)[j + Len(got)]
  /\ got = <<>> => t.wire = s.wire

LEMMA SocketGives ==
  ASSUME NEW s, Shape(s), CountInv(s), NEW size \in Nat
  PROVE  /\ Taken(s, sock_data_recv_read(s, size), Got(s, size)) /\ Len(Got(s, size)) <= size
<1> DEFINE n == IF s.is["in"] THEN Minimum(Len(s.wire), size) ELSE 0
           short == s.is["in"] /\ n < size
           t == [s EXCEPT !.wire = SubSeq(@, n + 1, Len(@)), !.is["in"] = @ /\ ~ short]
           u == IF short /\ n = 0 /\ s.rdclosed THEN nxe_publish(t, "data_error") ELSE t
           w == s.wire
           v == SubSeq(w, n + 1, Len(w))
           got == Got(s, size)
<1>1. sock_data_recv_read(s, size) = u BY DEF sock_data_recv_read
<1>2. w \in Seq(Pieces) /\ Len(w) \in Nat /\ s.pend \in Seq(Pieces) /\ Len(s.pend) \in Nat
  BY LenProperties DEF CountInv
<1>3. n \in 0 .. Len(w) /\ n <= size BY <1>2 DEF Minimum
<1>4. got = SubSeq(w, 1, n) BY DEF Got
<1> HIDE DEF n, got
<1>5. got \in Seq(Pieces) /\ Len(got) = n /\ \A j \in 1 .. n : got[j] = w[j]
  BY <1>2, <1>3, <1>4, SubSeqProperties
<1>6. v \in Seq(Pieces) /\ Len(v) = Len(w) - n /\ \A j \in 1 .. Len(w) - n : v[j] = w[n + j]
  <2>1. n + 1 \in 1 .. Len(w) + 1 /\ Len(w) \in n + 1 - 1 .. Len(w) BY <1>2, <1>3
  <2> QED BY <1>2, <1>3, <2>1, SubSeqProperties
<1>7. n = 0 => v = w BY <1>2, <1>6
<1> HIDE DEF v, short
<1>8. /\ DOMAIN t = Fields /\ Same([s EXCEPT !.wire = v], t) /\ t.wire = v /\ t.events = s.events
      /\ t.is = [s.is EXCEPT !["in"] = s.is["in"] /\ ~ short] /\ t.os = s.os /\ t.timers = s.timers
  BY ZenonT(60) DEF Shape, Fields, Same, Core, v
<1> HIDE DEF t
<1>9. t.is \in [Streams -> BOOLEAN] /\ t.is["out"] = s.is["out"] BY <1>8 DEF Shape, Streams, short
<1>10. Shape(t) BY <1>8, <1>9 DEF Shape
<1>11. Mild(t, u)
  <2>1. "data_error" \in Events \ {"response"} BY DEF Events, Messages, SockMessages
  <2> QED BY <1>10, <2>1, MildPublish, MildReflexive
<1> HIDE DEF u
<1>12. u.wire = v /\ u.pend = s.pend BY <1>8, <1>11 DEF Mild, Does, Same, Core, Shape, Fields
<1>13. Mild([s EXCEPT !.wire = v], u)
  BY <1>8, <1>9, <1>11 DEF Mild, Does, Same, Core, Shape, Fields
<1> DEFINE a == Len(w)
           b == Len(s.pend)
<1>L. a \in Nat /\ b \in Nat /\ n \in Nat /\ n <= a BY <1>2, <1>3
<1>14. /\ OnWire(s) \in Seq(Pieces) /\ Len(OnWire(s)) = a + b
       /\ \A j \in 1 .. a + b : OnWire(s)[j] = IF j <= a THEN w[j] ELSE s.pend[j - a]
  BY <1>2, ConcatProperties DEF OnWire
<1>15. /\ OnWire(u) \in Seq(Pieces) /\ Len(OnWire(u)) = a - n + b
       /\ \A j \in 1 .. a - n + b : OnWire(u)[j] = IF j <= a - n THEN v[j] ELSE s.pend[j - (a - n)]
  <2>1. OnWire(u) = v \o s.pend BY <1>12 DEF OnWire
  <2>2. /\ v \o s.pend \in Seq(Pieces) /\ Len(v \o s.pend) = Len(v) + Len(s.pend)
        /\ \A j \in 1 .. Len(v) + Len(s.pend) :
             (v \o s.pend)[j] = IF j <= Len(v) THEN v[j] ELSE s.pend[j - Len(v)]
    BY <1>2, <1>6, ConcatProperties
  <2>3. Len(v) = a - n BY <1>6
  <2> QED BY <2>1, <2>2, <2>3
<1>5a. Len(got) = n /\ \A j \in 1 .. n : got[j] = w[j] BY <1>5
<1>6a. \A j \in 1 .. a - n : v[j] = w[n + j] BY <1>6
<1> HIDE DEF a, b, w
<1>16. ASSUME NEW j \in 1 .. n PROVE got[j] = OnWire(s)[j]
  <2>1. j \in 1 .. a + b /\ j <= a BY <1>L
  <2> QED BY <1>5a, <1>14, <2>1
<1>17. ASSUME NEW j \in 1 .. Len(OnWire(u)) PROVE OnWire(u)[j] = OnWire(s)[j + n]
  <2>1. j \in 1 .. a - n + b /\ j + n \in 1 .. a + b BY <1>L, <1>15
  <2>2. CASE j <= a - n
    <3>1. j \in 1 .. a - n /\ j + n <= a /\ n + j = j + n BY <1>L, <2>1, <2>2
    <3> QED BY <1>6a, <1>14, <1>15, <2>1, <2>2, <3>1
  <2>3. CASE ~ (j <= a - n)
    <3>1. ~ (j + n <= a) /\ j + n - a = j - (a - n) BY <1>L, <2>1, <2>3
    <3>2. OnWire(u)[j] = s.pend[j - (a - n)] BY <1>15, <2>1, <2>3
    <3> DEFINE i == j + n
    <3>3. i \in 1 .. a + b /\ ~ (i <= a) /\ i - a = j - (a - n) BY <1>L, <2>1, <2>3
    <3> HIDE DEF i
    <3>4. OnWire(s)[i] = s.pend[i - a] BY <1>14, <3>3
    <3> QED BY <3>2, <3>3, <3>4 DEF i
  <2> QED BY <2>2, <2>3
<1>18. Len(OnWire(u)) + Len(got) = Len(OnWire(s)) BY <1>L, <1>5a, <1>14, <1>15
<1>19. got = <<>> => v = w BY <1>5a, <1>7
<1>20. Taken(s, u, got)
  BY <1>5, <1>5a, <1>6, <1>12, <1>13, <1>14, <1>15, <1>16, <1>17, <1>18, <1>19 DEF Taken, w
<1> QED BY <1>1, <1>3, <1>5, <1>20 DEF got

-----------------------------------------------------------------------------
(* Sending the request.                                                    *)

LEMMA TurnsRound ==
  ASSUME NEW s, Shape(s), NEW m
  PROVE  LET t == nxe_unset_timer(nxe_istream_unset_ready(s, "out"), "write")
             u == nxe_ostream_set_ready(nxe_set_timer(t, m), "in")
         IN  Does(s, u) /\ u.timers = (s.timers \ {"write"}) \cup {m} /\ ~ u.is["out"]
<1> DEFINE a == nxe_istream_unset_ready(s, "out")
           b == nxe_unset_timer(a, "write")
           c == nxe_set_timer(b, m)
           d == nxe_ostream_set_ready(c, "in")
<1>0. "in" \in Streams BY DEF Streams
<1>1. Does(s, a) /\ a.timers = s.timers /\ ~ a.is["out"] BY OutputOff
<1> HIDE DEF a
<1>2. Does(a, b) /\ b.timers = a.timers \ {"write"} /\ b.is["out"] = a.is["out"] BY <1>1, TimerOff DEF Does
<1> HIDE DEF b
<1>3. Does(b, c) /\ c.timers = b.timers \cup {m} /\ c.is["out"] = b.is["out"] BY <1>2, TimerOn DEF Does
<1> HIDE DEF c
<1>4. Mild(c, d) BY <1>0, <1>3, MildSetOutput DEF Does
<1> HIDE DEF d
<1>5. Does(s, d) BY <1>1, <1>2, <1>3, <1>4 DEF Mild, Does, Same, Core
<1>6. d.timers = (s.timers \ {"write"}) \cup {m} /\ ~ d.is["out"] BY <1>1, <1>2, <1>3, <1>4 DEF Mild
<1> QED BY <1>5, <1>6 DEF d, c, b, a

LEMMA BodySent ==
  ASSUME NEW s, Sound(s), s.state = "SENDING_BODY" PROVE Sound(start_receiving_response(s))
<1> DEFINE a == nxe_unset_timer(nxe_istream_unset_ready(s, "out"), "write")
           u == nxe_ostream_set_ready(nxe_set_timer(a, "read"), "in")
           t == [u EXCEPT !.state = "WAITING_FOR_RESPONSE"]
<1>0. start_receiving_response(s) = t BY DEF start_receiving_response
<1>1. Does(s, u) /\ u.timers = (s.timers \ {"write"}) \cup {"read"} /\ ~ u.is["out"]
  BY TurnsRound DEF Sound
<1> HIDE DEF u
<1>2. Shape(u) /\ DataInv(u) BY <1>1, SameData DEF Does, Sound, WInv
<1>3. u.state = "SENDING_BODY" /\ ~ In(u.events, "response")
  BY <1>1 DEF Does, Same, Core, Sound, WInv, NewsInv, Answering
<1>4. /\ DOMAIN t = Fields /\ t.events = u.events /\ t.is = u.is /\ t.os = u.os
      /\ t.timers = u.timers /\ Same([u EXCEPT !.state = "WAITING_FOR_RESPONSE"], t)
      /\ t.state = "WAITING_FOR_RESPONSE"
  BY <1>2 DEF Shape, Fields, Same, Core
<1>5. Same([t EXCEPT !.state = "SENDING_BODY"], u) BY <1>2, <1>3 DEF Shape, Fields, Same, Core
<1> HIDE DEF t
<1>6. Shape(t) BY <1>2, <1>4 DEF Shape
<1>7. OnWire(t) = OnWire(u) /\ Unread(t) = Unread(u)
  BY <1>5, <1>6 DEF OnWire, Unread, Same, Core, Shape, Fields
<1>8. BoundInv(t) /\ CountInv(t)
  BY <1>2, <1>4, <1>5, <1>6 DEF Same, Core, Shape, Fields, DataInv, BoundInv, CountInv, HcpStates
<1>9. BufferInv(t)
  BY <1>2, <1>3, <1>4, <1>5, <1>6 DEF Same, Core, Shape, Fields, DataInv, BufferInv, Answering
<1>10. OweInv(t) /\ UnreadInv(t)
  BY <1>2, <1>3, <1>4, <1>5, <1>6, <1>7 DEF Same, Core, Shape, Fields, DataInv, OweInv, UnreadInv, Asked
<1>11. ResponseInv(t)
  BY <1>2, <1>3, <1>4, <1>5, <1>6 DEF Same, Core, Shape, Fields, DataInv, ResponseInv, Answering
<1>12. ClockInv(t)
  <2>1. Clocks(s.state) = {"backend", "write"} BY DEF Clocks, Sending
  <2>2. Clocks(t.state) = {"backend", "read", "100continue"} BY <1>4 DEF Clocks, Sending
  <2>3. s.timers \subseteq {"backend", "write"} BY <2>1 DEF Sound, WInv, ClockInv
  <2> QED BY <1>1, <1>4, <2>2, <2>3 DEF ClockInv
<1>13. NewsInv(t) BY <1>3, <1>4 DEF NewsInv
<1> QED BY <1>0, <1>6, <1>8, <1>9, <1>10, <1>11, <1>12, <1>13 DEF Sound, WInv, DataInv

LEMMA SoundSend ==
  ASSUME NEW s, Sound(s), NEW size \in Nat
  PROVE  LET t == sock_data_send_write(s, size)
         IN  Sound(t) /\ Core(s, t) /\ t.rb_req = s.rb_req /\ t.retry = s.retry
<1> DEFINE t == sock_data_send_write(s, size)
           n == Sent(s, size)
<1>1. s.room \in 0 .. TxRoom /\ TxRoom \in Nat
  BY ProxyAssumption DEF Sound, WInv, DataInv, BoundInv
<1>2. n \in 0 .. s.room BY <1>1 DEF Sent, Minimum
<1> HIDE DEF n
<1>3. /\ DOMAIN t = Fields /\ t.events = s.events /\ t.is = s.is /\ t.room = s.room - n
      /\ t.os = [s.os EXCEPT !["out"] = s.os["out"] /\ n = size] /\ t.timers = s.timers
      /\ Core(s, t) /\ t.rb_req = s.rb_req /\ t.retry = s.retry
  BY DEF sock_data_send_write, Sound, Shape, Fields, Core, n
<1> HIDE DEF t
<1>4. t.os \in [Streams -> BOOLEAN] BY <1>3 DEF Sound, Shape, Streams
<1>5. Shape(t) BY <1>3, <1>4 DEF Sound, Shape
<1>6. t.room \in 0 .. TxRoom BY <1>1, <1>2, <1>3
<1>7. BoundInv(t) BY <1>3, <1>6 DEF Sound, WInv, DataInv, BoundInv
<1>8. DataInv(t) BY <1>3, <1>7, CoreData DEF Sound, WInv
<1>9. ClockInv(t) /\ NewsInv(t) BY <1>3 DEF Sound, WInv, ClockInv, NewsInv, Core
<1> QED BY <1>3, <1>5, <1>8, <1>9 DEF Sound, WInv, t

(* The head of the request is out: now the backend owes a response.        *)
LEMMA HeadSent ==
  ASSUME NEW s, Sound(s), s.state = "SENDING_HEADERS", NEW t, Shape(t),
         Same([t EXCEPT !.state = s.state, !.asked = s.asked, !.owed = s.owed,
                        !.said100 = s.said100, !.wait100 = s.wait100], s),
         t.state = "WAITING_FOR_RESPONSE", t.asked = s.no, t.owed, ~ t.said100,
         s.size # 0 => t.wait100, ~ t.is["out"], ~ In(t.events, "response"),
         t.timers \subseteq {"backend", "read", "100continue"}
  PROVE  Sound(t)
<1>1. DataInv(s) BY DEF Sound, WInv
<1>2. s.head = <<>> /\ OnWire(t) = OnWire(s) /\ Unread(t) = Unread(s) /\ Unread(s) = <<>>
  BY <1>1 DEF OnWire, Unread, Same, Core, Shape, Fields, DataInv, UnreadInv, BufferInv
<1>3. BoundInv(t) /\ CountInv(t)
  BY <1>1 DEF Same, Core, Shape, Fields, DataInv, BoundInv, CountInv, HcpStates
<1>4. BufferInv(t) BY <1>1 DEF Same, Core, Shape, Fields, DataInv, BufferInv, Answering
<1>5. t.size = s.size /\ t.no = s.no /\ s.size \in Nat
  BY <1>1 DEF Same, Core, Shape, Fields, DataInv, CountInv
<1>6. OweInv(t)
  <2>1. Only100(<<>>) BY DEF Only100
  <2>2. t.size > 0 => t.wait100 BY <1>5
  <2> QED BY <1>2, <1>5, <2>1, <2>2 DEF OweInv, Asked
<1>7. UnreadInv(t)
  <2>1. Announced(<<>>, t.no) /\ ~ Has100(<<>>) BY DEF Announced, Has100
  <2> QED BY <1>2, <2>1 DEF UnreadInv
<1>8. ResponseInv(t) BY <1>1 DEF Same, Core, Shape, Fields, DataInv, ResponseInv, Answering
<1>9. Clocks(t.state) = {"backend", "read", "100continue"} BY DEF Clocks, Sending
<1>10. ClockInv(t) /\ NewsInv(t) BY <1>9 DEF ClockInv, NewsInv
<1> QED BY <1>3, <1>4, <1>6, <1>7, <1>8, <1>10 DEF Sound, WInv, DataInv

LEMMA SoundHeaders ==
  ASSUME NEW s, Sound(s), s.state = "SENDING_HEADERS" PROVE Sound(WriteHeaders(s))
<1> DEFINE a == sock_data_send_write(s, 1)
           u == [a EXCEPT !.headers = FALSE, !.asked = s.no, !.owed = TRUE, !.said100 = FALSE]
           T(m) == nxe_ostream_set_ready(nxe_set_timer(
                     nxe_unset_timer(nxe_istream_unset_ready(u, "out"), "write"), m), "in")
           c == [T("read") EXCEPT !.state = "WAITING_FOR_RESPONSE"]
           d == [T("100continue") EXCEPT !.state = "WAITING_FOR_RESPONSE", !.wait100 = TRUE]
<1>1. WriteHeaders(s) = CASE Sent(s, 1) = 0 -> a
                          [] Sent(s, 1) # 0 /\ s.size = 0 -> c
                          [] OTHER -> d
  BY DEF WriteHeaders, start_receiving_response, wait_for_100_continue
<1>2. Sound(a) /\ Core(s, a) /\ a.rb_req = s.rb_req /\ a.retry = s.retry BY SoundSend
<1> HIDE DEF a
<1>3. /\ DOMAIN u = Fields /\ u.events = a.events /\ u.is = a.is /\ u.os = a.os /\ u.timers = a.timers
      /\ Same([a EXCEPT !.asked = s.no, !.owed = TRUE, !.said100 = FALSE], u)
      /\ Same([u EXCEPT !.asked = a.asked, !.owed = a.owed, !.said100 = a.said100], a)
      /\ u.asked = s.no /\ u.owed = TRUE /\ u.said100 = FALSE
  BY <1>2 DEF Sound, Shape, Fields, Same, Core
<1> HIDE DEF u
<1>4. Shape(u) BY <1>2, <1>3 DEF Sound, Shape
<1>5. a.timers \subseteq {"backend", "write"} /\ ~ In(a.events, "response") /\ a.state = "SENDING_HEADERS"
      /\ a.no = s.no /\ a.size = s.size
  <2>1. a.state = "SENDING_HEADERS" /\ a.no = s.no /\ a.size = s.size BY <1>2 DEF Core
  <2>2. Clocks(a.state) = {"backend", "write"} BY <2>1 DEF Clocks, Sending
  <2> QED BY <1>2, <2>1, <2>2 DEF Sound, WInv, ClockInv, NewsInv, Answering
<1>6. ASSUME NEW m \in {"read", "100continue"}
      PROVE  /\ Does(u, T(m)) /\ T(m).timers \subseteq {"backend", "read", "100continue"} /\ ~ T(m).is["out"]
             /\ ~ In(T(m).events, "response")
  <2>1. Does(u, T(m)) /\ T(m).timers = (u.timers \ {"write"}) \cup {m} /\ ~ T(m).is["out"]
    BY <1>4, TurnsRound
  <2> HIDE DEF T
  <2> QED BY <1>3, <1>5, <2>1 DEF Does
<1> HIDE DEF T
<1>7. ASSUME NEW m \in {"read", "100continue"}, NEW t, DOMAIN t = Fields, t.events = T(m).events,
             t.is = T(m).is, t.os = T(m).os, t.timers = T(m).timers,
             t.state = "WAITING_FOR_RESPONSE", a.size # 0 => t.wait100,
             Same([t EXCEPT !.state = T(m).state, !.wait100 = T(m).wait100], T(m))
      PROVE  Sound(t)
  <2>1. Shape(T(m)) /\ Same(u, T(m)) BY <1>6 DEF Does
  <2>3. Shape(t) BY <1>7, <2>1 DEF Shape
  <2>4. Same([t EXCEPT !.state = a.state, !.asked = a.asked, !.owed = a.owed,
                       !.said100 = a.said100, !.wait100 = a.wait100], a)
    BY <1>2, <1>3, <1>4, <1>7, <2>1, <2>3 DEF Sound, Shape, Fields, Same, Core
  <2>5. t.asked = u.asked /\ t.owed = u.owed /\ t.said100 = u.said100
    BY <1>7, <2>1, <2>3 DEF Shape, Fields, Same, Core
  <2>6. t.asked = a.no /\ t.owed /\ ~ t.said100 BY <1>3, <1>5, <2>5
  <2>7. ~ t.is["out"] /\ ~ In(t.events, "response") /\ t.timers \subseteq {"backend", "read", "100continue"}
    BY <1>6, <1>7
  <2> QED BY <1>2, <1>5, <1>7, <2>3, <2>4, <2>6, <2>7, HeadSent
<1>8. ASSUME s.size = 0 PROVE Sound(c)
  <2>1. Shape(T("read")) BY <1>6 DEF Does
  <2>2. /\ DOMAIN c = Fields /\ c.events = T("read").events /\ c.is = T("read").is
        /\ c.os = T("read").os /\ c.timers = T("read").timers /\ c.state = "WAITING_FOR_RESPONSE"
        /\ Same([c EXCEPT !.state = T("read").state, !.wait100 = T("read").wait100], T("read"))
    BY <2>1 DEF Shape, Fields, Same, Core
  <2> QED BY <1>5, <1>7, <1>8, <2>2
<1>9. Sound(d)
  <2>1. Shape(T("100continue")) BY <1>6 DEF Does
  <2>2. /\ DOMAIN d = Fields /\ d.events = T("100continue").events /\ d.is = T("100continue").is
        /\ d.os = T("100continue").os /\ d.timers = T("100continue").timers
        /\ d.state = "WAITING_FOR_RESPONSE" /\ d.wait100 = TRUE
        /\ Same([d EXCEPT !.state = T("100continue").state, !.wait100 = T("100continue").wait100],
                T("100continue"))
    BY <2>1 DEF Shape, Fields, Same, Core
  <2> QED BY <1>7, <2>2
<1> QED BY <1>1, <1>2, <1>8, <1>9

LEMMA SoundUnrelated ==
  ASSUME NEW s, Sound(s), NEW t, DOMAIN t = Fields, Same(s, t), t.events = s.events,
         t.is = s.is, t.os = s.os, t.timers = s.timers
  PROVE  Sound(t)
BY MildData, SoundMild DEF Sound

LEMMA SoundBody ==
  ASSUME NEW s, Sound(s), s.state = "SENDING_BODY", NEW size \in Nat, NEW eof
  PROVE  LET t == req_body_in_write(s, size, eof)
         IN  Sound(t) /\ t.rb_req = s.rb_req
<1> DEFINE n == Sent(s, size)
           a == [s EXCEPT !.sending = TRUE]
           b == nxe_unset_timer(a, "write")
           c == sock_data_send_write(b, size)
           d == nxe_ostream_unset_ready(c, "req")
           e == nxe_istream_set_ready(d, "out")
           u == IF size > 0 /\ ~ c.os["out"] THEN e ELSE c
           v == [u EXCEPT !.fwd = @ \/ n > 0, !.bodies = IF n > 0 /\ ~ s.fwd THEN @ + 1 ELSE @]
           w == nxe_ostream_unset_ready(v, "req")
           y == start_receiving_response(w)
           z == nxe_set_timer(v, "write")
<1>0. "req" \in Streams BY DEF Streams
<1>1. req_body_in_write(s, size, eof) = IF eof /\ n = size THEN y ELSE z BY DEF req_body_in_write
<1>2. Sound(a) /\ Same(s, a)
  <2>1. /\ DOMAIN a = Fields /\ Same(s, a) /\ a.events = s.events /\ a.is = s.is /\ a.os = s.os
        /\ a.timers = s.timers
    BY DEF Sound, Shape, Fields, Same, Core
  <2> HIDE DEF a
  <2> QED BY <2>1, SoundUnrelated
<1> HIDE DEF a
<1>3. Sound(b) /\ Same(a, b) BY <1>2, SoundTimers
<1> HIDE DEF b
<1>4. Sound(c) /\ Core(b, c) /\ c.rb_req = b.rb_req BY <1>3, SoundSend
<1> HIDE DEF c
<1>5. Sound(d) /\ Same(c, d) BY <1>0, <1>4, SoundStreams
<1> HIDE DEF d
<1>6. c.state = "SENDING_BODY" /\ d.state = "SENDING_BODY" /\ c.rb_req = s.rb_req
  BY <1>2, <1>3, <1>4, <1>5 DEF Same, Core
<1>7. Sound(e) /\ Same(d, e) BY <1>5, <1>6, SoundOutputOn DEF Sending
<1> HIDE DEF e
<1>8. Sound(u) /\ u.state = "SENDING_BODY" /\ u.rb_req = s.rb_req
  BY <1>4, <1>5, <1>6, <1>7 DEF Same, Core
<1> HIDE DEF u
<1>9. Sound(v) /\ Same(u, v)
  <2>1. /\ DOMAIN v = Fields /\ Same(u, v) /\ v.events = u.events /\ v.is = u.is /\ v.os = u.os
        /\ v.timers = u.timers
    BY <1>8 DEF Sound, Shape, Fields, Same, Core
  <2> HIDE DEF v
  <2> QED BY <1>8, <2>1, SoundUnrelated
<1> HIDE DEF v
<1>10. Sound(w) /\ Same(v, w) BY <1>0, <1>9, SoundStreams
<1> HIDE DEF w
<1>11. v.state = "SENDING_BODY" /\ w.state = "SENDING_BODY" /\ v.rb_req = s.rb_req /\ w.rb_req = s.rb_req
  BY <1>8, <1>9, <1>10 DEF Same, Core
<1>12. Sound(y) BY <1>10, <1>11, BodySent
<1>13. y.rb_req = w.rb_req
  <2> DEFINE k == nxe_unset_timer(nxe_istream_unset_ready(w, "out"), "write")
             l == nxe_ostream_set_ready(nxe_set_timer(k, "read"), "in")
  <2>1. Does(w, l) BY <1>10, TurnsRound DEF Sound
  <2>2. y = [l EXCEPT !.state = "WAITING_FOR_RESPONSE"] BY DEF start_receiving_response
  <2> HIDE DEF l, y
  <2> QED BY <2>1, <2>2 DEF Does, Same, Shape, Fields
<1> HIDE DEF y
<1>14. Sound(z) /\ Same(v, z)
  <2>1. "write" \in Clocks(v.state) BY <1>11 DEF Clocks, Sending
  <2> QED BY <1>9, <2>1, SoundTimers
<1> HIDE DEF z
<1> QED BY <1>1, <1>11, <1>12, <1>13, <1>14 DEF Same

LEMMA SoundRequestRing ==
  ASSUME NEW s, Sound(s), s.state = "SENDING_BODY", NEW size \in Nat
  PROVE  Sound(rb_req_do_write(s, size))
<1> DEFINE k == Minimum(size, s.rb_req)
           n == IF s.state = "SENDING_BODY" THEN Sent(s, k) ELSE 0
           eof == s.eof_req /\ k = s.rb_req
           t == req_body_in_write(s, k, eof)
           b == n > 0 /\ n = s.rb_req /\ ~ s.eof_req
           u == [t EXCEPT !.rb_req = @ - n, !.is["req"] = @ /\ ~ b]
<1>1. rb_req_do_write(s, size) = u BY DEF rb_req_do_write
<1>2. /\ s.rb_req \in 0 .. RbufSize /\ RbufSize \in Nat /\ s.room \in 0 .. TxRoom /\ TxRoom \in Nat
  BY ProxyAssumption DEF Sound, WInv, DataInv, BoundInv
<1>3. k \in Nat /\ k <= s.rb_req BY <1>2 DEF Minimum
<1> HIDE DEF k, b, eof
<1>4. n \in 0 .. k BY <1>2, <1>3 DEF Sent, Minimum
<1> HIDE DEF n
<1>5. s.rb_req - n \in 0 .. RbufSize BY <1>2, <1>3, <1>4
<1>6. Sound(t) /\ t.rb_req = s.rb_req BY <1>3, SoundBody
<1> HIDE DEF t
<1>7. /\ DOMAIN u = Fields /\ Core(t, u) /\ u.room = t.room /\ u.retry = t.retry
      /\ u.rb_req = t.rb_req - n /\ u.events = t.events /\ u.os = t.os /\ u.timers = t.timers
      /\ u.is = [t.is EXCEPT !["req"] = t.is["req"] /\ ~ b]
  BY <1>6 DEF Sound, Shape, Fields, Core
<1> HIDE DEF u
<1>8. u.is \in [Streams -> BOOLEAN] /\ u.is["out"] = t.is["out"] BY <1>6, <1>7 DEF Sound, Shape, Streams, b
<1>9. Shape(u) BY <1>6, <1>7, <1>8 DEF Sound, Shape
<1>10. BoundInv(u) BY <1>5, <1>6, <1>7 DEF Sound, WInv, DataInv, BoundInv
<1>11. DataInv(u) BY <1>6, <1>7, <1>10, CoreData DEF Sound, WInv
<1>12. ClockInv(u) /\ NewsInv(u) BY <1>6, <1>7, <1>8 DEF Sound, WInv, ClockInv, NewsInv, Core
<1> QED BY <1>1, <1>9, <1>11, <1>12 DEF Sound, WInv

LEMMA SoundBodyPassed ==
  ASSUME NEW s, Sound(s), s.state = "SENDING_BODY", NEW size \in Nat
  PROVE  Sound(WriteBody(s, size))
<1> DEFINE t == [s EXCEPT !.sending = TRUE]
           o == [t EXCEPT !.os["req"] = TRUE]
           r == rb_req_do_write(o, size)
           u == IF t.is["req"] THEN r ELSE t
           v == nxe_istream_unset_ready(u, "out")
           w == nxe_ostream_set_ready(v, "req")
           x == nxe_istream_unset_ready(t, "out")
<1>0. "req" \in Streams /\ "out" \in Streams BY DEF Streams
<1>1. WriteBody(s, size) = IF "req" \notin s.pair THEN x ELSE IF u.is["req"] THEN u ELSE w
  BY DEF WriteBody
<1>2. Sound(t) /\ Same(s, t)
  <2>1. /\ DOMAIN t = Fields /\ Same(s, t) /\ t.events = s.events /\ t.is = s.is /\ t.os = s.os
        /\ t.timers = s.timers
    BY DEF Sound, Shape, Fields, Same, Core
  <2> HIDE DEF t
  <2> QED BY <2>1, SoundUnrelated
<1> HIDE DEF t
<1>3. Sound(x) BY <1>0, <1>2, SoundStreams
<1>4. Sound(o) /\ Same(t, o)
  <2>1. Mild(t, o) BY <1>0, <1>2, FlagOut DEF Sound
  <2> QED BY <1>2, <2>1, SoundMild
<1> HIDE DEF o, x
<1>5. o.state = "SENDING_BODY" BY <1>2, <1>4 DEF Same, Core
<1>6. Sound(r) BY <1>4, <1>5, SoundRequestRing
<1> HIDE DEF r
<1>7. Sound(u) BY <1>2, <1>6
<1> HIDE DEF u
<1>8. Sound(v) BY <1>0, <1>7, SoundStreams
<1> HIDE DEF v
<1>9. Sound(w) BY <1>0, <1>8, SoundStreams
<1> QED BY <1>1, <1>3, <1>7, <1>9

LEMMA SoundConnected ==
  ASSUME NEW s, Sound(s), s.state = "CONNECTING", NEW t, t = [s EXCEPT !.state = "SENDING_HEADERS"]
  PROVE  Sound(t)
<1>1. DataInv(s) /\ DOMAIN s = Fields BY DEF Sound, WInv, Shape
<1>2. /\ DOMAIN t = Fields /\ t.events = s.events /\ t.is = s.is /\ t.os = s.os /\ t.timers = s.timers
      /\ t.state = "SENDING_HEADERS" /\ Same([t EXCEPT !.state = s.state], s)
  BY <1>1 DEF Fields, Same, Core
<1>3. Shape(t) BY <1>2 DEF Sound, Shape
<1>4. s.head = <<>> /\ OnWire(t) = OnWire(s) /\ Unread(t) = Unread(s) /\ Unread(s) = <<>>
  BY <1>1, <1>2 DEF OnWire, Unread, Same, Core, Fields, DataInv, UnreadInv, BufferInv
<1>5. BoundInv(t) /\ CountInv(t)
  BY <1>1, <1>2 DEF Same, Core, Fields, DataInv, BoundInv, CountInv, HcpStates
<1>6. BufferInv(t) BY <1>1, <1>2 DEF Same, Core, Fields, DataInv, BufferInv, Answering
<1>7. OweInv(t) BY <1>1, <1>2 DEF Same, Core, Fields, DataInv, OweInv, Asked
<1>8. UnreadInv(t) BY <1>2, <1>4 DEF UnreadInv, Asked
<1>9. ResponseInv(t)
  <2>1. s.resp = NoResponse /\ ~ UntilClose(NoResponse)
    BY <1>1 DEF DataInv, ResponseInv, UntilClose, NoResponse, HeadEnd
  <2> QED BY <1>1, <1>2, <2>1 DEF Same, Core, Fields, DataInv, ResponseInv, Answering
<1>10. Clocks(t.state) = Clocks(s.state) BY <1>2 DEF Clocks, Sending
<1>11. ClockInv(t) BY <1>2, <1>10 DEF Sound, WInv, ClockInv, Sending
<1>12. NewsInv(t) BY <1>2 DEF Sound, WInv, NewsInv, Answering
<1> QED BY <1>3, <1>5, <1>6, <1>7, <1>8, <1>9, <1>11, <1>12 DEF Sound, WInv, DataInv

LEMMA SoundOutput ==
  ASSUME NEW s, Sound(s), s.is["out"], NEW size \in Nat PROVE Sound(data_out_do_write(s, size))
<1> DEFINE t == nxe_unset_timer(s, "write")
           c == nxe_publish(t, "connected")
           d == [c EXCEPT !.state = "SENDING_HEADERS"]
           u == IF s.state = "CONNECTING" THEN d ELSE t
           v == nxe_set_timer(u, "write")
<1>0. s.state \in Sending BY DEF Sound, WInv, ClockInv
<1>1. data_out_do_write(s, size) =
        CASE v.state = "SENDING_HEADERS" -> WriteHeaders(v)
          [] v.state = "SENDING_BODY" -> WriteBody(v, size)
          [] OTHER -> nxe_istream_unset_ready(v, "out")
  BY DEF data_out_do_write
<1>2. Sound(t) /\ Same(s, t) BY SoundTimers
<1> HIDE DEF t
<1>3. Sound(c) /\ Same(t, c)
  <2>1. "connected" \in Events \ {"response"} BY DEF Events, Messages, HcpMessages
  <2> QED BY <1>2, <2>1, SoundPublish
<1> HIDE DEF c
<1>4. s.state = "CONNECTING" => Sound(d) /\ d.state = "SENDING_HEADERS"
  <2>1. s.state = "CONNECTING" => c.state = "CONNECTING" BY <1>2, <1>3 DEF Same, Core
  <2>2. d.state = "SENDING_HEADERS" BY <1>3 DEF Sound, Shape, Fields
  <2> QED BY <1>3, <2>1, <2>2, SoundConnected
<1> HIDE DEF d
<1>5. Sound(u) /\ u.state \in {"SENDING_HEADERS", "SENDING_BODY"}
  BY <1>0, <1>2, <1>4 DEF Same, Core, Sending
<1> HIDE DEF u
<1>6. Sound(v) /\ Same(u, v)
  <2>1. "write" \in Clocks(u.state) BY <1>5 DEF Clocks, Sending
  <2> QED BY <1>5, <2>1, SoundTimers
<1> HIDE DEF v
<1>7. v.state \in {"SENDING_HEADERS", "SENDING_BODY"} BY <1>5, <1>6 DEF Same, Core
<1> QED BY <1>1, <1>6, <1>7, SoundHeaders, SoundBodyPassed

-----------------------------------------------------------------------------
(* Receiving the body of the response.                                     *)

(* b pieces have been taken that are not in the ring yet.                  *)
Reading(s, b) ==
  /\ Shape(s) /\ BoundInv(s) /\ CountInv(s) /\ ClockInv(s)
  /\ s.state = "RECEIVING_BODY" /\ s.place = "used" /\ s.chunk = NoChunk /\ s.head = <<>>
  /\ ~ s.owed /\ ~ s.done /\ ~ s.eof_resp /\ s.resp.no = s.no
  /\ b \in Nat /\ s.rb_resp + b <= RbufSize
  /\ Behind(s.resp, s.received + b, OnWire(s), 0)
  /\ s.all /\ ~ UntilClose(s.resp) => OnWire(s) = <<>> /\ s.received + b = s.resp.size

LEMMA ReadingMild == ASSUME NEW s, NEW t, NEW b, Reading(s, b), Mild(s, t) PROVE Reading(t, b)
<1>1. Same(s, t) /\ Core(s, t) BY DEF Mild, Does, Same
<1>2. OnWire(t) = OnWire(s) BY <1>1 DEF OnWire, Core
<1>3. Shape(t) /\ BoundInv(t) BY <1>1 DEF Reading, Mild, Does, Same, BoundInv
<1>4. CountInv(t) BY <1>1 DEF Reading, CountInv, Core
<1>5. ClockInv(t) BY <1>1 DEF Reading, ClockInv, Core, Mild
<1> QED BY <1>1, <1>2, <1>3, <1>4, <1>5 DEF Reading, Core

LEMMA SoundReading ==
  ASSUME NEW s, Sound(s), s.state = "RECEIVING_BODY", s.place = "used", NEW t,
         DOMAIN t = Fields, t.events = s.events, t.is = s.is, t.os = s.os, t.timers = s.timers,
         t.chunk = NoChunk, Same([t EXCEPT !.chunk = s.chunk], s)
  PROVE  Reading(t, FirstChunk(s))
<1>1. DataInv(s) /\ ClockInv(s) /\ Shape(s) /\ RbufSize \in Nat BY ProxyAssumption DEF Sound, WInv
<1>2. /\ DOMAIN t = Fields /\ t.events = s.events /\ t.is = s.is /\ t.os = s.os /\ t.timers = s.timers
      /\ t.chunk = NoChunk /\ Same([t EXCEPT !.chunk = s.chunk], s)
  OBVIOUS
<1>3. Shape(t) BY <1>1, <1>2 DEF Shape
<1>4. OnWire(t) = OnWire(s) BY <1>2 DEF OnWire, Same, Core, Fields
<1>5. BoundInv(t) /\ CountInv(t) BY <1>1, <1>2 DEF DataInv, BoundInv, CountInv, Same, Core, Fields
<1>6. ClockInv(t) BY <1>1, <1>2 DEF ClockInv, Same, Core, Fields
<1>7. /\ t.state = "RECEIVING_BODY" /\ t.place = "used" /\ t.head = <<>> /\ t.resp = s.resp
      /\ t.received = s.received /\ t.all = s.all /\ t.rb_resp = s.rb_resp
      /\ ~ t.owed /\ ~ t.done /\ ~ t.eof_resp /\ t.resp.no = t.no
  BY <1>1, <1>2 DEF DataInv, BufferInv, OweInv, ResponseInv, Same, Core, Fields, Asked, Answering
<1>8. FirstChunk(s) \in Nat /\ s.rb_resp + FirstChunk(s) <= RbufSize
  <2>1. CASE s.chunk = NoChunk
    <3>1. FirstChunk(s) = 0 BY <2>1 DEF FirstChunk
    <3> QED BY <1>1, <3>1 DEF DataInv, CountInv
  <2>2. CASE s.chunk # NoChunk
    <3>1. FirstChunk(s) = s.chunk /\ s.rb_resp = 0 /\ s.chunk <= RbufSize /\ s.chunk \in Nat
      BY <1>1, <2>2 DEF FirstChunk, DataInv, BufferInv, CountInv
    <3> QED BY <3>1
  <2> QED BY <2>1, <2>2
<1>9. /\ Behind(s.resp, s.received + FirstChunk(s), OnWire(s), 0)
      /\ s.all /\ ~ UntilClose(s.resp) => OnWire(s) = <<>> /\ s.received + FirstChunk(s) = s.resp.size
  BY <1>1 DEF DataInv, UnreadInv
<1> QED BY <1>2, <1>3, <1>4, <1>5, <1>6, <1>7, <1>8, <1>9 DEF Reading

LEMMA SoundStored ==
  ASSUME NEW s, NEW n, Reading(s, n) PROVE Sound(Stored(s, n, FALSE))
<1> DEFINE t == [s EXCEPT !.rb_resp = @ + n, !.received = @ + n, !.eof_resp = @ \/ FALSE]
<1>0. "resp" \in Streams BY DEF Streams
<1>1. Stored(s, n, FALSE) = IF n > 0 /\ t.rb_resp = RbufSize THEN nxe_ostream_unset_ready(t, "resp") ELSE t
  BY DEF Stored
<1>2. /\ DOMAIN t = Fields /\ t.events = s.events /\ t.is = s.is /\ t.os = s.os /\ t.timers = s.timers
      /\ t.rb_resp = s.rb_resp + n /\ t.received = s.received + n /\ ~ t.eof_resp
      /\ Same([t EXCEPT !.rb_resp = s.rb_resp, !.received = s.received, !.eof_resp = s.eof_resp], s)
  BY ZenonT(60) DEF Reading, Shape, Fields, Same, Core
<1> HIDE DEF t
<1>3. Shape(t) BY <1>2 DEF Reading, Shape
<1>4. OnWire(t) = OnWire(s) BY <1>2 DEF OnWire, Same, Core, Fields
<1>5. t.rb_resp \in 0 .. RbufSize /\ t.received \in Nat
  <2>1. n \in Nat /\ s.rb_resp \in Nat /\ s.received \in Nat /\ s.rb_resp + n <= RbufSize
    BY DEF Reading, CountInv
  <2> QED BY <1>2, <2>1, ProxyAssumption
<1>6. BoundInv(t) /\ CountInv(t)
  <2>1. /\ t.state = s.state /\ t.no = s.no /\ t.asked = s.asked /\ t.size = s.size /\ t.head = s.head
        /\ t.wire = s.wire /\ t.pend = s.pend /\ t.resp = s.resp /\ t.chunk = s.chunk
        /\ t.room = s.room /\ t.rb_req = s.rb_req /\ t.retry = s.retry
    BY <1>2 DEF Same, Core, Fields
  <2>2. CountInv(t) BY <1>5, <2>1 DEF Reading, CountInv
  <2> QED BY <2>1, <2>2 DEF Reading, BoundInv
<1>7. ClockInv(t) BY <1>2 DEF Reading, ClockInv, Same, Core, Fields
<1>8. /\ t.state = "RECEIVING_BODY" /\ t.place = "used" /\ t.head = <<>> /\ t.resp = s.resp
      /\ t.chunk = NoChunk /\ t.all = s.all /\ ~ t.owed /\ ~ t.done /\ t.resp.no = t.no
  BY <1>2 DEF Reading, Same, Core, Fields
<1>9. BufferInv(t)
  <2>1. Len(<<>>) = 0 /\ 0 <= HeadRoom BY RoomAssumption, ProxyAssumption
  <2> QED BY <1>8, <2>1 DEF BufferInv, Answering
<1>10. OweInv(t) /\ ResponseInv(t) BY <1>2, <1>8 DEF OweInv, ResponseInv, Answering
<1>11. UnreadInv(t)
  <2>1. FirstChunk(t) = 0 /\ t.received + 0 = s.received + n BY <1>2, <1>5, <1>8 DEF FirstChunk
  <2> QED BY <1>4, <1>8, <2>1 DEF Reading, UnreadInv, Asked
<1>12. NewsInv(t) BY <1>8 DEF NewsInv, Answering
<1>13. Sound(t) BY <1>3, <1>6, <1>7, <1>9, <1>10, <1>11, <1>12 DEF Sound, WInv, DataInv
<1> QED BY <1>0, <1>1, <1>13, SoundStreams

LEMMA Completes ==
  ASSUME NEW s, Shape(s)
  PROVE  LET t == request_complete(s)
         IN  /\ Shape(t) /\ Same([t EXCEPT !.done = s.done, !.state = s.state], s)
             /\ t.done /\ t.state = "IDLE" /\ ~ t.is["out"]
             /\ t.timers = (s.timers \ {"read"}) \cup {"keep_alive"}
<1> DEFINE a == nxe_publish(s, "complete")
           b == nxe_publish(a, "error")
           u == IF s.queued THEN b ELSE a
           c == nxe_ostream_unset_ready(u, "in")
           v == nxe_istream_unset_ready(c, "out")
           d == nxe_unset_timer(v, "read")
           w == nxe_set_timer(d, "keep_alive")
           t == [w EXCEPT !.done = TRUE, !.state = "IDLE"]
<1>0. "in" \in Streams /\ "complete" \in Events \ {"response"} /\ "error" \in Events \ {"response"}
  BY DEF Streams, Events, Messages, HcpMessages
<1>1. request_complete(s) = t BY DEF request_complete
<1>2. Mild(s, a) BY <1>0, MildPublish
<1> HIDE DEF a
<1>3. Mild(a, b) BY <1>0, <1>2, MildShape, MildPublish
<1> HIDE DEF b
<1>4. Mild(s, u) BY <1>2, <1>3, MildTransitive
<1> HIDE DEF u
<1>5. Mild(u, c) BY <1>0, <1>4, MildShape, MildUnsetOutput
<1> HIDE DEF c
<1>6. Does(c, v) /\ v.timers = c.timers /\ ~ v.is["out"] BY <1>5, MildShape, OutputOff
<1> HIDE DEF v
<1>7. Does(v, d) /\ d.timers = v.timers \ {"read"} /\ d.is["out"] = v.is["out"] BY <1>6, TimerOff DEF Does
<1> HIDE DEF d
<1>8. Does(d, w) /\ w.timers = d.timers \cup {"keep_alive"} /\ w.is["out"] = d.is["out"]
  BY <1>7, TimerOn DEF Does
<1> HIDE DEF w
<1>9. Same(s, w) BY <1>4, <1>5, <1>6, <1>7, <1>8 DEF Mild, Does, Same, Core
<1>10. /\ DOMAIN t = Fields /\ t.events = w.events /\ t.is = w.is /\ t.os = w.os /\ t.timers = w.timers
       /\ t.done /\ t.state = "IDLE" /\ Same([t EXCEPT !.done = w.done, !.state = w.state], w)
  BY <1>8 DEF Does, Shape, Fields, Same, Core
<1> HIDE DEF t
<1>11. Shape(t) BY <1>8, <1>10 DEF Does, Shape
<1>12. Same([t EXCEPT !.done = s.done, !.state = s.state], s)
  BY <1>9, <1>10 DEF Fields, Same, Core
<1>13. t.timers = (s.timers \ {"read"}) \cup {"keep_alive"} /\ ~ t.is["out"]
  BY <1>4, <1>5, <1>6, <1>7, <1>8, <1>10 DEF Mild
<1> QED BY <1>1, <1>10, <1>11, <1>12, <1>13

LEMMA SoundFinished ==
  ASSUME NEW s, NEW n, Reading(s, n),
         ~ UntilClose(s.resp) => OnWire(s) = <<>> /\ s.received + n = s.resp.size
  PROVE  Sound(Finished(s, n))
<1> DEFINE a == request_complete(s)
           b == nxe_istream_unset_ready(a, "resp")
           t == [b EXCEPT !.rb_resp = @ + n, !.received = @ + n, !.eof_resp = @ \/ TRUE]
<1>0. "resp" \in Streams /\ "resp" # "out" BY DEF Streams
<1>1. Finished(s, n) = IF n > 0 /\ t.rb_resp = RbufSize THEN nxe_ostream_unset_ready(t, "resp") ELSE t
  BY DEF Finished, Stored
<1>2. /\ Shape(a) /\ Same([a EXCEPT !.done = s.done, !.state = s.state], s)
      /\ a.done /\ a.state = "IDLE" /\ ~ a.is["out"]
      /\ a.timers = (s.timers \ {"read"}) \cup {"keep_alive"}
  BY Completes DEF Reading
<1> HIDE DEF a
<1>3. Mild(a, b) BY <1>0, <1>2, MildUnsetInput
<1> HIDE DEF b
<1>4. /\ DOMAIN t = Fields /\ t.events = b.events /\ t.is = b.is /\ t.os = b.os /\ t.timers = b.timers
      /\ t.rb_resp = b.rb_resp + n /\ t.received = b.received + n /\ t.eof_resp
      /\ Same([t EXCEPT !.rb_resp = b.rb_resp, !.received = b.received, !.eof_resp = b.eof_resp], b)
  BY <1>3, ZenonT(60) DEF Mild, Does, Shape, Fields, Same, Core
<1> HIDE DEF t
<1>5. Shape(t) BY <1>3, <1>4 DEF Mild, Does, Shape
<1>6. /\ t.state = "IDLE" /\ t.done /\ t.place = "used" /\ t.head = s.head /\ t.resp = s.resp
      /\ t.chunk = s.chunk /\ t.all = s.all /\ t.owed = s.owed /\ t.no = s.no /\ t.via = s.via
      /\ t.asked = s.asked /\ t.size = s.size /\ t.wire = s.wire /\ t.pend = s.pend
      /\ t.room = s.room /\ t.rb_req = s.rb_req /\ t.retry = s.retry
      /\ t.rb_resp = s.rb_resp + n /\ t.received = s.received + n
  <2>1. Same([b EXCEPT !.done = s.done, !.state = s.state], s) /\ b.done /\ b.state = "IDLE"
    BY <1>2, <1>3 DEF Mild, Does, Same, Core, Shape, Fields
  <2>2. /\ DOMAIN b = Fields /\ b.rb_resp = s.rb_resp /\ b.received = s.received /\ b.place = "used"
    BY <1>3, <2>1 DEF Reading, Mild, Does, Same, Core, Shape, Fields
  <2> QED BY <1>4, <2>1, <2>2 DEF Same, Core, Fields
<1>7. t.rb_resp \in 0 .. RbufSize /\ t.received \in Nat
  <2>1. n \in Nat /\ s.rb_resp \in Nat /\ s.received \in Nat /\ s.rb_resp + n <= RbufSize
    BY DEF Reading, CountInv
  <2> QED BY <1>6, <2>1, ProxyAssumption
<1>8. CountInv(t) BY <1>6, <1>7 DEF Reading, CountInv, HcpStates
<1>9. BoundInv(t) BY <1>6 DEF Reading, BoundInv
<1>10. BufferInv(t)
  <2>1. Len(<<>>) = 0 /\ 0 <= HeadRoom BY RoomAssumption, ProxyAssumption
  <2> QED BY <1>6, <2>1 DEF Reading, BufferInv, Answering
<1>11. OweInv(t) BY <1>6 DEF Reading, OweInv
<1>12. ResponseInv(t) BY <1>4, <1>6 DEF Reading, ResponseInv, Answering
<1>13. UnreadInv(t)
  <2>1. OnWire(t) = OnWire(s) BY <1>6 DEF OnWire
  <2> QED BY <1>6, <2>1 DEF UnreadInv, Asked
<1>14. ClockInv(t)
  <2>1. Clocks(s.state) = {"backend", "read"} BY DEF Reading, Clocks, Sending
  <2>2. Clocks(t.state) = {"backend", "keep_alive"} BY <1>6 DEF Clocks, Sending
  <2>3. s.timers \subseteq {"backend", "read"} BY <2>1 DEF Reading, ClockInv
  <2>4. t.timers = (s.timers \ {"read"}) \cup {"keep_alive"} /\ ~ t.is["out"] BY <1>2, <1>3, <1>4 DEF Mild
  <2> QED BY <2>2, <2>3, <2>4 DEF ClockInv
<1>15. NewsInv(t) BY <1>6 DEF NewsInv, Answering
<1>16. Sound(t) BY <1>5, <1>8, <1>9, <1>10, <1>11, <1>12, <1>13, <1>14, <1>15 DEF Sound, WInv, DataInv
<1> QED BY <1>0, <1>1, <1>16, SoundStreams

LEMMA DecodedPieces ==
  ASSUME NEW s, Shape(s), NEW got
  PROVE  LET t == Decoded(s, got)
         IN  /\ Mild([s EXCEPT !.all = t.all], t)
             /\ t.all <=> s.all \/ (Chunked(s.resp) /\ ~ Holds(got, "junk") /\ Holds(got, "end"))
<1> DEFINE a == nxe_publish(s, "error")
           b == IF Holds(got, "junk") THEN a ELSE s
           h == ~ Holds(got, "junk") /\ Holds(got, "end")
           c == [b EXCEPT !.all = @ \/ h]
           t == Decoded(s, got)
<1>1. t = IF Chunked(s.resp) THEN c ELSE s BY DEF Decoded
<1>2. Mild(s, b)
  <2>1. "error" \in Events \ {"response"} BY DEF Events, Messages, HcpMessages
  <2> QED BY <2>1, MildPublish, MildReflexive
<1> HIDE DEF b, h
<1>3. /\ DOMAIN c = Fields /\ c.events = b.events /\ c.is = b.is /\ c.os = b.os /\ c.timers = b.timers
      /\ (c.all <=> b.all \/ h) /\ Same([b EXCEPT !.all = c.all], c)
  BY <1>2 DEF Mild, Does, Shape, Fields, Same, Core
<1> HIDE DEF c
<1>4. Shape(c) BY <1>2, <1>3 DEF Mild, Does, Shape
<1>5. Mild([s EXCEPT !.all = c.all], c) /\ (c.all <=> s.all \/ h)
  BY <1>2, <1>3, <1>4 DEF Mild, Does, Shape, Fields, Same, Core
<1>6. Mild([s EXCEPT !.all = s.all], s)
  BY MildReflexive DEF Mild, Does, Shape, Fields, Same, Core
<1> HIDE DEF t
<1> QED BY <1>1, <1>5, <1>6 DEF t, h

LEMMA SoundSocket ==
  ASSUME NEW s, NEW before, Reading(s, before), NEW size \in Nat, s.rb_resp + before + size <= RbufSize
  PROVE  Sound(ReadSocket(s, size, before))
<1> DEFINE got == Got(s, size)
           t == sock_data_recv_read(s, size)
           a == nxe_istream_unset_ready(t, "resp")
           b == nxe_ostream_set_ready(a, "in")
           u == IF t.is["in"] THEN t ELSE b
           v == Decoded(u, got)
           w == [v EXCEPT !.all = TRUE]
           n == before + Content(got)
           q == OnWire(s)
           r == s.resp
<1>0. "resp" \in Streams \ {"out"} /\ "in" \in Streams BY DEF Streams
<1>1. ReadSocket(s, size, before) = IF v.all \/ Enough(s, n) THEN Finished(w, n) ELSE Stored(v, n, FALSE)
  BY DEF ReadSocket
<1>2. Taken(s, t, got) /\ Len(got) <= size BY SocketGives DEF Reading
<1> HIDE DEF got, t
<1>3. Shape(t) BY <1>2 DEF Taken, Mild, Does
<1>4. Mild(t, u)
  <2>1. Mild(t, a) BY <1>0, <1>3, MildUnsetInput
  <2> HIDE DEF a
  <2>2. Mild(a, b) BY <1>0, <2>1, MildShape, MildSetOutput
  <2> HIDE DEF b
  <2> QED BY <1>3, <2>1, <2>2, MildTransitive, MildReflexive
<1> HIDE DEF u
<1>5. /\ Mild([u EXCEPT !.all = v.all], v)
      /\ v.all <=> u.all \/ (Chunked(u.resp) /\ ~ Holds(got, "junk") /\ Holds(got, "end"))
  BY <1>4, MildShape, DecodedPieces
<1> HIDE DEF v
<1>6. Shape(v) BY <1>5 DEF Mild, Does
<1>7. /\ Same([s EXCEPT !.wire = v.wire, !.all = v.all], v) /\ v.wire = t.wire /\ v.timers = s.timers
      /\ v.is["out"] = s.is["out"] /\ u.all = s.all /\ u.resp = r
  <2>1. /\ Same([s EXCEPT !.wire = t.wire], t) /\ t.timers = s.timers /\ t.is["out"] = s.is["out"]
    BY <1>2 DEF Taken, Mild, Does, Reading, Shape, Fields
  <2>2. /\ Same([s EXCEPT !.wire = t.wire], u) /\ u.timers = s.timers /\ u.is["out"] = s.is["out"]
        /\ Shape(u)
    BY <1>4, <2>1 DEF Mild, Does, Same, Core
  <2>3. u.all = s.all /\ u.resp = r /\ u.wire = t.wire
    BY <2>2 DEF Same, Core, Reading, Shape, Fields
  <2>4. Same([u EXCEPT !.all = v.all], v) /\ v.timers = u.timers /\ v.is["out"] = u.is["out"]
    BY <1>5, <2>2 DEF Mild, Does, Shape, Fields
  <2>5. Same([s EXCEPT !.wire = v.wire, !.all = v.all], v) /\ v.wire = t.wire
    BY <2>2, <2>3, <2>4 DEF Same, Core, Reading, Shape, Fields
  <2> QED BY <2>2, <2>3, <2>4, <2>5
<1>8. /\ v.state = s.state /\ v.place = s.place /\ v.head = s.head /\ v.resp = r /\ v.chunk = s.chunk
      /\ v.owed = s.owed /\ v.done = s.done /\ v.eof_resp = s.eof_resp /\ v.no = s.no
      /\ v.received = s.received /\ v.rb_resp = s.rb_resp /\ v.pend = s.pend /\ v.size = s.size
      /\ v.asked = s.asked /\ v.room = s.room /\ v.rb_req = s.rb_req /\ v.retry = s.retry
  BY <1>7 DEF Same, Core, Reading, Shape, Fields
<1>9. OnWire(v) = OnWire(t) BY <1>7, <1>8, <1>2 DEF OnWire, Taken, Mild, Does, Same, Core, Reading, Shape, Fields
<1> DEFINE C == Content(got)
           l == Len(got)
           x == OnWire(t)
           m == s.received + before
<1>10. /\ r \in Pieces /\ r.size \in Nat /\ s.received \in Nat /\ before \in Nat /\ s.rb_resp \in Nat
       /\ m \in Nat /\ RbufSize \in Nat
  BY ProxyAssumption DEF Reading, CountInv, Pieces
<1>11. /\ q \in Seq(Pieces) /\ x \in Seq(Pieces) /\ got \in Seq(Pieces) /\ Len(x) + l = Len(q)
       /\ \A j \in 1 .. l : got[j] = q[j]
       /\ \A j \in 1 .. Len(x) : x[j] = q[j + l]
  BY <1>2 DEF Taken
<1>12. l \in Nat /\ Len(x) \in Nat /\ Len(q) \in Nat BY <1>11, LenProperties
<1>13. Behind(r, m, q, 0) BY DEF Reading
<1> HIDE DEF q, r, x, m
<1>14. /\ C \in 0 .. l
       /\ l < Len(q) \/ ~ Chunked(r) => C = l
       /\ Chunked(r) /\ Holds(got, "end") => l = Len(q) /\ m + C = r.size
  <2>1. 0 + l <= Len(q) /\ \A j \in 1 .. l : got[j] = q[0 + j] BY <1>11, <1>12
  <2>2. /\ C \in 0 .. l
        /\ 0 + l < Len(q) \/ ~ Chunked(r) => C = l
        /\ Chunked(r) /\ Holds(got, "end") => 0 + l = Len(q) /\ m + C = r.size
    BY <1>10, <1>11, <1>13, <2>1, ContentRead, SMTT(30)
  <2> QED BY <1>12, <2>2
<1>15. Behind(r, m + l, x, 0)
  <2>1. 0 + l = 0 + l /\ l \in Int /\ 0 + 1 = 1 BY <1>12
  <2>2. \A j \in 0 + 1 .. Len(x) : x[j] = q[j + l] BY <1>11
  <2> QED BY <1>10, <1>11, <1>12, <1>13, <2>1, <2>2, BehindMoves
<1>16. Behind(r, m + C, x, 0)
  <2>1. CASE C = l BY <1>15, <2>1
  <2>2. CASE C # l
    <3>1. Chunked(r) /\ Len(x) = 0 BY <1>11, <1>12, <1>14, <2>2
    <3>2. x = <<>> BY <1>11, <3>1, EmptySeq
    <3>3. m + C \in Nat BY <1>10, <1>12, <1>14
    <3> QED BY <1>10, <3>1, <3>2, <3>3, BehindNothing
  <2> QED BY <2>1, <2>2
<1>17. ASSUME v.all \/ Enough(s, n), ~ UntilClose(r) PROVE x = <<>> /\ m + C = r.size
  <2>1. CASE s.all
    <3>1. q = <<>> /\ m = r.size BY <1>17, <2>1 DEF Reading, q, r, m
    <3>2. Len(q) = 0 BY <3>1
    <3>3. l = 0 /\ Len(x) = 0 BY <1>11, <1>12, <3>2
    <3>4. C = 0 /\ x = <<>> BY <1>11, <1>14, <3>3, EmptySeq
    <3> QED BY <1>10, <3>1, <3>4
  <2>2. CASE Chunked(r) /\ Holds(got, "end")
    <3>1. Len(x) = 0 /\ m + C = r.size BY <1>11, <1>12, <1>14, <2>2
    <3> QED BY <1>11, <3>1, EmptySeq
  <2>3. CASE Enough(s, n)
    <3>1. ~ Chunked(r) /\ s.received + (before + C) >= r.size BY <2>3 DEF Enough, r
    <3>2. m + C >= r.size /\ C = l BY <1>10, <1>12, <1>14, <3>1 DEF m
    <3>3. m + l + (Len(x) - 0) <= r.size BY <1>15, <3>1 DEF Behind
    <3>4. Len(x) = 0 /\ m + C = r.size BY <1>10, <1>12, <3>2, <3>3
    <3> QED BY <1>11, <3>4, EmptySeq
  <2> QED BY <1>5, <1>7, <1>17, <2>1, <2>2, <2>3
<1>18. ASSUME NEW y, Shape(y), Same([v EXCEPT !.all = y.all], y), y.timers = v.timers,
              y.is["out"] = v.is["out"], y.all => v.all \/ Enough(s, n)
       PROVE  Reading(y, n)
  <2>1. /\ y.state = s.state /\ y.place = s.place /\ y.head = s.head /\ y.resp = r /\ y.chunk = s.chunk
        /\ y.owed = s.owed /\ y.done = s.done /\ y.eof_resp = s.eof_resp /\ y.no = s.no
        /\ y.received = s.received /\ y.rb_resp = s.rb_resp /\ y.pend = s.pend /\ y.size = s.size
        /\ y.asked = s.asked /\ y.room = s.room /\ y.rb_req = s.rb_req /\ y.retry = s.retry
        /\ y.wire = v.wire
    BY <1>6, <1>8, <1>18 DEF Same, Core, Shape, Fields
  <2>2. y.wire \in Seq(Pieces) BY <1>2, <1>7, <2>1 DEF Taken
  <2>3. CountInv(y) BY <2>1, <2>2 DEF Reading, CountInv, r
  <2>4. BoundInv(y) BY <2>1 DEF Reading, BoundInv
  <2>5. ClockInv(y) BY <1>7, <1>18, <2>1 DEF Reading, ClockInv
  <2>6. OnWire(y) = x BY <1>8, <1>9, <2>1 DEF OnWire, x
  <2>7. n \in Nat /\ s.rb_resp + n <= RbufSize BY <1>2, <1>10, <1>12, <1>14, SMTT(30)
  <2>8. s.received + n = m + C BY <1>10, <1>12, <1>14 DEF m
  <2>9. y.all /\ ~ UntilClose(y.resp) => OnWire(y) = <<>> /\ y.received + n = y.resp.size
    BY <1>17, <1>18, <2>1, <2>6, <2>8
  <2> HIDE DEF n
  <2> QED BY <1>16, <1>18, <2>1, <2>3, <2>4, <2>5, <2>6, <2>7, <2>8, <2>9 DEF Reading, r
<1>19. ASSUME v.all \/ Enough(s, n) PROVE Sound(Finished(w, n))
  <2>1. /\ DOMAIN w = Fields /\ w.events = v.events /\ w.is = v.is /\ w.os = v.os /\ w.timers = v.timers
        /\ w.all = TRUE /\ Same([v EXCEPT !.all = w.all], w)
    BY <1>6 DEF Shape, Fields, Same, Core
  <2> HIDE DEF w, n
  <2>2. Shape(w) BY <1>6, <2>1 DEF Shape
  <2>3. Reading(w, n) BY <1>18, <1>19, <2>1, <2>2
  <2> QED BY <2>1, <2>3, SoundFinished DEF Reading
<1>20. Sound(Stored(v, n, FALSE))
  <2>1. Same([v EXCEPT !.all = v.all], v) BY <1>6 DEF Shape, Fields, Same, Core
  <2> HIDE DEF n
  <2>2. Reading(v, n) BY <1>6, <1>18, <2>1
  <2> QED BY <2>2, SoundStored
<1> QED BY <1>1, <1>19, <1>20

LEMMA SoundAtEnd ==
  ASSUME NEW s, Sound(s), s.place = "used", s.done, NEW t, t = [s EXCEPT !.eof_resp = TRUE]
  PROVE  Sound(t)
<1>1. DataInv(s) /\ Shape(s) BY DEF Sound, WInv
<1>2. /\ DOMAIN t = Fields /\ t.events = s.events /\ t.is = s.is /\ t.os = s.os /\ t.timers = s.timers
      /\ Same([t EXCEPT !.eof_resp = s.eof_resp], s)
  BY <1>1, ZenonT(60) DEF Shape, Fields, Same, Core
<1>3. Shape(t) BY <1>1, <1>2 DEF Shape
<1>4. OnWire(t) = OnWire(s) /\ Unread(t) = Unread(s) /\ FirstChunk(t) = FirstChunk(s)
  BY <1>2 DEF OnWire, Unread, FirstChunk, Same, Core, Fields
<1>5. BoundInv(t) /\ CountInv(t) BY <1>1, <1>2 DEF DataInv, BoundInv, CountInv, Same, Core, Fields
<1>6. BufferInv(t) BY <1>1, <1>2 DEF DataInv, BufferInv, Same, Core, Fields
<1>7. OweInv(t) BY <1>1, <1>2, <1>4 DEF DataInv, OweInv, Same, Core, Fields
<1>8. UnreadInv(t) BY <1>1, <1>2, <1>4 DEF DataInv, UnreadInv, Same, Core, Fields
<1>9. ResponseInv(t) BY <1>1, <1>2 DEF DataInv, ResponseInv, Same, Core, Fields
<1>10. ClockInv(t) /\ NewsInv(t) BY <1>2 DEF Sound, WInv, ClockInv, NewsInv, Same, Core, Fields
<1> QED BY <1>3, <1>5, <1>6, <1>7, <1>8, <1>9, <1>10 DEF Sound, WInv, DataInv

LEMMA SoundBodyRead ==
  ASSUME NEW s, Sound(s), s.place = "used", NEW size \in Nat, s.rb_resp + size <= RbufSize,
         s.chunk # NoChunk => size = RbufSize
  PROVE  Sound(resp_body_out_read(s, size))
<1> DEFINE n == Minimum(s.chunk, size)
           t == [s EXCEPT !.chunk = IF s.chunk <= size THEN NoChunk ELSE @ - size]
           e == [s EXCEPT !.eof_resp = TRUE]
           i == nxe_istream_unset_ready(s, "resp")
<1>0. "resp" \in Streams /\ "in" \in Streams BY DEF Streams
<1>1. resp_body_out_read(s, size) =
        CASE s.done -> nxe_istream_unset_ready(e, "resp")
          [] ~ s.done /\ s.state # "RECEIVING_BODY" -> nxe_ostream_set_ready(i, "in")
          [] ~ s.done /\ s.state = "RECEIVING_BODY" /\ s.chunk = NoChunk -> ReadSocket(s, size, 0)
          [] OTHER ->
               CASE s.all -> Finished(t, n)
                 [] ~ s.all /\ n = size -> Stored(t, n, FALSE)
                 [] OTHER -> ReadSocket(t, size - n, n)
  BY DEF resp_body_out_read
<1>2. DataInv(s) /\ Shape(s) /\ RbufSize \in Nat /\ s.rb_resp \in Nat
  BY ProxyAssumption DEF Sound, WInv, DataInv, CountInv
<1>3. CASE s.done
  <2>1. Sound(e) BY <1>3, SoundAtEnd
  <2> HIDE DEF e
  <2> QED BY <1>0, <1>1, <1>3, <2>1, SoundStreams
<1>4. CASE ~ s.done /\ s.state # "RECEIVING_BODY"
  <2>1. Sound(i) BY <1>0, SoundStreams
  <2> HIDE DEF i
  <2> QED BY <1>0, <1>1, <1>4, <2>1, SoundStreams
<1>5. CASE ~ s.done /\ s.state = "RECEIVING_BODY" /\ s.chunk = NoChunk
  <2>1. DOMAIN s = Fields /\ Same([s EXCEPT !.chunk = s.chunk], s) BY <1>2 DEF Shape, Fields, Same, Core
  <2>2. FirstChunk(s) = 0 BY <1>5 DEF FirstChunk
  <2>3. Reading(s, 0) BY <1>5, <2>1, <2>2, SoundReading
  <2>4. s.rb_resp + 0 + size <= RbufSize BY <1>2
  <2> QED BY <1>1, <1>5, <2>3, <2>4, SoundSocket
<1>6. CASE ~ s.done /\ s.state = "RECEIVING_BODY" /\ s.chunk # NoChunk
  <2>1. s.chunk \in Nat /\ s.chunk <= RbufSize /\ size = RbufSize /\ s.rb_resp = 0
    BY <1>2, <1>6 DEF DataInv, CountInv, BufferInv
  <2>2. n = s.chunk BY <1>2, <2>1 DEF Minimum
  <2>a. t = [s EXCEPT !.chunk = NoChunk] BY <1>2, <2>1
  <2>3. /\ DOMAIN t = Fields /\ t.events = s.events /\ t.is = s.is /\ t.os = s.os /\ t.timers = s.timers
        /\ t.chunk = NoChunk /\ Same([t EXCEPT !.chunk = s.chunk], s)
    <3> HIDE DEF t
    <3> QED BY <1>2, <2>a DEF Shape, Fields, Same, Core
  <2>4. FirstChunk(s) = n BY <1>6, <2>2 DEF FirstChunk
  <2> HIDE DEF n, t
  <2>5. Reading(t, n) BY <1>6, <2>3, <2>4, SoundReading
  <2>6. t.resp = s.resp /\ t.all = s.all /\ t.rb_resp = 0 BY <2>1, <2>3 DEF Same, Core, Fields
  <2>7. CASE s.all
    <3>1. ~ UntilClose(t.resp) => OnWire(t) = <<>> /\ t.received + n = t.resp.size
      BY <2>5, <2>6, <2>7 DEF Reading
    <3>2. resp_body_out_read(s, size) = Finished(t, n) BY <1>1, <1>6, <2>7
    <3> QED BY <2>5, <3>1, <3>2, SoundFinished
  <2>8. CASE ~ s.all /\ n = size
    <3>1. resp_body_out_read(s, size) = Stored(t, n, FALSE) BY <1>1, <1>6, <2>8
    <3> QED BY <2>5, <3>1, SoundStored
  <2>9. CASE ~ s.all /\ n # size
    <3>1. resp_body_out_read(s, size) = ReadSocket(t, size - n, n) BY <1>1, <1>6, <2>9
    <3>2. size - n \in Nat /\ t.rb_resp + n + (size - n) <= RbufSize BY <1>2, <2>1, <2>2, <2>6
    <3> QED BY <2>5, <3>1, <3>2, SoundSocket
  <2> QED BY <2>7, <2>8, <2>9
<1> QED BY <1>3, <1>4, <1>5, <1>6

LEMMA SoundResponseRing ==
  ASSUME NEW s, Sound(s), s.place = "used" PROVE Sound(rb_resp_do_read(s))
<1> DEFINE t == [s EXCEPT !.tripped = @ \/ s.rb_resp >= RbufSize]
           m == Offered(s)
<1>0. rb_resp_do_read(s) = resp_body_out_read(t, m) BY DEF rb_resp_do_read
<1>1. /\ DOMAIN t = Fields /\ Same(s, t) /\ t.events = s.events /\ t.is = s.is /\ t.os = s.os
      /\ t.timers = s.timers
  BY DEF Sound, Shape, Fields, Same, Core
<1> HIDE DEF t
<1>2. Sound(t) BY <1>1, SoundUnrelated
<1>3. t.place = "used" /\ t.rb_resp = s.rb_resp /\ t.chunk = s.chunk /\ t.received = s.received
  BY <1>1 DEF Same, Core
<1>4. s.rb_resp \in 0 .. RbufSize /\ s.received \in Nat /\ RbufSize \in Nat \ {0}
  BY ProxyAssumption DEF Sound, WInv, DataInv, CountInv
<1>5. s.received % RbufSize \in 0 .. RbufSize - 1 BY <1>4
<1>6. m \in Nat /\ s.rb_resp + m <= RbufSize BY <1>4, <1>5 DEF Offered, Minimum
<1>7. ASSUME s.chunk # NoChunk PROVE m = RbufSize
  <2>1. s.rb_resp = 0 /\ s.received = 0 BY <1>7 DEF Sound, WInv, DataInv, BufferInv
  <2>2. 0 % RbufSize = 0 BY <1>4
  <2>3. RbufSize - s.rb_resp = RbufSize /\ RbufSize - (s.received % RbufSize) = RbufSize BY <1>4, <2>1, <2>2
  <2> QED BY <2>3 DEF Offered, Minimum
<1> HIDE DEF m
<1> QED BY <1>0, <1>2, <1>3, <1>6, <1>7, SoundBodyRead

-----------------------------------------------------------------------------
(* Receiving the head of the response.                                     *)

LEMMA SoundBegins ==
  ASSUME NEW s, Sound(s), s.state = "WAITING_FOR_RESPONSE"
  PROVE  LET t == BeginResponse(s)
         IN  Sound(t) /\ t.state = "RECEIVING_HEADERS" /\ t.place = s.place
<1> DEFINE a == nxe_unset_timer(s, "read")
           b == nxe_unset_timer(a, "100continue")
           c == nxe_set_timer(b, "read")
           t == [c EXCEPT !.state = "RECEIVING_HEADERS"]
<1>0. BeginResponse(s) = t BY DEF BeginResponse
<1>1. Does(s, a) /\ a.timers = s.timers \ {"read"} /\ a.is["out"] = s.is["out"] BY TimerOff DEF Sound
<1> HIDE DEF a
<1>2. Does(a, b) /\ b.timers = a.timers \ {"100continue"} /\ b.is["out"] = a.is["out"]
  BY <1>1, TimerOff DEF Does
<1> HIDE DEF b
<1>3. Does(b, c) /\ c.timers = b.timers \cup {"read"} /\ c.is["out"] = b.is["out"]
  BY <1>2, TimerOn DEF Does
<1> HIDE DEF c
<1>4. Does(s, c) BY <1>1, <1>2, <1>3 DEF Does, Same, Core
<1>5. DataInv(c) /\ Shape(c) BY <1>4, SameData DEF Does, Sound, WInv
<1>6. c.state = "WAITING_FOR_RESPONSE" /\ c.place = s.place BY <1>4 DEF Does, Same, Core
<1>7. /\ DOMAIN t = Fields /\ t.events = c.events /\ t.is = c.is /\ t.os = c.os /\ t.timers = c.timers
      /\ t.state = "RECEIVING_HEADERS" /\ Same([t EXCEPT !.state = c.state], c)
  BY <1>5 DEF Shape, Fields, Same, Core
<1> HIDE DEF t
<1>8. Shape(t) BY <1>5, <1>7 DEF Shape
<1>9. OnWire(t) = OnWire(c) /\ Unread(t) = Unread(c) BY <1>7 DEF OnWire, Unread, Same, Core, Fields
<1>10. BoundInv(t) /\ CountInv(t)
  BY <1>5, <1>7 DEF Same, Core, Fields, DataInv, BoundInv, CountInv, HcpStates
<1>11. BufferInv(t) BY <1>5, <1>6, <1>7 DEF Same, Core, Fields, DataInv, BufferInv, Answering
<1>12. OweInv(t) /\ UnreadInv(t)
  BY <1>5, <1>6, <1>7, <1>9 DEF Same, Core, Fields, DataInv, OweInv, UnreadInv, Asked
<1>13. ResponseInv(t) BY <1>5, <1>6, <1>7 DEF Same, Core, Fields, DataInv, ResponseInv, Answering
<1>14. ClockInv(t)
  <2>1. s.timers \subseteq {"backend", "read", "100continue"} /\ ~ s.is["out"]
    <3>1. Clocks(s.state) = {"backend", "read", "100continue"} BY DEF Clocks, Sending
    <3> QED BY <3>1 DEF Sound, WInv, ClockInv, Sending
  <2>2. Clocks(t.state) = {"backend", "read"} BY <1>7 DEF Clocks, Sending
  <2> QED BY <1>1, <1>2, <1>3, <1>7, <2>1, <2>2 DEF ClockInv
<1>15. NewsInv(t)
  <2>1. ~ In(s.events, "response") BY DEF Sound, WInv, NewsInv, Answering
  <2> QED BY <1>4, <1>7, <2>1 DEF NewsInv, Does
<1>16. Sound(t) BY <1>8, <1>10, <1>11, <1>12, <1>13, <1>14, <1>15 DEF Sound, WInv, DataInv
<1>17. t.place = s.place BY <1>6, <1>7 DEF Same, Core, Fields
<1> QED BY <1>0, <1>7, <1>16, <1>17

(* Pieces are dropped in front, or behind the h pieces of an open head.    *)
LEMMA AnnouncedMoves ==
  ASSUME NEW q \in Seq(Pieces), NEW no, Announced(q, no), NEW v \in Seq(Pieces),
         NEW h \in Nat, NEW d \in Nat \ {0}, Len(v) + d = Len(q),
         \A i \in 1 .. Len(v) : i <= h => v[i] = q[i] /\ v[i].piece \notin EndsHead,
         \A i \in 1 .. Len(v) : ~ (i <= h) => v[i] = q[i + d]
  PROVE  Announced(v, no) /\ ~ Has100(v) /\ (Only100(q) => Only100(v))
<1>1. Len(q) \in Nat /\ Len(v) \in Nat BY LenProperties
<1>2. ASSUME NEW i \in 1 .. Len(v)
      PROVE  /\ v[i].piece # "100" /\ (Only100(q) => v[i].piece = "100")
             /\ v[i].piece = "head" => v[i].no = no /\ Behind(v[i], 0, v, i)
  <2>1. CASE i <= h
    <3>1. v[i] = q[i] /\ v[i].piece \notin EndsHead BY <2>1
    <3>2. i \in 1 .. Len(q) BY <1>1
    <3> QED BY <3>1, <3>2 DEF EndsHead, Only100
  <2>2. CASE ~ (i <= h)
    <3> DEFINE k == i + d
    <3>1. v[i] = q[k] BY <2>2
    <3>2. k \in 1 .. Len(q) /\ k # 1 /\ k \in Nat /\ i \in Nat BY <1>1
    <3>3. \A j \in i + 1 .. Len(v) : j \in 1 .. Len(v) /\ ~ (j <= h) BY <1>1, <2>2
    <3>4. \A j \in i + 1 .. Len(v) : v[j] = q[j + d] BY <3>3
    <3>5. i + d = k + 0 /\ 0 + 0 = 0 /\ d \in Int BY <1>1
    <3> HIDE DEF k
    <3>6. q[k].piece # "100" /\ (q[k].piece = "head" => q[k].no = no /\ Behind(q[k], 0, q, k))
      BY <3>2 DEF Announced
    <3>7. q[k].size \in Nat
      <4>1. q[k] \in Pieces BY <3>2, ElementOfSeq
      <4> QED BY <4>1 DEF Pieces
    <3>8. Behind(q[k], 0, q, k) => Behind(q[k], 0 + 0, v, i)
      BY <3>2, <3>4, <3>5, <3>7, BehindMoves
    <3> QED BY <3>1, <3>2, <3>5, <3>6, <3>8 DEF Only100
  <2> QED BY <2>1, <2>2
<1> QED BY <1>2 DEF Announced, Has100, Only100

LEMMA Joined ==
  ASSUME NEW a \in Seq(Pieces), NEW b \in Seq(Pieces)
  PROVE  /\ a \o b \in Seq(Pieces) /\ Len(a) \in Nat /\ Len(b) \in Nat
         /\ Len(a \o b) = Len(a) + Len(b)
         /\ \A i \in 1 .. Len(a) + Len(b) : i <= Len(a) => (a \o b)[i] = a[i]
         /\ \A i \in 1 .. Len(a) + Len(b) : ~ (i <= Len(a)) => (a \o b)[i] = b[i - Len(a)]
<1>1. Len(a) \in Nat /\ Len(b) \in Nat BY LenProperties
<1>2. /\ a \o b \in Seq(Pieces) /\ Len(a \o b) = Len(a) + Len(b)
      /\ \A i \in 1 .. Len(a) + Len(b) : (a \o b)[i] = IF i <= Len(a) THEN a[i] ELSE b[i - Len(a)]
  BY ConcatProperties
<1> QED BY <1>1, <1>2

(* A read in the middle of a head: q was unread, with h pieces of the head *)
(* read before and l read now.                                             *)
LEMMA UnreadMoves ==
  ASSUME NEW s, CountInv(s), NEW t, NEW got, Taken(s, t, got)
  PROVE  LET q == Unread(s)
             h == Len(s.head)
             l == Len(got)
             x == OnWire(t)
         IN  /\ q \in Seq(Pieces) /\ h \in Nat /\ l \in Nat /\ Len(x) \in Nat /\ x \in Seq(Pieces)
             /\ Len(q) = h + l + Len(x)
             /\ \A i \in 1 .. h + l : (s.head \o got)[i] = q[i]
             /\ \A i \in 1 .. h : s.head[i] = q[i]
             /\ \A i \in 1 .. Len(x) : x[i] = q[i + (h + l)]
             /\ s.head \o got \in Seq(Pieces) /\ Len(s.head \o got) = h + l
<1> DEFINE q == Unread(s)
           h == Len(s.head)
           l == Len(got)
           x == OnWire(t)
           w == OnWire(s)
           f == s.head \o got
<1>1. s.head \in Seq(Pieces) /\ w \in Seq(Pieces) /\ x \in Seq(Pieces) /\ got \in Seq(Pieces)
  BY DEF CountInv, Taken
<1>2. /\ Len(x) + l = Len(w) /\ \A j \in 1 .. l : got[j] = w[j]
      /\ \A j \in 1 .. Len(x) : x[j] = w[j + l]
  BY DEF Taken
<1>3. /\ q \in Seq(Pieces) /\ h \in Nat /\ Len(w) \in Nat /\ Len(q) = h + Len(w)
      /\ \A i \in 1 .. h + Len(w) : i <= h => q[i] = s.head[i]
      /\ \A i \in 1 .. h + Len(w) : ~ (i <= h) => q[i] = w[i - h]
  BY <1>1, Joined DEF Unread
<1>4. /\ f \in Seq(Pieces) /\ l \in Nat /\ Len(f) = h + l
      /\ \A i \in 1 .. h + l : i <= h => f[i] = s.head[i]
      /\ \A i \in 1 .. h + l : ~ (i <= h) => f[i] = got[i - h]
  BY <1>1, Joined
<1>5. Len(x) \in Nat BY <1>1, LenProperties
<1> HIDE DEF q, h, l, x, w, f
<1>6. ASSUME NEW i \in 1 .. h + l PROVE f[i] = q[i]
  <2>1. i \in 1 .. h + Len(w) BY <1>2, <1>3, <1>4, <1>5
  <2>2. CASE i <= h BY <1>3, <1>4, <2>1, <2>2
  <2>3. CASE ~ (i <= h)
    <3>1. i - h \in 1 .. l BY <1>3, <1>4, <2>3
    <3>2. got[i - h] = w[i - h] BY <1>2, <3>1
    <3> QED BY <1>3, <1>4, <2>1, <2>3, <3>2
  <2> QED BY <2>2, <2>3
<1>7. ASSUME NEW i \in 1 .. h PROVE s.head[i] = q[i]
  <2>1. i \in 1 .. h + Len(w) /\ i <= h BY <1>3
  <2> QED BY <1>3, <2>1
<1>8. ASSUME NEW i \in 1 .. Len(x) PROVE x[i] = q[i + (h + l)]
  <2> DEFINE k == i + (h + l)
  <2>1. k \in 1 .. h + Len(w) /\ ~ (k <= h) /\ k - h = i + l BY <1>2, <1>3, <1>4, <1>5
  <2> HIDE DEF k
  <2>2. q[k] = w[k - h] BY <1>3, <2>1
  <2> QED BY <1>2, <2>1, <2>2 DEF k
<1>9. Len(q) = h + l + Len(x)
  <2>1. Len(x) + l = Len(w) /\ Len(q) = h + Len(w) BY <1>2, <1>3
  <2>2. h \in Nat /\ l \in Nat BY <1>3, <1>4
  <2> QED BY <1>5, <2>1, <2>2
<1> QED BY <1>1, <1>3, <1>4, <1>5, <1>6, <1>7, <1>8, <1>9 DEF q, h, l, x, f

LEMMA SoundDropped ==
  ASSUME NEW s, Sound(s), s.state = "RECEIVING_HEADERS", NEW t, NEW got, Taken(s, t, got), got # <<>>
  PROVE  Sound(t) /\ t.state = "RECEIVING_HEADERS" /\ ~ Has100(Unread(t))
<1> DEFINE q == Unread(s)
           h == Len(s.head)
           l == Len(got)
           x == OnWire(t)
           v == Unread(t)
<1>1. DataInv(s) /\ CountInv(s) /\ Shape(s) BY DEF Sound, WInv, DataInv
<1>2. /\ Shape(t) /\ Same([s EXCEPT !.wire = t.wire], t) /\ t.timers = s.timers
      /\ t.is["out"] = s.is["out"] /\ (In(t.events, "response") => In(s.events, "response"))
      /\ t.wire \in Seq(Pieces)
  BY <1>1 DEF Taken, Mild, Does, Shape, Fields
<1>3. /\ t.state = s.state /\ t.wait100 = s.wait100 /\ t.all = s.all /\ t.done = s.done /\ t.nxb = s.nxb
      /\ t.head = s.head /\ t.resp = s.resp /\ t.received = s.received /\ t.chunk = s.chunk
      /\ t.pend = s.pend /\ t.asked = s.asked /\ t.owed = s.owed /\ t.said100 = s.said100
      /\ t.place = s.place /\ t.no = s.no /\ t.size = s.size /\ t.rb_resp = s.rb_resp
      /\ t.eof_resp = s.eof_resp /\ t.via = s.via /\ t.pair = s.pair
      /\ t.room = s.room /\ t.rb_req = s.rb_req /\ t.retry = s.retry
  BY <1>1, <1>2 DEF Same, Core, Shape, Fields
<1>4. /\ q \in Seq(Pieces) /\ h \in Nat /\ l \in Nat /\ Len(x) \in Nat /\ x \in Seq(Pieces)
      /\ Len(q) = h + l + Len(x) /\ \A i \in 1 .. h : s.head[i] = q[i]
      /\ \A i \in 1 .. Len(x) : x[i] = q[i + (h + l)]
  BY <1>1, UnreadMoves
<1>5. l # 0 BY EmptySeq DEF Taken
<1>6. CountInv(t) BY <1>1, <1>2, <1>3 DEF CountInv
<1>7. /\ v \in Seq(Pieces) /\ Len(v) = h + Len(x)
      /\ \A i \in 1 .. h + Len(x) : i <= h => v[i] = s.head[i]
      /\ \A i \in 1 .. h + Len(x) : ~ (i <= h) => v[i] = x[i - h]
  <2>1. v = s.head \o x BY <1>3 DEF Unread
  <2>2. s.head \in Seq(Pieces) BY <1>1 DEF CountInv
  <2> QED BY <1>4, <2>1, <2>2, Joined
<1>8. \A i \in 1 .. h : s.head[i].piece \notin EndsHead BY <1>1 DEF DataInv, BufferInv
<1>9. Announced(q, s.no) BY <1>1 DEF DataInv, UnreadInv, Asked
<1> HIDE DEF q, h, l, x, v
<1>10. Announced(v, s.no) /\ ~ Has100(v) /\ (Only100(q) => Only100(v))
  <2>1. Len(v) + l = Len(q) /\ l \in Nat \ {0} BY <1>4, <1>5, <1>7
  <2>2. ASSUME NEW i \in 1 .. Len(v), i <= h PROVE v[i] = q[i] /\ v[i].piece \notin EndsHead
    <3>1. i \in 1 .. h + Len(x) /\ i \in 1 .. h BY <1>4, <1>7, <2>2
    <3> QED BY <1>4, <1>7, <1>8, <2>2, <3>1
  <2>3. ASSUME NEW i \in 1 .. Len(v), ~ (i <= h) PROVE v[i] = q[i + l]
    <3>1. i \in 1 .. h + Len(x) /\ i - h \in 1 .. Len(x) /\ i - h + (h + l) = i + l BY <1>4, <1>7, <2>3
    <3>2. v[i] = x[i - h] BY <1>7, <2>3, <3>1
    <3>3. x[i - h] = q[i - h + (h + l)] BY <1>4, <3>1
    <3> QED BY <3>1, <3>2, <3>3
  <2> QED BY <1>4, <1>7, <1>9, <2>1, <2>2, <2>3, AnnouncedMoves, ZenonT(60)
<1>11. BoundInv(t) BY <1>1, <1>3 DEF DataInv, BoundInv
<1>12. BufferInv(t) BY <1>1, <1>3 DEF DataInv, BufferInv
<1>13. OweInv(t)
  <2>1. q # <<>>
    <3>1. Len(q) # 0 BY <1>4, <1>5
    <3> QED BY <3>1
  <2> QED BY <1>1, <1>3, <1>10, <2>1 DEF DataInv, OweInv, q, v
<1>14. UnreadInv(t) BY <1>3, <1>10 DEF UnreadInv, v
<1>15. ResponseInv(t) BY <1>1, <1>3 DEF DataInv, ResponseInv
<1>16. ClockInv(t) /\ NewsInv(t) BY <1>2, <1>3 DEF Sound, WInv, ClockInv, NewsInv
<1> QED BY <1>2, <1>3, <1>6, <1>10, <1>11, <1>12, <1>13, <1>14, <1>15, <1>16 DEF Sound, WInv, DataInv, v

LEMMA SoundBad == ASSUME NEW s, Sound(s) PROVE Sound(BadResponse(s))
<1> DEFINE a == nxe_unset_timer(s, "read")
           b == nxe_ostream_unset_ready(a, "in")
<1>0. "in" \in Streams /\ "error" \in Events \ {"response"} BY DEF Streams, Events, Messages, HcpMessages
<1>1. Sound(a) BY SoundTimers
<1> HIDE DEF a
<1>2. Sound(b) BY <1>0, <1>1, SoundStreams
<1> HIDE DEF b
<1>3. Sound(nxe_publish(b, "error")) BY <1>0, <1>2, SoundPublish
<1> QED BY <1>3 DEF BadResponse, a, b

(* A part of the head is added to what was read before.                    *)
LEMMA SoundPart ==
  ASSUME NEW s, Sound(s), s.state = "RECEIVING_HEADERS", NEW t, NEW got, Taken(s, t, got),
         Len(s.head \o got) <= HeadRoom,
         \A i \in 1 .. Len(s.head \o got) : (s.head \o got)[i].piece \notin EndsHead,
         NEW u, u = [t EXCEPT !.head = s.head \o got]
  PROVE  Sound(u)
<1> DEFINE q == Unread(s)
           f == s.head \o got
           h == Len(s.head)
           l == Len(got)
           x == OnWire(t)
<1>1. DataInv(s) /\ CountInv(s) /\ Shape(s) BY DEF Sound, WInv, DataInv
<1>2. /\ Shape(t) /\ Same([s EXCEPT !.wire = t.wire], t) /\ t.timers = s.timers
      /\ t.is["out"] = s.is["out"] /\ (In(t.events, "response") => In(s.events, "response"))
      /\ t.wire \in Seq(Pieces)
  BY <1>1 DEF Taken, Mild, Does, Shape, Fields
<1>3. /\ DOMAIN u = Fields /\ u.events = t.events /\ u.is = t.is /\ u.os = t.os /\ u.timers = t.timers
      /\ u.head = f /\ Same([t EXCEPT !.head = f], u)
  BY <1>2 DEF Same, Core, Shape, Fields
<1>4. Shape(u) BY <1>2, <1>3 DEF Shape
<1>5. /\ u.state = s.state /\ u.wait100 = s.wait100 /\ u.all = s.all /\ u.done = s.done /\ u.nxb = s.nxb
      /\ u.resp = s.resp /\ u.received = s.received /\ u.chunk = s.chunk
      /\ u.pend = s.pend /\ u.asked = s.asked /\ u.owed = s.owed /\ u.said100 = s.said100
      /\ u.place = s.place /\ u.no = s.no /\ u.size = s.size /\ u.rb_resp = s.rb_resp
      /\ u.eof_resp = s.eof_resp /\ u.via = s.via /\ u.pair = s.pair
      /\ u.room = s.room /\ u.rb_req = s.rb_req /\ u.retry = s.retry
      /\ u.wire = t.wire /\ t.pend = s.pend
  BY <1>1, <1>2, <1>3 DEF Same, Core, Shape, Fields
<1>6. /\ q \in Seq(Pieces) /\ h \in Nat /\ l \in Nat /\ Len(x) \in Nat /\ x \in Seq(Pieces)
      /\ Len(q) = h + l + Len(x) /\ \A i \in 1 .. h + l : f[i] = q[i]
      /\ \A i \in 1 .. Len(x) : x[i] = q[i + (h + l)]
      /\ f \in Seq(Pieces) /\ Len(f) = h + l
  BY <1>1, UnreadMoves
<1>7. Unread(u) = f \o x BY <1>3, <1>5 DEF Unread, OnWire
<1>8. /\ f \o x \in Seq(Pieces) /\ Len(f \o x) = Len(f) + Len(x)
      /\ \A i \in 1 .. Len(f) + Len(x) : i <= Len(f) => (f \o x)[i] = f[i]
      /\ \A i \in 1 .. Len(f) + Len(x) : ~ (i <= Len(f)) => (f \o x)[i] = x[i - Len(f)]
  BY <1>6, Joined
<1> HIDE DEF q, f, h, l, x
<1>9. f \o x = q
  <2>1. Len(f \o x) = Len(q) BY <1>6, <1>8
  <2>2. ASSUME NEW i \in 1 .. Len(q) PROVE (f \o x)[i] = q[i]
    <3>1. i \in 1 .. Len(f) + Len(x) BY <1>6, <1>8, <2>1
    <3>2. CASE i <= Len(f)
      <4>1. i \in 1 .. h + l BY <1>6, <3>1, <3>2
      <4> QED BY <1>6, <1>8, <3>1, <3>2, <4>1
    <3>3. CASE ~ (i <= Len(f))
      <4> DEFINE k == i - Len(f)
      <4>1. k \in 1 .. Len(x) /\ k + (h + l) = i BY <1>6, <3>1, <3>3, SMTT(30)
      <4>2. (f \o x)[i] = x[k] BY <1>8, <3>1, <3>3
      <4> HIDE DEF k
      <4> QED BY <1>6, <4>1, <4>2
    <3> QED BY <3>2, <3>3
  <2> QED BY <1>6, <1>8, <2>1, <2>2, SeqEqual
<1>10. BoundInv(u) BY <1>1, <1>5 DEF DataInv, BoundInv
<1>11. CountInv(u) BY <1>1, <1>2, <1>3, <1>5, <1>6 DEF CountInv
<1>12. BufferInv(u) BY <1>1, <1>3, <1>5 DEF DataInv, BufferInv, f
<1>13. OweInv(u) /\ UnreadInv(u) BY <1>1, <1>5, <1>7, <1>9 DEF DataInv, OweInv, UnreadInv, q
<1>14. ResponseInv(u) BY <1>1, <1>5 DEF DataInv, ResponseInv
<1>15. ClockInv(u) /\ NewsInv(u) BY <1>2, <1>3, <1>5 DEF Sound, WInv, ClockInv, NewsInv
<1> QED BY <1>4, <1>10, <1>11, <1>12, <1>13, <1>14, <1>15 DEF Sound, WInv, DataInv

(* What is left on the wire when the head, and what came with it, is gone. *)
LEMMA HeadDropped ==
  ASSUME NEW s, CountInv(s), NEW t, NEW got, Taken(s, t, got), got # <<>>, Announced(Unread(s), s.no)
  PROVE  LET x == OnWire(t)
         IN  /\ x \in Seq(Pieces) /\ Announced(x, s.no) /\ ~ Has100(x)
             /\ (Only100(Unread(s)) => Only100(x)) /\ Unread(s) # <<>>
<1> DEFINE q == Unread(s)
           h == Len(s.head)
           l == Len(got)
           x == OnWire(t)
<1>1. /\ q \in Seq(Pieces) /\ h \in Nat /\ l \in Nat /\ Len(x) \in Nat /\ x \in Seq(Pieces)
      /\ Len(q) = h + l + Len(x) /\ \A i \in 1 .. Len(x) : x[i] = q[i + (h + l)]
  <2>1. /\ q \in Seq(Pieces) /\ h \in Nat /\ l \in Nat /\ Len(x) \in Nat /\ x \in Seq(Pieces)
        /\ Len(q) = h + l + Len(x)
        /\ \A i \in 1 .. h + l : (s.head \o got)[i] = q[i]
        /\ \A i \in 1 .. h : s.head[i] = q[i]
        /\ \A i \in 1 .. Len(x) : x[i] = q[i + (h + l)]
        /\ s.head \o got \in Seq(Pieces) /\ Len(s.head \o got) = h + l
    BY UnreadMoves, Zenon
  <2> HIDE DEF q, h, l, x
  <2> QED BY <2>1
<1>2. l # 0 BY EmptySeq DEF Taken
<1>3. Announced(q, s.no) OBVIOUS
<1> HIDE DEF q, h, l, x
<1>4. h + l \in Nat \ {0} /\ Len(x) + (h + l) = Len(q) /\ 0 \in Nat BY <1>1, <1>2
<1>5. \A i \in 1 .. Len(x) : ~ (i <= 0) BY <1>1
<1>6. Announced(x, s.no) /\ ~ Has100(x) /\ (Only100(q) => Only100(x))
  BY <1>1, <1>3, <1>4, <1>5, AnnouncedMoves
<1>7. q # <<>>
  <2>1. Len(q) # 0 BY <1>1, <1>2
  <2> QED BY <2>1
<1> QED BY <1>1, <1>6, <1>7 DEF q, x

LEMMA SoundContinue ==
  ASSUME NEW s, Sound(s), s.state = "RECEIVING_HEADERS", NEW r, NEW got, Taken(s, r, got), got # <<>>
  PROVE  Sound(Continue(r))
<1> DEFINE a == nxe_ostream_unset_ready(r, "in")
           b == nxe_unset_timer(a, "read")
           c == nxe_set_timer(b, "write")
           u == nxe_istream_set_ready(c, "out")
           t == [u EXCEPT !.state = "SENDING_BODY", !.wait100 = FALSE, !.head = <<>>]
<1>0. "in" \in Streams BY DEF Streams
<1>1. Continue(r) = t BY DEF Continue
<1>2. Sound(r) /\ r.state = "RECEIVING_HEADERS" BY SoundDropped
<1>3. Mild(r, a) BY <1>0, <1>2, MildUnsetOutput DEF Sound
<1> HIDE DEF a
<1>4. Does(a, b) /\ b.timers = a.timers \ {"read"} BY <1>3, MildShape, TimerOff
<1> HIDE DEF b
<1>5. Does(b, c) /\ c.timers = b.timers \cup {"write"} BY <1>4, TimerOn DEF Does
<1> HIDE DEF c
<1>6. Does(c, u) /\ u.timers = c.timers BY <1>5, OutputOn DEF Does
<1> HIDE DEF u
<1>7. Does(r, u) /\ u.timers = (r.timers \ {"read"}) \cup {"write"}
  BY <1>3, <1>4, <1>5, <1>6 DEF Mild, Does, Same, Core
<1>8. DataInv(u) /\ Shape(u) BY <1>2, <1>7, SameData DEF Does, Sound, WInv
<1>9. u.state = "RECEIVING_HEADERS" /\ OnWire(u) = OnWire(r) /\ ~ In(u.events, "response")
  BY <1>2, <1>7 DEF Does, Same, Core, OnWire, Sound, WInv, NewsInv, Answering
<1>10. /\ DOMAIN t = Fields /\ t.events = u.events /\ t.is = u.is /\ t.os = u.os /\ t.timers = u.timers
       /\ t.state = "SENDING_BODY" /\ ~ t.wait100 /\ t.head = <<>>
       /\ Same([t EXCEPT !.state = u.state, !.wait100 = u.wait100, !.head = u.head], u)
  BY <1>8 DEF Shape, Fields, Same, Core
<1> HIDE DEF t
<1>11. Shape(t) BY <1>8, <1>10 DEF Shape
<1>12. OnWire(t) = OnWire(r) BY <1>9, <1>10 DEF OnWire, Same, Core, Fields
<1>13. BoundInv(t) /\ CountInv(t)
  <2>1. <<>> \in Seq(Pieces) OBVIOUS
  <2> QED BY <1>8, <1>10, <2>1 DEF Same, Core, Fields, DataInv, BoundInv, CountInv, HcpStates
<1>14. BufferInv(t)
  <2>1. Len(<<>>) = 0 /\ 0 <= HeadRoom BY RoomAssumption, ProxyAssumption
  <2>2. /\ \A i \in 1 .. Len(t.head) : t.head[i].piece \notin EndsHead
        /\ Len(t.head) <= HeadRoom
    BY <1>10, <2>1
  <2>3. t.chunk = u.chunk /\ t.place = u.place /\ t.rb_resp = u.rb_resp BY <1>10 DEF Same, Core, Fields
  <2>4. u.chunk = NoChunk /\ (u.place = "used" => u.rb_resp = 0)
    BY <1>8, <1>9 DEF DataInv, BufferInv, Answering
  <2> QED BY <1>10, <2>2, <2>3, <2>4 DEF BufferInv
<1>15. /\ Announced(OnWire(t), t.no) /\ ~ Has100(OnWire(t)) /\ Unread(t) = OnWire(t)
       /\ t.no = s.no /\ t.asked = s.asked /\ t.owed = s.owed /\ t.said100 = s.said100 /\ t.size = s.size
       /\ (Only100(Unread(s)) => Only100(OnWire(t))) /\ Unread(s) # <<>>
  <2>1. CountInv(s) /\ Announced(Unread(s), s.no) BY DEF Sound, WInv, DataInv, UnreadInv, Asked
  <2>2. /\ OnWire(r) \in Seq(Pieces) /\ Announced(OnWire(r), s.no) /\ ~ Has100(OnWire(r))
        /\ (Only100(Unread(s)) => Only100(OnWire(r))) /\ Unread(s) # <<>>
    BY <2>1, HeadDropped
  <2>3. /\ t.no = s.no /\ t.asked = s.asked /\ t.owed = s.owed /\ t.said100 = s.said100 /\ t.size = s.size
    <3>1. /\ r.no = s.no /\ r.asked = s.asked /\ r.owed = s.owed /\ r.said100 = s.said100 /\ r.size = s.size
      BY DEF Taken, Mild, Does, Same, Core, Sound, Shape, Fields
    <3>2. /\ u.no = s.no /\ u.asked = s.asked /\ u.owed = s.owed /\ u.said100 = s.said100 /\ u.size = s.size
      BY <1>7, <3>1 DEF Does, Same, Core
    <3> QED BY <1>10, <3>2 DEF Same, Core, Fields
  <2>4. Unread(t) = OnWire(t)
    <3>1. OnWire(t) \in Seq(Pieces) BY <1>12, <2>2
    <3> QED BY <1>10, <3>1, ConcatEmptySeq DEF Unread
  <2> QED BY <1>12, <2>2, <2>3, <2>4
<1>16. OweInv(t) BY <1>10, <1>15 DEF Sound, WInv, DataInv, OweInv, Asked
<1>17. UnreadInv(t) BY <1>10, <1>15 DEF UnreadInv
<1>18. ResponseInv(t) BY <1>8, <1>9, <1>10 DEF Same, Core, Fields, DataInv, ResponseInv, Answering
<1>19. ClockInv(t)
  <2>1. Clocks(r.state) = {"backend", "read"} BY <1>2 DEF Clocks, Sending
  <2>2. Clocks(t.state) = {"backend", "write"} BY <1>10 DEF Clocks, Sending
  <2>3. r.timers \subseteq {"backend", "read"} BY <1>2, <2>1 DEF Sound, WInv, ClockInv
  <2> QED BY <1>7, <1>10, <2>2, <2>3 DEF ClockInv, Sending
<1>20. NewsInv(t) BY <1>9, <1>10 DEF NewsInv
<1> QED BY <1>1, <1>11, <1>13, <1>14, <1>16, <1>17, <1>18, <1>19, <1>20 DEF Sound, WInv, DataInv

(* As Mild, but a response may be reported.                                *)
Plain(s, t) == Shape(t) /\ Same(s, t) /\ t.timers = s.timers /\ t.is["out"] = s.is["out"]

LEMMA PlainTransitive == ASSUME NEW s, NEW t, NEW u, Plain(s, t), Plain(t, u) PROVE Plain(s, u)
BY DEF Plain, Same, Core

LEMMA PlainMild == ASSUME NEW s, NEW t, Mild(s, t) PROVE Plain(s, t)
BY DEF Plain, Mild, Does

LEMMA PlainPublish == ASSUME NEW s, Shape(s), NEW m \in Events PROVE Plain(s, nxe_publish(s, m))
<1> DEFINE t == nxe_publish(s, m)
<1>1. /\ DOMAIN t = Fields /\ Same(s, t) /\ t.events = Append(s.events, m)
      /\ t.timers = s.timers /\ t.is = s.is /\ t.os = s.os
  BY DEF nxe_publish, Shape, Fields, Same, Core
<1> HIDE DEF t
<1>2. t.events \in Seq(Events) BY <1>1, Appended DEF Shape
<1>3. Plain(s, t) BY <1>1, <1>2 DEF Plain, Shape
<1> QED BY <1>3 DEF t

(* What the head of a response and the "rest" of its body change.          *)
LEMMA Hears ==
  ASSUME NEW s, Shape(s), NEW r, NEW rest, r.size \in Nat, Content(rest) \in Nat
  PROVE  LET t == ResponseReceived(s, r, rest)
         IN  /\ Shape(t) /\ t.timers = s.timers /\ t.is["out"] = s.is["out"]
             /\ t.state = "RECEIVING_BODY" /\ t.resp = r /\ t.received = 0 /\ t.head = <<>>
             /\ t.chunk = IF rest = <<>> THEN NoChunk ELSE Content(rest)
             /\ t.all => \/ s.all \/ (Chunked(r) /\ Holds(rest, "end"))
                         \/ ~ Chunked(r) /\ ~ UntilClose(r) /\ Content(rest) >= r.size
             /\ t.pend = s.pend /\ t.asked = s.asked /\ t.owed = s.owed /\ t.place = s.place
             /\ t.no = s.no /\ t.size = s.size /\ t.rb_resp = s.rb_resp /\ t.eof_resp = s.eof_resp
             /\ t.via = s.via /\ t.pair = s.pair /\ t.nxb = s.nxb /\ t.done = s.done /\ t.wire = s.wire
             /\ t.room = s.room /\ t.rb_req = s.rb_req /\ t.retry = s.retry
<1> DEFINE k == IF rest = <<>> THEN NoChunk ELSE Content(rest)
           t == [s EXCEPT !.resp = r, !.received = 0, !.head = <<>>, !.wait100 = FALSE, !.chunk = k]
           e == nxe_publish(t, "error")
           u == IF s.wait100 THEN e ELSE t
           v == Decoded(u, rest)
           g == rest # <<>> /\ Enough(t, Content(rest))
           w == [v EXCEPT !.all = @ \/ g]
           o == nxe_ostream_unset_ready(w, "in")
           y == nxe_publish(o, "response")
           b == [y EXCEPT !.state = "RECEIVING_BODY"]
           z == nxe_istream_set_ready(b, "resp")
           d == nxe_ostream_set_ready(z, "in")
           f == IF "resp" \in z.pair THEN d ELSE z
<1>0. /\ "in" \in Streams /\ "resp" \in Streams \ {"out"} /\ "error" \in Events \ {"response"}
      /\ "response" \in Events
  BY DEF Streams, Events, Messages, HcpMessages
<1>1. ResponseReceived(s, r, rest) = f BY DEF ResponseReceived
<1> HIDE DEF k
<1>2. /\ DOMAIN t = Fields /\ t.events = s.events /\ t.is = s.is /\ t.os = s.os /\ t.timers = s.timers
      /\ t.resp = r /\ t.received = 0 /\ t.head = <<>> /\ t.chunk = k /\ t.all = s.all
      /\ t.pend = s.pend /\ t.asked = s.asked /\ t.owed = s.owed /\ t.place = s.place
      /\ t.no = s.no /\ t.size = s.size /\ t.rb_resp = s.rb_resp /\ t.eof_resp = s.eof_resp
      /\ t.via = s.via /\ t.pair = s.pair /\ t.nxb = s.nxb /\ t.done = s.done /\ t.wire = s.wire
      /\ t.room = s.room /\ t.rb_req = s.rb_req /\ t.retry = s.retry
  BY DEF Shape, Fields
<1>3. g => ~ Chunked(r) /\ ~ UntilClose(r) /\ Content(rest) >= r.size
  <2>1. g => ~ Chunked(r) /\ ~ UntilClose(r) /\ 0 + Content(rest) >= r.size BY <1>2 DEF Enough
  <2> QED BY <2>1
<1> HIDE DEF t, g
<1>4. Shape(t) BY <1>2 DEF Shape
<1>5. Plain(t, u) BY <1>0, <1>4, MildPublish, MildReflexive, PlainMild
<1> HIDE DEF u
<1>6. /\ Mild([u EXCEPT !.all = v.all], v)
      /\ v.all <=> u.all \/ (Chunked(u.resp) /\ ~ Holds(rest, "junk") /\ Holds(rest, "end"))
  BY <1>5, DecodedPieces DEF Plain
<1> HIDE DEF v
<1>7. Shape(v) /\ Shape(u) BY <1>5, <1>6 DEF Mild, Does, Plain
<1>8. /\ DOMAIN w = Fields /\ w.events = v.events /\ w.is = v.is /\ w.os = v.os /\ w.timers = v.timers
      /\ (w.all <=> v.all \/ g) /\ Same([v EXCEPT !.all = w.all], w)
  BY <1>7 DEF Shape, Fields, Same, Core
<1> HIDE DEF w
<1>9. Shape(w) BY <1>7, <1>8 DEF Shape
<1>10. Plain(w, o) BY <1>0, <1>9, MildUnsetOutput, PlainMild
<1> HIDE DEF o
<1>11. Plain(o, y) BY <1>0, <1>10, PlainPublish DEF Plain
<1> HIDE DEF y
<1>12. Plain(w, y) BY <1>10, <1>11, PlainTransitive
<1>13. /\ DOMAIN b = Fields /\ b.events = y.events /\ b.is = y.is /\ b.os = y.os /\ b.timers = y.timers
       /\ b.state = "RECEIVING_BODY" /\ Same([y EXCEPT !.state = "RECEIVING_BODY"], b)
  BY <1>12 DEF Plain, Shape, Fields, Same, Core
<1> HIDE DEF b
<1>14. Shape(b) BY <1>12, <1>13 DEF Plain, Shape
<1>15. Plain(b, z) BY <1>0, <1>14, MildSetInput, PlainMild
<1> HIDE DEF z
<1>16. Plain(z, d) BY <1>0, <1>15, MildSetOutput, PlainMild DEF Plain
<1> HIDE DEF d
<1>17. Plain(b, f) BY <1>15, <1>16, PlainTransitive
<1> HIDE DEF f
<1>18. f.timers = s.timers /\ f.is["out"] = s.is["out"] /\ Shape(f)
  <2>1. v.timers = u.timers /\ v.is["out"] = u.is["out"] BY <1>6, <1>7 DEF Mild, Does, Shape, Fields
  <2>2. u.timers = s.timers /\ u.is["out"] = s.is["out"] BY <1>2, <1>5 DEF Plain
  <2>3. b.timers = w.timers /\ b.is["out"] = w.is["out"] BY <1>12, <1>13 DEF Plain
  <2> QED BY <1>8, <1>17, <2>1, <2>2, <2>3 DEF Plain
<1>19. Same([t EXCEPT !.all = w.all], w)
  <2>1. Same(t, u) /\ DOMAIN t = Fields BY <1>2, <1>5 DEF Plain
  <2>2. Same([u EXCEPT !.all = v.all], v) BY <1>6 DEF Mild, Does
  <2> QED BY <1>7, <1>8, <2>1, <2>2 DEF Same, Core, Shape, Fields
<1>20. Same([w EXCEPT !.state = "RECEIVING_BODY"], f)
  <2>1. Same(w, y) /\ DOMAIN y = Fields /\ Same(b, f) BY <1>12, <1>17 DEF Plain, Shape
  <2> QED BY <1>9, <1>13, <2>1 DEF Same, Core, Shape, Fields
<1>21. f.all => s.all \/ (Chunked(r) /\ Holds(rest, "end")) \/ g
  <2>1. u.all = s.all /\ u.resp = r BY <1>2, <1>5 DEF Plain, Same, Core
  <2>2. f.all = w.all BY <1>9, <1>20 DEF Same, Core, Shape, Fields
  <2> QED BY <1>6, <1>8, <2>1, <2>2
<1>22. /\ w.resp = r /\ w.received = 0 /\ w.head = <<>> /\ w.chunk = k
       /\ w.pend = s.pend /\ w.asked = s.asked /\ w.owed = s.owed /\ w.place = s.place
       /\ w.no = s.no /\ w.size = s.size /\ w.rb_resp = s.rb_resp /\ w.eof_resp = s.eof_resp
       /\ w.via = s.via /\ w.pair = s.pair /\ w.nxb = s.nxb /\ w.done = s.done /\ w.wire = s.wire
       /\ w.room = s.room /\ w.rb_req = s.rb_req /\ w.retry = s.retry
  BY <1>2, <1>19 DEF Same, Core, Fields
<1>23. /\ f.resp = r /\ f.received = 0 /\ f.head = <<>> /\ f.chunk = k /\ f.state = "RECEIVING_BODY"
       /\ f.pend = s.pend /\ f.asked = s.asked /\ f.owed = s.owed /\ f.place = s.place
       /\ f.no = s.no /\ f.size = s.size /\ f.rb_resp = s.rb_resp /\ f.eof_resp = s.eof_resp
       /\ f.via = s.via /\ f.pair = s.pair /\ f.nxb = s.nxb /\ f.done = s.done /\ f.wire = s.wire
       /\ f.room = s.room /\ f.rb_req = s.rb_req /\ f.retry = s.retry
  BY <1>9, <1>20, <1>22 DEF Same, Core, Shape, Fields
<1> QED BY <1>1, <1>3, <1>18, <1>21, <1>23 DEF k

LEMMA SoundHeard ==
  ASSUME NEW s, Sound(s), s.state = "RECEIVING_HEADERS", s.place = "used",
         NEW t, NEW got, Taken(s, t, got), Len(s.head \o got) <= HeadRoom,
         NEW i \in 1 .. Len(s.head \o got), (s.head \o got)[i].piece = "head"
  PROVE  LET f == s.head \o got
         IN  Sound(ResponseReceived(t, f[i], SubSeq(f, i + 1, Len(f))))
<1> DEFINE q == Unread(s)
           f == s.head \o got
           h == Len(s.head)
           l == Len(got)
           x == OnWire(t)
           r == f[i]
           rest == SubSeq(f, i + 1, Len(f))
           C == Content(rest)
           c == Len(rest)
           u == ResponseReceived(t, r, rest)
<1>1. DataInv(s) /\ CountInv(s) /\ Shape(s) BY DEF Sound, WInv, DataInv
<1>2. /\ Shape(t) /\ Same([s EXCEPT !.wire = t.wire], t) /\ t.timers = s.timers
      /\ t.is["out"] = s.is["out"] /\ t.wire \in Seq(Pieces)
  BY <1>1 DEF Taken, Mild, Does, Shape, Fields
<1>3. /\ t.all = s.all /\ t.done = s.done /\ t.nxb = s.nxb
      /\ t.pend = s.pend /\ t.asked = s.asked /\ t.owed = s.owed
      /\ t.place = s.place /\ t.no = s.no /\ t.size = s.size /\ t.rb_resp = s.rb_resp
      /\ t.eof_resp = s.eof_resp /\ t.via = s.via /\ t.pair = s.pair
      /\ t.room = s.room /\ t.rb_req = s.rb_req /\ t.retry = s.retry
  BY <1>1, <1>2 DEF Same, Core, Shape, Fields
<1>4. /\ q \in Seq(Pieces) /\ h \in Nat /\ l \in Nat /\ Len(x) \in Nat /\ x \in Seq(Pieces)
      /\ Len(q) = h + l + Len(x) /\ \A j \in 1 .. h + l : f[j] = q[j]
      /\ \A j \in 1 .. Len(x) : x[j] = q[j + (h + l)]
      /\ f \in Seq(Pieces) /\ Len(f) = h + l
  BY <1>1, UnreadMoves
<1>5. i \in 1 .. Len(f) /\ r.piece = "head" /\ Len(f) <= HeadRoom OBVIOUS
<1>6. Announced(q, s.no) /\ (s.owed => Only100(q)) BY <1>1 DEF DataInv, UnreadInv, OweInv, Asked
<1> HIDE DEF q, f, h, l, x
<1>7. i \in 1 .. h + l /\ i \in Nat /\ i \in 1 .. Len(q) /\ r = q[i] BY <1>4, <1>5
<1>8. rest \in Seq(Pieces) /\ c = h + l - i /\ c \in Nat /\ \A j \in 1 .. c : rest[j] = q[i + j]
  <2>1. i + 1 \in 1 .. Len(f) + 1 /\ Len(f) \in i + 1 - 1 .. Len(f) BY <1>4, <1>5
  <2>2. /\ rest \in Seq(Pieces) /\ c = Len(f) - (i + 1) + 1
        /\ \A j \in 1 .. Len(f) - (i + 1) + 1 : rest[j] = f[i + 1 + j - 1]
    BY <1>4, <2>1, SubSeqProperties
  <2>3. c = h + l - i /\ c \in Nat BY <1>4, <1>7, <2>2, SMTT(30)
  <2> HIDE DEF rest, c
  <2>4. ASSUME NEW j \in 1 .. c PROVE rest[j] = q[i + j]
    <3>1. j \in 1 .. Len(f) - (i + 1) + 1 /\ i + 1 + j - 1 = i + j /\ i + j \in 1 .. h + l
      BY <1>4, <1>7, <2>2, <2>3
    <3> QED BY <1>4, <2>2, <3>1
  <2> QED BY <2>2, <2>3, <2>4 DEF c, rest
<1>9. r.no = s.no /\ Behind(r, 0, q, i) /\ ~ s.owed
  <2>1. q[i].piece = "head" BY <1>5, <1>7
  <2>2. ~ Only100(q) BY <1>7, <2>1 DEF Only100
  <2> QED BY <1>6, <1>7, <2>1, <2>2 DEF Announced
<1>10. r \in Pieces /\ r.size \in Nat
  <2>1. r \in Pieces BY <1>4, <1>7, ElementOfSeq
  <2> QED BY <2>1 DEF Pieces
<1> HIDE DEF r, rest, c
<1>11. /\ C \in 0 .. c
       /\ i + c < Len(q) \/ ~ Chunked(r) => C = c
       /\ Chunked(r) /\ Holds(rest, "end") => i + c = Len(q) /\ 0 + C = r.size
  <2>1. i + c <= Len(q) BY <1>4, <1>7, <1>8
  <2>2. /\ q \in Seq(Pieces) /\ rest \in Seq(Pieces) /\ i \in Nat /\ 0 \in Nat /\ r.size \in Nat
        /\ i + Len(rest) <= Len(q) /\ \A j \in 1 .. Len(rest) : rest[j] = q[i + j]
        /\ Behind(r, 0, q, i)
    BY <1>4, <1>7, <1>8, <1>9, <1>10, <2>1 DEF c
  <2>3. /\ Content(rest) \in 0 .. Len(rest)
        /\ i + Len(rest) < Len(q) \/ ~ Chunked(r) => Content(rest) = Len(rest)
        /\ Chunked(r) /\ Holds(rest, "end") => i + Len(rest) = Len(q) /\ 0 + Content(rest) = r.size
    BY <2>2, ContentRead, SMTT(30)
  <2> QED BY <2>3 DEF c
<1>12. Behind(r, 0 + c, x, 0)
  <2>0. /\ h \in Nat /\ l \in Nat /\ Len(x) \in Nat /\ Len(q) = h + l + Len(x)
        /\ i \in Nat /\ c \in Nat /\ c = h + l - i
    BY <1>4, <1>7, <1>8
  <2>1. Len(x) + (h + l) = Len(q) /\ 0 + (h + l) = i + c /\ h + l \in Int BY <2>0
  <2>2. \A j \in 0 + 1 .. Len(x) : x[j] = q[j + (h + l)] BY <1>4
  <2> QED BY <1>4, <1>7, <1>8, <1>9, <1>10, <2>1, <2>2, BehindMoves
<1> HIDE DEF C
<1>13. Behind(r, C, x, 0)
  <2>1. CASE C = c
    <3>1. 0 + c = C BY <1>8, <2>1
    <3> QED BY <1>12, <3>1
  <2>2. CASE C # c
    <3>1. Chunked(r) /\ Len(x) = 0 BY <1>4, <1>7, <1>8, <1>11, <2>2
    <3>2. x = <<>> BY <1>4, <3>1, EmptySeq
    <3>3. C \in Nat BY <1>8, <1>11
    <3> QED BY <1>10, <3>1, <3>2, <3>3, BehindNothing
  <2> QED BY <2>1, <2>2
<1>14. C \in Nat /\ C <= RbufSize
  <2>1. HeadRoom \in Nat /\ RbufSize \in Nat /\ HeadRoom <= RbufSize + 1
    BY RoomAssumption, ProxyAssumption
  <2>2. C <= h + l - i /\ h + l <= HeadRoom /\ i >= 1 BY <1>4, <1>5, <1>7, <1>8, <1>11
  <2> QED BY <1>4, <1>7, <1>8, <1>11, <2>1, <2>2
<1>15. /\ Shape(u) /\ u.timers = t.timers /\ u.is["out"] = t.is["out"]
       /\ u.state = "RECEIVING_BODY" /\ u.resp = r /\ u.received = 0 /\ u.head = <<>>
       /\ u.chunk = IF rest = <<>> THEN NoChunk ELSE C
       /\ u.all => \/ t.all \/ (Chunked(r) /\ Holds(rest, "end"))
                   \/ ~ Chunked(r) /\ ~ UntilClose(r) /\ C >= r.size
       /\ u.pend = t.pend /\ u.asked = t.asked /\ u.owed = t.owed /\ u.place = t.place
       /\ u.no = t.no /\ u.size = t.size /\ u.rb_resp = t.rb_resp /\ u.eof_resp = t.eof_resp
       /\ u.via = t.via /\ u.pair = t.pair /\ u.nxb = t.nxb /\ u.done = t.done /\ u.wire = t.wire
       /\ u.room = t.room /\ u.rb_req = t.rb_req /\ u.retry = t.retry
  BY <1>2, <1>10, <1>14, Hears DEF C
<1> HIDE DEF u
<1>16. u.chunk \in Nat \cup {NoChunk} /\ FirstChunk(u) = C /\ (u.chunk # NoChunk => u.chunk <= RbufSize)
  <2>1. CASE rest = <<>>
    <3>1. c = 0 BY <2>1 DEF c
    <3>2. C = 0 BY <1>11, <3>1
    <3> QED BY <1>15, <2>1, <3>2 DEF FirstChunk
  <2>2. CASE rest # <<>>
    <3>1. C # NoChunk BY <1>14 DEF NoChunk
    <3> QED BY <1>14, <1>15, <2>2, <3>1 DEF FirstChunk
  <2> QED BY <2>1, <2>2
<1>17. BoundInv(u) BY <1>1, <1>3, <1>15 DEF DataInv, BoundInv
<1>18. CountInv(u)
  <2>1. <<>> \in Seq(Pieces) /\ 0 \in Nat OBVIOUS
  <2> QED BY <1>1, <1>2, <1>3, <1>10, <1>15, <1>16, <2>1 DEF CountInv, HcpStates
<1>19. u.place = "used" /\ u.rb_resp = 0 /\ ~ u.owed /\ ~ s.all /\ ~ u.done /\ ~ u.eof_resp /\ r.no = u.no
  BY <1>1, <1>3, <1>9, <1>15 DEF DataInv, BufferInv, ResponseInv, Answering
<1>20. BufferInv(u)
  <2>1. Len(<<>>) = 0 /\ 0 <= HeadRoom BY RoomAssumption, ProxyAssumption
  <2>2. /\ \A j \in 1 .. Len(u.head) : u.head[j].piece \notin EndsHead
        /\ Len(u.head) <= HeadRoom
    BY <1>15, <2>1
  <2> QED BY <1>15, <1>16, <1>19, <2>2 DEF BufferInv
<1>21. OweInv(u) BY <1>19 DEF OweInv
<1>22. OnWire(u) = x BY <1>15 DEF OnWire, x
<1>23. ASSUME u.all, ~ UntilClose(r) PROVE x = <<>> /\ C = r.size
  <2>1. CASE Chunked(r) /\ Holds(rest, "end")
    <3>1. Len(x) = 0 /\ C = r.size BY <1>4, <1>7, <1>8, <1>11, <2>1
    <3> QED BY <1>4, <3>1, EmptySeq
  <2>2. CASE ~ Chunked(r) /\ C >= r.size
    <3>1. C + (Len(x) - 0) <= r.size BY <1>13, <2>2 DEF Behind
    <3>2. Len(x) = 0 /\ C = r.size BY <1>4, <1>10, <1>14, <2>2, <3>1
    <3> QED BY <1>4, <3>2, EmptySeq
  <2> QED BY <1>3, <1>15, <1>19, <1>23, <2>1, <2>2
<1>24. UnreadInv(u)
  <2>1. u.received + FirstChunk(u) = C BY <1>14, <1>15, <1>16
  <2> QED BY <1>13, <1>15, <1>22, <1>23, <2>1 DEF UnreadInv, Asked
<1>25. ResponseInv(u) BY <1>15, <1>19 DEF ResponseInv, Answering
<1>26. ClockInv(u)
  <2>1. Clocks(u.state) = {"backend", "read"} /\ Clocks(s.state) = {"backend", "read"}
    BY <1>15 DEF Clocks, Sending
  <2> QED BY <1>2, <1>15, <2>1 DEF Sound, WInv, ClockInv, Sending
<1>27. NewsInv(u) BY <1>15, <1>19 DEF NewsInv, Answering
<1>28. Sound(u)
  BY <1>15, <1>17, <1>18, <1>20, <1>21, <1>24, <1>25, <1>26, <1>27 DEF Sound, WInv, DataInv
<1> QED BY <1>28 DEF u, r, rest, f

LEMMA LeastNumber ==
  ASSUME NEW S, S \subseteq Nat, S # {} PROVE \E j \in S : \A k \in S : j <= k
<1>1. PICK x \in S : \A y \in S : ~ (<<y, x>> \in OpToRel(<, Nat))
  BY NatLessThanWellFounded, WFMin
<1>2. \A y \in S : y \in Nat /\ ~ (y < x) BY <1>1 DEF OpToRel
<1> QED BY <1>2

LEMMA SoundHead ==
  ASSUME NEW s, Sound(s), s.state = "RECEIVING_HEADERS", s.place = "used" PROVE Sound(ReadHeaders(s))
<1> DEFINE size == HeadRoom - Len(s.head)
           t == sock_data_recv_read(s, size)
           got == Got(s, size)
           head == s.head \o got
           ends == {i \in 1 .. Len(head) : head[i].piece \in {"head", "100", "bad"}}
           i == CHOOSE j \in ends : \A k \in ends : j <= k
           e == head[i]
           rest == SubSeq(head, i + 1, Len(head))
           g == [t EXCEPT !.head = head]
<1>0. ReadHeaders(s) =
        CASE got = <<>> -> t
          [] got # <<>> /\ ends = {} ->
               IF Len(head) >= MaxHeaders THEN BadResponse(t) ELSE g
          [] OTHER ->
               CASE e.piece = "bad" -> BadResponse(t)
                 [] e.piece = "100" /\ s.wait100 -> Continue(t)
                 [] e.piece = "100" /\ ~ s.wait100 -> ResponseReceived(t, NoResponse, rest)
                 [] OTHER -> ResponseReceived(t, e, rest)
  BY DEF ReadHeaders
<1>1. DataInv(s) /\ CountInv(s) /\ Shape(s) BY DEF Sound, WInv, DataInv
<1>2. HeadRoom \in Nat /\ MaxHeaders \in Nat /\ MaxHeaders <= HeadRoom BY RoomAssumption, ProxyAssumption
<1>3. size \in Nat /\ Len(s.head) \in Nat /\ size + Len(s.head) = HeadRoom
  <2>1. Len(s.head) \in Nat BY <1>1, LenProperties DEF CountInv
  <2>2. Len(s.head) <= HeadRoom BY <1>1 DEF DataInv, BufferInv
  <2> QED BY <1>2, <2>1, <2>2
<1> HIDE DEF size
<1>4. Taken(s, t, got) /\ Len(got) <= size BY <1>1, <1>3, SocketGives
<1> HIDE DEF t, got
<1>5. /\ head \in Seq(Pieces) /\ Len(head) \in Nat /\ Len(head) <= HeadRoom
      /\ \A j \in 1 .. Len(head) : j \in 1 .. Len(Unread(s)) /\ head[j] = Unread(s)[j]
  <2> DEFINE h == Len(s.head)
             l == Len(got)
             n == Len(Unread(s))
             o == Len(OnWire(t))
  <2>1. /\ h \in Nat /\ l \in Nat /\ o \in Nat
        /\ n = h + l + o
        /\ \A j \in 1 .. h + l : head[j] = Unread(s)[j]
        /\ head \in Seq(Pieces) /\ Len(head) = h + l
    BY <1>1, <1>4, UnreadMoves
  <2>2. h \in Nat /\ l \in Nat /\ o \in Nat /\ n = h + l + o /\ l <= size /\ size + h = HeadRoom /\ size \in Nat
    BY <1>3, <1>4, <2>1
  <2> HIDE DEF h, l, n, o, head
  <2>3. h + l \in Nat /\ h + l <= HeadRoom /\ \A j \in 1 .. h + l : j \in 1 .. n BY <2>2
  <2> QED BY <2>1, <2>3 DEF n
<1>6. CASE got = <<>>
  <2>1. t.wire = s.wire /\ Mild([s EXCEPT !.wire = t.wire], t) BY <1>4, <1>6 DEF Taken
  <2>2. Mild(s, t) BY <1>1, <2>1 DEF Mild, Does, Same, Core, Shape, Fields
  <2>3. Sound(t) BY <2>2, SoundMild
  <2> QED BY <1>0, <1>6, <2>3
<1>7. CASE got # <<>> /\ ends = {}
  <2>1. Sound(t) BY <1>4, <1>7, SoundDropped
  <2>2. Sound(BadResponse(t)) BY <2>1, SoundBad
  <2>3. \A j \in 1 .. Len(head) : head[j].piece \notin EndsHead BY <1>7 DEF EndsHead
  <2>4. g = [t EXCEPT !.head = s.head \o got] OBVIOUS
  <2>5. Sound(g) BY <1>4, <1>5, <2>3, <2>4, SoundPart
  <2>6. ReadHeaders(s) = IF Len(head) >= MaxHeaders THEN BadResponse(t) ELSE g
    <3> HIDE DEF ends, e, rest, g, head
    <3> QED BY <1>0, <1>7
  <2> HIDE DEF g, head
  <2> QED BY <2>2, <2>5, <2>6
<1>8. CASE got # <<>> /\ ends # {}
  <2>1. i \in 1 .. Len(head) /\ e.piece \in {"head", "100", "bad"}
    <3>1. ends \subseteq Nat BY <1>5
    <3>2. \E j \in ends : \A k \in ends : j <= k BY <1>8, <3>1, LeastNumber
    <3>3. i \in ends BY <3>2
    <3> QED BY <3>3
  <2>2. Sound(BadResponse(t)) BY <1>4, <1>8, SoundDropped, SoundBad
  <2>3. Sound(Continue(t)) BY <1>4, <1>8, SoundContinue
  <2>4. e.piece = "100" => s.wait100
    <3>1. e.piece = "100" => Has100(Unread(s)) BY <1>5, <2>1 DEF Has100
    <3> QED BY <1>1, <3>1 DEF DataInv, UnreadInv, Asked
  <2>5. e.piece = "head" => Sound(ResponseReceived(t, e, rest))
    <3> HIDE DEF i
    <3> QED BY <1>4, <1>5, <2>1, SoundHeard
  <2> HIDE DEF ends, e, rest, g, head, i
  <2>6. CASE e.piece = "bad" BY <1>0, <1>8, <2>2, <2>6
  <2>7. CASE e.piece = "100" BY <1>0, <1>8, <2>3, <2>4, <2>7
  <2>8. CASE e.piece = "head" BY <1>0, <1>8, <2>5, <2>8
  <2> QED BY <2>1, <2>6, <2>7, <2>8
<1> QED BY <1>6, <1>7, <1>8

LEMMA SoundInput ==
  ASSUME NEW s, Sound(s), s.place = "pool" => s.state = "IDLE", s.place \in {"used", "pool"}
  PROVE  Sound(data_in_do_read(s))
<1> DEFINE t == IF s.os["resp"] THEN rb_resp_do_read(s) ELSE s
           a == nxe_ostream_unset_ready(t, "in")
           b == nxe_istream_set_ready(a, "resp")
           c == nxe_ostream_unset_ready(s, "in")
           d == BeginResponse(s)
<1>S. "in" \in Streams /\ "resp" \in Streams /\ "resp" # "out" BY DEF Streams
<1>0. data_in_do_read(s) =
        CASE s.state = "WAITING_FOR_RESPONSE" -> ReadHeaders(d)
          [] s.state = "RECEIVING_HEADERS" -> ReadHeaders(s)
          [] s.state = "RECEIVING_BODY" /\ "resp" \in s.pair -> IF t.os["resp"] THEN t ELSE b
          [] s.state = "RECEIVING_BODY" /\ "resp" \notin s.pair -> c
          [] OTHER -> s
  BY DEF data_in_do_read
<1>1. CASE s.state = "WAITING_FOR_RESPONSE"
  <2>1. Sound(d) /\ d.state = "RECEIVING_HEADERS" /\ d.place = s.place BY <1>1, SoundBegins
  <2> HIDE DEF d
  <2>2. Sound(ReadHeaders(d)) BY <1>1, <2>1, SoundHead
  <2> QED BY <1>0, <1>1, <2>2
<1>2. CASE s.state = "RECEIVING_HEADERS"
  <2>1. Sound(ReadHeaders(s)) BY <1>2, SoundHead
  <2> QED BY <1>0, <1>2, <2>1
<1>3. CASE s.state = "RECEIVING_BODY"
  <2>1. Sound(t) BY <1>3, SoundResponseRing
  <2>2. Sound(c) BY <1>S, SoundStreams
  <2> HIDE DEF t, c
  <2>3. Sound(a) BY <1>S, <2>1, SoundStreams
  <2> HIDE DEF a
  <2>4. Sound(b) BY <1>S, <2>3, SoundStreams
  <2> HIDE DEF b
  <2> QED BY <1>0, <1>3, <2>1, <2>2, <2>4
<1>4. CASE s.state \notin {"WAITING_FOR_RESPONSE", "RECEIVING_HEADERS", "RECEIVING_BODY"}
  BY <1>0, <1>4
<1> QED BY <1>1, <1>2, <1>3, <1>4

(* The socket reports an error, or that the peer has closed its end.       *)
LEMMA SoundDataError == ASSUME NEW s, Sound(s), NEW hup PROVE Sound(data_error_on_message(s, hup))
<1> DEFINE a == [s EXCEPT !.all = TRUE]
           b == nxe_istream_set_ready(a, "resp")
           c == [s EXCEPT !.queued = TRUE]
           d == nxe_publish(s, "error")
<1>0. /\ data_error_on_message(s, hup) \in {b, c, d}
      /\ data_error_on_message(s, hup) = b => data_error_on_message(s, hup) \in {c, d} \/ UntilClose(s.resp)
  BY DEF data_error_on_message
<1>S. "resp" \in Streams /\ "resp" # "out" /\ "error" \in Events \ {"response"}
  BY DEF Streams, Events, Messages, HcpMessages
<1>1. Sound(d) BY <1>S, SoundPublish
<1>2. Sound(c)
  <2>1. /\ DOMAIN c = Fields /\ Same(s, c) /\ c.events = s.events /\ c.is = s.is /\ c.os = s.os
        /\ c.timers = s.timers
    BY DEF Sound, Shape, Fields, Same, Core
  <2> HIDE DEF c
  <2> QED BY <2>1, SoundUnrelated
<1>3. ASSUME UntilClose(s.resp) PROVE Sound(b)
  <2>1. /\ DOMAIN a = Fields /\ a.events = s.events /\ a.is = s.is /\ a.os = s.os
        /\ a.timers = s.timers /\ Same([a EXCEPT !.all = s.all], s)
    BY DEF Sound, Shape, Fields, Same, Core
  <2> HIDE DEF a
  <2>2. Shape(a) /\ Shape(s) /\ DataInv(s) BY <2>1 DEF Sound, WInv, Shape
  <2>3. /\ a.state = s.state /\ a.resp = s.resp /\ s.state \in Answering
        /\ OnWire(a) = OnWire(s) /\ Unread(a) = Unread(s) /\ FirstChunk(a) = FirstChunk(s)
    BY <1>3, <2>1, <2>2 DEF Same, Core, Fields, OnWire, Unread, FirstChunk, DataInv, ResponseInv
  <2>4. BoundInv(a) /\ CountInv(a)
    BY <2>1, <2>2 DEF Same, Core, Fields, DataInv, BoundInv, CountInv
  <2>5. BufferInv(a) BY <2>1, <2>2 DEF Same, Core, Fields, DataInv, BufferInv
  <2>6. OweInv(a) BY <2>1, <2>2, <2>3 DEF Same, Core, Fields, DataInv, OweInv
  <2>7. UnreadInv(a) BY <1>3, <2>1, <2>2, <2>3 DEF Same, Core, Fields, DataInv, UnreadInv
  <2>8. ResponseInv(a) BY <2>1, <2>2, <2>3 DEF Same, Core, Fields, DataInv, ResponseInv
  <2>9. ClockInv(a) /\ NewsInv(a) BY <2>1 DEF Same, Core, Fields, Sound, WInv, ClockInv, NewsInv
  <2>10. Sound(a) BY <2>2, <2>4, <2>5, <2>6, <2>7, <2>8, <2>9 DEF Sound, WInv, DataInv
  <2> QED BY <1>S, <2>10, SoundStreams
<1> HIDE DEF b, c, d
<1> QED BY <1>0, <1>1, <1>2, <1>3

-----------------------------------------------------------------------------
(* Connections come and go.                                                *)

LEMMA MildUnsubscribe ==
  ASSUME NEW s, Shape(s), NEW N
  PROVE  LET t == nxe_unsubscribe(s, N)
         IN  Mild(s, t) /\ \A f : In(t.events, f) <=> In(s.events, f) /\ f \notin N
<1> DEFINE t == nxe_unsubscribe(s, N)
<1>1. "events" \in DOMAIN s /\ s.events \in Seq(Events) BY DEF Shape, Fields
<1>2. /\ DOMAIN t = DOMAIN s /\ \A f \in DOMAIN s \ {"events"} : t[f] = s[f]
      /\ t.events \in Seq(Events) /\ \A f : In(t.events, f) <=> In(s.events, f) /\ f \notin N
  BY <1>1, Unsubscribing
<1> HIDE DEF t
<1>3. DOMAIN t = Fields /\ Same(s, t) BY <1>2 DEF Shape, Fields, Same, Core
<1>4. t.is = s.is /\ t.os = s.os /\ t.timers = s.timers BY <1>2 DEF Shape, Fields
<1>5. Mild(s, t) BY <1>2, <1>3, <1>4 DEF Mild, Does, Shape
<1> QED BY <1>2, <1>5 DEF t

LEMMA Parts ==
  ASSUME NEW s, Shape(s), NEW N
  PROVE  LET t == Disconnected(s, N)
         IN  /\ Shape(t) /\ Same([t EXCEPT !.pair = s.pair], s) /\ t.pair = s.pair \ N
             /\ t.timers = s.timers /\ t.is["out"] = s.is["out"]
             /\ In(t.events, "response") => In(s.events, "response")
<1> DEFINE u == nxe_unsubscribe(s, N)
           t == [u EXCEPT !.pair = @ \ N]
<1>0. Disconnected(s, N) = t BY DEF Disconnected
<1>1. Mild(s, u) BY MildUnsubscribe
<1> HIDE DEF u
<1>2. /\ DOMAIN t = Fields /\ t.events = u.events /\ t.is = u.is /\ t.os = u.os /\ t.timers = u.timers
      /\ Same([t EXCEPT !.pair = u.pair], u) /\ t.pair = u.pair \ N
  BY <1>1 DEF Mild, Does, Shape, Fields, Same, Core
<1> HIDE DEF t
<1>3. Shape(t) BY <1>1, <1>2 DEF Mild, Does, Shape
<1>4. Same([t EXCEPT !.pair = s.pair], s) BY <1>1, <1>2 DEF Mild, Does, Same, Core, Fields
<1>5. t.pair = s.pair \ N BY <1>1, <1>2 DEF Mild, Does, Same, Core
<1> QED BY <1>0, <1>1, <1>2, <1>3, <1>4, <1>5 DEF Mild, Does

(* Streams are connected or disconnected.                                  *)
LEMMA SoundPair ==
  ASSUME NEW s, Sound(s), NEW t, Shape(t), Same([t EXCEPT !.pair = s.pair], s),
         t.timers = s.timers, t.is["out"] = s.is["out"], t.pair \subseteq s.pair \/ t.place # "pool",
         In(t.events, "response") => In(s.events, "response")
  PROVE  Sound(t)
<1>1. Shape(s) /\ DataInv(s) /\ DOMAIN t = Fields BY DEF Sound, WInv, Shape
<1>2. /\ OnWire(t) = OnWire(s) /\ Unread(t) = Unread(s) /\ FirstChunk(t) = FirstChunk(s)
  BY <1>1 DEF Same, Core, Fields, OnWire, Unread, FirstChunk
<1>3. BoundInv(t) /\ CountInv(t) BY <1>1 DEF Same, Core, Fields, DataInv, BoundInv, CountInv
<1>4. BufferInv(t) BY <1>1 DEF Same, Core, Fields, DataInv, BufferInv
<1>5. OweInv(t) BY <1>1, <1>2 DEF Same, Core, Fields, DataInv, OweInv
<1>6. UnreadInv(t) BY <1>1, <1>2 DEF Same, Core, Fields, DataInv, UnreadInv
<1>7. ResponseInv(t) BY <1>1 DEF Same, Core, Fields, DataInv, ResponseInv
<1>8. ClockInv(t) /\ NewsInv(t) BY <1>1 DEF Same, Core, Fields, Sound, WInv, ClockInv, NewsInv
<1> QED BY <1>3, <1>4, <1>5, <1>6, <1>7, <1>8 DEF Sound, WInv, DataInv

LEMMA SoundParts ==
  ASSUME NEW s, Sound(s), NEW N
  PROVE  LET t == Disconnected(s, N)
         IN  /\ Sound(t) /\ Same([t EXCEPT !.pair = s.pair], s) /\ t.pair = s.pair \ N
<1> DEFINE t == Disconnected(s, N)
<1>1. /\ Shape(t) /\ Same([t EXCEPT !.pair = s.pair], s) /\ t.pair = s.pair \ N
      /\ t.timers = s.timers /\ t.is["out"] = s.is["out"]
      /\ In(t.events, "response") => In(s.events, "response")
  BY Parts DEF Sound
<1> HIDE DEF t
<1>2. t.pair \subseteq s.pair BY <1>1
<1>3. Sound(t) BY <1>1, <1>2, SoundPair
<1> QED BY <1>1, <1>3 DEF t

(* No backend connection is there.                                         *)
Vacant(z) ==
  /\ Shape(z) /\ z.place = "none" /\ z.state = "CONNECTING" /\ ~ z.all /\ ~ z.done
  /\ z.head = <<>> /\ z.resp = NoResponse /\ z.received = 0 /\ z.chunk = NoChunk
  /\ z.wire = <<>> /\ z.pend = <<>> /\ z.asked = 0 /\ ~ z.owed /\ z.room = TxRoom
  /\ z.timers \subseteq {"backend"} /\ ~ In(z.events, "response")
SameCounts(s, t) ==
  /\ t.no = s.no /\ t.size = s.size /\ t.rb_resp = s.rb_resp /\ t.eof_resp = s.eof_resp
  /\ t.via = s.via /\ t.rb_req = s.rb_req /\ t.retry = s.retry
Counts(s) ==
  /\ s.rb_req \in 0 .. RbufSize /\ s.retry \in 0 .. RetryCount /\ s.rb_resp \in 0 .. RbufSize
  /\ s.no \in Nat /\ s.size \in Nat

LEMMA NoPieces == <<>> \in Seq(Pieces) /\ NoResponse \in Pieces /\ ~ UntilClose(NoResponse)
BY DEF NoResponse, HeadEnd, Pieces, UntilClose

LEMMA SoundVacant ==
  ASSUME NEW z, Vacant(z), Counts(z), z.via # "backend" PROVE Sound(z)
<1>1. Unread(z) = <<>> /\ OnWire(z) = <<>> BY DEF Vacant, Unread, OnWire
<1>2. TxRoom \in Nat /\ 0 <= HeadRoom BY ProxyAssumption, RoomAssumption
<1>3. BoundInv(z) BY <1>2 DEF Vacant, Counts, BoundInv
<1>4. CountInv(z) BY NoPieces DEF Vacant, Counts, CountInv, HcpStates
<1>5. BufferInv(z)
  <2>1. Len(<<>>) = 0 /\ 1 .. 0 = {} OBVIOUS
  <2> QED BY <1>2, <2>1 DEF Vacant, BufferInv
<1>6. OweInv(z) BY DEF Vacant, OweInv
<1>7. UnreadInv(z) BY <1>1 DEF Vacant, UnreadInv, Asked
<1>8. ResponseInv(z) BY NoPieces DEF Vacant, ResponseInv, Answering
<1>9. ClockInv(z) BY DEF Vacant, ClockInv, Clocks, Sending
<1>10. NewsInv(z) BY DEF Vacant, NewsInv
<1> QED BY <1>3, <1>4, <1>5, <1>6, <1>7, <1>8, <1>9, <1>10 DEF Sound, WInv, DataInv, Vacant

LEMMA FreshHas ==
  /\ DOMAIN Fresh = FreshFields /\ Fresh.state = "CONNECTING" /\ Fresh.all = FALSE /\ Fresh.done = FALSE
  /\ Fresh.head = <<>> /\ Fresh.resp = NoResponse /\ Fresh.received = 0 /\ Fresh.chunk = NoChunk
  /\ Fresh.wire = <<>> /\ Fresh.pend = <<>> /\ Fresh.asked = 0 /\ Fresh.owed = FALSE
  /\ Fresh.room = TxRoom
BY DEF Fresh, FreshFields

LEMMA FinalizeVacates ==
  ASSUME NEW s, Shape(s), s.timers \subseteq Timers
  PROVE  LET z == nxd_http_proxy_finalize(s) IN Vacant(z) /\ SameCounts(s, z)
<1> DEFINE t == [s EXCEPT !.timers = @ \ HcpTimers, !.expired = @ \ HcpTimers, !.place = "none"]
           u == nxe_unsubscribe(t, Messages)
           d == Disconnected(u, Streams)
           z == Over(Fresh, d)
<1>0. nxd_http_proxy_finalize(s) = z BY DEF nxd_http_proxy_finalize, Messages
<1>1. /\ DOMAIN t = Fields /\ t.events = s.events /\ t.timers = s.timers \ HcpTimers
      /\ t.place = "none" /\ t.is = s.is /\ t.os = s.os /\ SameCounts(s, t)
  BY DEF Shape, Fields, SameCounts
<1> HIDE DEF t
<1>2. Shape(t) /\ t.timers \subseteq {"backend"} BY <1>1 DEF Shape, Timers
<1>3. Mild(t, u) /\ ~ In(u.events, "response")
  <2>1. Mild(t, u) /\ \A f : In(u.events, f) <=> In(t.events, f) /\ f \notin Messages
    BY <1>2, MildUnsubscribe
  <2> QED BY <2>1 DEF Messages, HcpMessages
<1> HIDE DEF u
<1>4. /\ Shape(u) /\ u.place = "none" /\ u.timers = t.timers /\ SameCounts(s, u)
  BY <1>1, <1>3 DEF Mild, Does, Same, Core, SameCounts
<1>5. /\ Shape(d) /\ Same([d EXCEPT !.pair = u.pair], u) /\ d.timers = u.timers
      /\ ~ In(d.events, "response")
  BY <1>3, <1>4, Parts
<1> HIDE DEF d
<1>6. d.place = "none" /\ SameCounts(s, d) BY <1>4, <1>5 DEF Same, Core, SameCounts, Shape, Fields
<1>7. DOMAIN z = DOMAIN Fresh \cup DOMAIN d BY DEF Over
<1>8. \A f \in DOMAIN Fresh \cup DOMAIN d : z[f] = IF f \in DOMAIN Fresh THEN Fresh[f] ELSE d[f]
  BY DEF Over
<1> HIDE DEF z
<1>9. DOMAIN z = Fields /\ \A f \in Fields : z[f] = IF f \in FreshFields THEN Fresh[f] ELSE d[f]
  BY <1>5, <1>7, <1>8, FreshHas DEF Shape, Fields, FreshFields
<1>10. /\ z.state = Fresh.state /\ z.all = Fresh.all /\ z.done = Fresh.done /\ z.head = Fresh.head
       /\ z.resp = Fresh.resp /\ z.received = Fresh.received /\ z.chunk = Fresh.chunk
       /\ z.wire = Fresh.wire /\ z.pend = Fresh.pend /\ z.asked = Fresh.asked
       /\ z.owed = Fresh.owed /\ z.room = Fresh.room
  BY <1>9 DEF Fields, FreshFields
<1>11. /\ z.events = d.events /\ z.timers = d.timers /\ z.is = d.is /\ z.os = d.os
       /\ z.place = d.place /\ SameCounts(d, z)
  BY <1>9 DEF Fields, FreshFields, SameCounts
<1>12. Shape(z) BY <1>5, <1>9, <1>11 DEF Shape
<1>13. Vacant(z) BY <1>2, <1>4, <1>5, <1>6, <1>10, <1>11, <1>12, FreshHas DEF Vacant
<1>14. SameCounts(s, z) BY <1>6, <1>11 DEF SameCounts
<1> QED BY <1>0, <1>13, <1>14

(* The request is over: what the handler forgets.                          *)
Reset(u) ==
  [u EXCEPT !.conn = "idle", !.via = "none", !.method = "GET", !.size = 0, !.left = 0,
            !.retry = 0, !.started = FALSE, !.complete = FALSE, !.error = FALSE,
            !.rb_req = 0, !.eof_req = FALSE, !.rb_resp = 0, !.eof_resp = FALSE,
            !.bodies = 0]
Zero(s) ==
  /\ s.via = "none" /\ s.size = 0 /\ s.retry = 0 /\ s.rb_req = 0 /\ s.rb_resp = 0 /\ ~ s.eof_resp
(* But for these, and for what a connection in the pool has not.           *)
Still(s, t) ==
  /\ t.state = s.state /\ t.wait100 = s.wait100 /\ t.all = s.all /\ t.done = s.done
  /\ t.head = s.head /\ t.resp = s.resp /\ t.received = s.received
  /\ t.chunk = s.chunk /\ t.wire = s.wire /\ t.pend = s.pend
  /\ t.asked = s.asked /\ t.owed = s.owed /\ t.said100 = s.said100
  /\ t.no = s.no /\ t.room = s.room

LEMMA Resets ==
  ASSUME NEW u, Shape(u)
  PROVE  LET w == Reset(u)
         IN  /\ Shape(w) /\ Zero(w) /\ Still(u, w) /\ w.nxb = u.nxb /\ w.pair = u.pair
             /\ w.place = u.place /\ w.events = u.events /\ w.timers = u.timers /\ w.is = u.is
<1> DEFINE w == Reset(u)
<1>1. DOMAIN w = Fields /\ w.os = u.os BY DEF Reset, Shape, Fields
<1>2. Zero(w) BY DEF Reset, Zero, Shape, Fields
<1>3. Still(u, w) BY DEF Reset, Still, Shape, Fields
<1>4. /\ w.nxb = u.nxb /\ w.pair = u.pair /\ w.place = u.place /\ w.events = u.events
      /\ w.timers = u.timers /\ w.is = u.is
  BY DEF Reset, Shape, Fields
<1> HIDE DEF w
<1>5. Shape(w) BY <1>1, <1>4 DEF Shape
<1> QED BY <1>2, <1>3, <1>4, <1>5 DEF w

LEMMA SoundReset ==
  ASSUME NEW s, Sound(s), NEW w, Shape(w), Zero(w), Still(s, w),
         w.timers = s.timers, w.is["out"] => s.is["out"],
         In(w.events, "response") => w.place = "used" /\ In(s.events, "response"),
         \/ w.place = s.place /\ w.nxb = s.nxb /\ w.pair = s.pair
         \/ w.place = "pool" /\ KeepAlive(s.resp) /\ ~ w.nxb /\ w.pair \subseteq {"in", "out"}
  PROVE  Sound(w)
<1>1. Shape(s) /\ DataInv(s) BY DEF Sound, WInv, Shape
<1>2. OnWire(w) = OnWire(s) /\ Unread(w) = Unread(s) /\ FirstChunk(w) = FirstChunk(s)
  BY DEF Still, OnWire, Unread, FirstChunk
<1>3. 0 \in 0 .. RbufSize /\ 0 \in 0 .. RetryCount BY ProxyAssumption
<1>4. BoundInv(w) /\ CountInv(w) BY <1>1, <1>3 DEF Still, Zero, DataInv, BoundInv, CountInv
<1>5. BufferInv(w) BY <1>1 DEF Still, Zero, DataInv, BufferInv
<1>6. OweInv(w) BY <1>1, <1>2 DEF Still, Zero, DataInv, OweInv
<1>7. UnreadInv(w) BY <1>1, <1>2 DEF Still, DataInv, UnreadInv
<1>8. ResponseInv(w) BY <1>1 DEF Still, Zero, DataInv, ResponseInv
<1>9. ClockInv(w) BY DEF Still, Sound, WInv, ClockInv
<1>10. NewsInv(w) BY DEF Still, Sound, WInv, NewsInv
<1> QED BY <1>4, <1>5, <1>6, <1>7, <1>8, <1>9, <1>10 DEF Sound, WInv, DataInv

LEMMA PoolTakes ==
  ASSUME NEW s, Shape(s), s.pair \subseteq Streams
  PROVE  LET z == [rearm(s) EXCEPT !.place = "pool"]
         IN  /\ Shape(z) /\ Still(s, z) /\ z.place = "pool" /\ ~ z.nxb /\ z.pair \subseteq {"in", "out"}
             /\ z.timers = s.timers /\ ~ z.is["out"] /\ ~ In(z.events, "response")
<1> DEFINE u == nxe_unsubscribe(s, HcpMessages)
           t == Disconnected(u, {"req", "resp"})
           r == [t EXCEPT !.tripped = @ \/ ~ s.nxb, !.nxb = FALSE,
                          !.os["req"] = FALSE, !.is["resp"] = FALSE,
                          !.os["in"] = FALSE, !.is["out"] = FALSE]
           z == [r EXCEPT !.place = "pool"]
<1>0. [rearm(s) EXCEPT !.place = "pool"] = z BY DEF rearm
<1>1. Mild(s, u) /\ ~ In(u.events, "response")
  <2>1. Mild(s, u) /\ \A f : In(u.events, f) <=> In(s.events, f) /\ f \notin HcpMessages
    BY MildUnsubscribe
  <2> QED BY <2>1 DEF HcpMessages
<1> HIDE DEF u
<1>2. Shape(u) /\ u.timers = s.timers /\ u.pair \subseteq Streams /\ Still(s, u)
  BY <1>1 DEF Mild, Does, Same, Core, Still
<1>3. /\ Shape(t) /\ Same([t EXCEPT !.pair = u.pair], u) /\ t.pair = u.pair \ {"req", "resp"}
      /\ t.timers = u.timers /\ ~ In(t.events, "response")
  BY <1>1, <1>2, Parts
<1> HIDE DEF t
<1>4. Still(s, t) BY <1>2, <1>3 DEF Same, Core, Still, Shape, Fields
<1>5. /\ DOMAIN r = Fields /\ r.events = t.events /\ r.pair = t.pair /\ r.timers = t.timers
      /\ r.os = [[t.os EXCEPT !["req"] = FALSE] EXCEPT !["in"] = FALSE]
      /\ r.is = [[t.is EXCEPT !["resp"] = FALSE] EXCEPT !["out"] = FALSE]
      /\ r.nxb = FALSE
  BY <1>3 DEF Shape, Fields
<1>6. Still(t, r) BY <1>3 DEF Shape, Fields, Still
<1> HIDE DEF r
<1>7. r.os \in [Streams -> BOOLEAN] /\ r.is \in [Streams -> BOOLEAN] /\ ~ r.is["out"]
  <2>1. t.os \in [Streams -> BOOLEAN] /\ t.is \in [Streams -> BOOLEAN] BY <1>3 DEF Shape
  <2>2. "req" \in Streams /\ "in" \in Streams /\ "out" \in Streams /\ "resp" \in Streams
    BY DEF Streams
  <2> DEFINE off == [[t.os EXCEPT !["req"] = FALSE] EXCEPT !["in"] = FALSE]
             ist == [[t.is EXCEPT !["resp"] = FALSE] EXCEPT !["out"] = FALSE]
  <2>3. off \in [Streams -> BOOLEAN] BY <2>1, <2>2, TwoOff
  <2>4. ist \in [Streams -> BOOLEAN] /\ ~ ist["out"] BY <2>1, <2>2, TwoOff
  <2>5. r.os = off /\ r.is = ist BY <1>5
  <2> HIDE DEF off, ist
  <2> QED BY <2>3, <2>4, <2>5
<1>8. /\ DOMAIN z = Fields /\ z.events = r.events /\ z.pair = r.pair /\ z.timers = r.timers
      /\ z.os = r.os /\ z.is = r.is /\ z.nxb = r.nxb /\ z.place = "pool"
  BY <1>5 DEF Fields
<1>9. Still(r, z) BY <1>5 DEF Fields, Still
<1> HIDE DEF z
<1>10. Shape(z) BY <1>3, <1>5, <1>7, <1>8 DEF Shape
<1>11. Still(s, z) BY <1>4, <1>6, <1>9 DEF Still
<1>12. z.pair \subseteq {"in", "out"} BY <1>2, <1>3, <1>5, <1>8 DEF Streams
<1>13. z.timers = s.timers /\ ~ z.is["out"] /\ ~ In(z.events, "response") /\ ~ z.nxb
  BY <1>2, <1>3, <1>5, <1>7, <1>8
<1> QED BY <1>0, <1>8, <1>10, <1>11, <1>12, <1>13

LEMMA ClocksAre == ASSUME NEW s, Sound(s) PROVE s.timers \subseteq Timers
BY DEF Sound, WInv, ClockInv, Clocks, Sending, Timers, HcpTimers

LEMMA SoundRequestEnds ==
  ASSUME NEW s, Sound(s), s.pair \subseteq Streams PROVE Sound(request_finalize(s))
<1> DEFINE a == nxe_unset_timer(s, "backend")
           b == nxe_unsubscribe(a, HcpMessages \cup ClientMessages)
           t == Disconnected(b, {"req", "resp"})
           f == nxd_http_proxy_finalize(t)
           g == [rearm(t) EXCEPT !.place = "pool"]
           kept == ~ (s.error \/ ~ t.done \/ t.state # "IDLE" \/ ~ KeepAlive(t.resp))
           u == IF s.place = "used" THEN IF kept THEN g ELSE f ELSE t
<1>0. request_finalize(s) = Reset(u)
  BY DEF request_finalize, Reset, nxd_http_proxy_pool_return
<1>1. Sound(a) /\ Same(s, a) BY SoundTimers
<1> HIDE DEF a
<1>2. Mild(a, b) BY <1>1, MildUnsubscribe DEF Sound
<1> HIDE DEF b
<1>3. Sound(b) /\ Same(a, b) BY <1>1, <1>2, SoundMild
<1>4. Sound(t) /\ Same([t EXCEPT !.pair = b.pair], b) /\ t.pair = b.pair \ {"req", "resp"} BY <1>3, SoundParts
<1> HIDE DEF t
<1>5. t.pair \subseteq Streams BY <1>1, <1>3, <1>4 DEF Same, Core
<1>6. Shape(t) /\ Counts(t) BY <1>4 DEF Sound, WInv, DataInv, BoundInv, CountInv, Counts
<1>7. Vacant(f) /\ SameCounts(t, f) BY <1>4, <1>6, ClocksAre, FinalizeVacates
<1>8. /\ Shape(g) /\ Still(t, g) /\ g.place = "pool" /\ ~ g.nxb /\ g.pair \subseteq {"in", "out"}
      /\ g.timers = t.timers /\ ~ g.is["out"] /\ ~ In(g.events, "response")
  BY <1>5, <1>6, PoolTakes
<1> HIDE DEF f, g
<1>9. Sound(Reset(f))
  <2> DEFINE w == Reset(f)
  <2>1. /\ Shape(w) /\ Zero(w) /\ Still(f, w) /\ w.place = f.place /\ w.events = f.events
        /\ w.timers = f.timers
    BY <1>7, Resets DEF Vacant
  <2> HIDE DEF w
  <2>2. 0 \in 0 .. RbufSize /\ 0 \in 0 .. RetryCount BY ProxyAssumption
  <2>3. Vacant(w) BY <1>7, <2>1 DEF Vacant, Still
  <2>4. Counts(w) /\ w.via # "backend" BY <1>6, <1>7, <2>1, <2>2 DEF Counts, SameCounts, Still, Zero
  <2> QED BY <2>3, <2>4, SoundVacant DEF w
<1>10. ASSUME kept PROVE Sound(Reset(g))
  <2> DEFINE w == Reset(g)
  <2>1. /\ Shape(w) /\ Zero(w) /\ Still(g, w) /\ w.nxb = g.nxb /\ w.pair = g.pair
        /\ w.place = g.place /\ w.events = g.events /\ w.timers = g.timers /\ w.is = g.is
    BY <1>8, Resets
  <2> HIDE DEF w
  <2>2. Still(t, w) BY <1>8, <2>1 DEF Still
  <2>3. Sound(w) BY <1>4, <1>8, <1>10, <2>1, <2>2, SoundReset
  <2> QED BY <2>3 DEF w
<1>11. Sound(Reset(t))
  <2> DEFINE w == Reset(t)
  <2>1. /\ Shape(w) /\ Zero(w) /\ Still(t, w) /\ w.nxb = t.nxb /\ w.pair = t.pair
        /\ w.place = t.place /\ w.events = t.events /\ w.timers = t.timers /\ w.is = t.is
    BY <1>6, Resets
  <2> HIDE DEF w
  <2>2. In(w.events, "response") => w.place = "used" /\ In(t.events, "response")
    BY <1>4, <2>1 DEF Sound, WInv, NewsInv
  <2>3. Sound(w) BY <1>4, <2>1, <2>2, SoundReset
  <2> QED BY <2>3 DEF w
<1> HIDE DEF kept
<1> QED BY <1>0, <1>9, <1>10, <1>11

-----------------------------------------------------------------------------
(* A request is started: nothing is left of an earlier exchange.           *)
SameWire(s, t) ==
  /\ t.head = s.head /\ t.resp = s.resp /\ t.received = s.received /\ t.chunk = s.chunk
  /\ t.wire = s.wire /\ t.pend = s.pend /\ t.asked = s.asked /\ t.owed = s.owed
  /\ t.room = s.room /\ SameCounts(s, t)

Clear(s) ==
  /\ Shape(s) /\ BoundInv(s) /\ CountInv(s)
  /\ s.head = <<>> /\ s.chunk = NoChunk /\ ~ s.owed /\ OnWire(s) = <<>>
  /\ s.via # "backend" /\ ~ UntilClose(s.resp) /\ ~ In(s.events, "response")
  /\ s.state = "CONNECTING" => s.resp = NoResponse /\ s.received = 0

LEMMA ClearKept ==
  ASSUME NEW s, Clear(s), NEW t, Shape(t), SameWire(s, t),
         t.state \in {s.state, "SENDING_HEADERS"}, In(t.events, "response") => In(s.events, "response")
  PROVE  Clear(t)
<1>1. OnWire(t) = OnWire(s) BY DEF SameWire, OnWire
<1>2. BoundInv(t) BY DEF Clear, SameWire, SameCounts, BoundInv
<1>3. CountInv(t) BY DEF Clear, SameWire, SameCounts, CountInv, HcpStates
<1> QED BY <1>1, <1>2, <1>3 DEF Clear, SameWire, SameCounts

LEMMA ClearSound ==
  ASSUME NEW s, Clear(s), s.place = "used", s.state \in {"CONNECTING", "SENDING_HEADERS"},
         ~ s.all, ~ s.done, s.timers \subseteq {"backend", "write"}, s.rb_resp = 0, ~ s.eof_resp
  PROVE  Sound(s)
<1>1. Unread(s) = <<>> /\ OnWire(s) = <<>> BY DEF Clear, Unread
<1>2. BufferInv(s)
  <2>1. Len(<<>>) = 0 /\ 1 .. 0 = {} /\ 0 <= HeadRoom BY ProxyAssumption, RoomAssumption
  <2> QED BY <2>1 DEF Clear, BufferInv
<1>3. OweInv(s) BY DEF Clear, OweInv
<1>4. UnreadInv(s) BY <1>1 DEF UnreadInv, Asked
<1>5. ResponseInv(s) BY DEF Clear, ResponseInv, Answering
<1>6. ClockInv(s) BY DEF ClockInv, Clocks, Sending
<1>7. NewsInv(s) BY DEF Clear, NewsInv
<1> QED BY <1>2, <1>3, <1>4, <1>5, <1>6, <1>7 DEF Clear, Sound, WInv, DataInv

LEMMA FreeIsClear ==
  ASSUME NEW s, Sound(s), Free(s), s.via # "backend"
  PROVE  /\ Clear(s) /\ s.state = IF s.place = "none" THEN "CONNECTING" ELSE "IDLE"
         /\ s.timers \subseteq IF s.place = "none" THEN {} ELSE {"keep_alive"}
<1>1. Shape(s) /\ DataInv(s) BY DEF Sound, WInv
<1>2. s.state = IF s.place = "none" THEN "CONNECTING" ELSE "IDLE"
  BY DEF Free, NoneInv, ConnInv, StateInv
<1>3. s.timers \subseteq IF s.place = "none" THEN {} ELSE {"keep_alive"}
  <2>1. CASE s.place = "none" BY <2>1 DEF Free, NoneInv
  <2>2. CASE s.place # "none"
    <3>1. s.timers \subseteq {"backend", "keep_alive"} /\ "backend" \notin s.timers
      BY <1>2, <2>2 DEF Sound, WInv, ClockInv, Clocks, Sending, Free
    <3> QED BY <2>2, <3>1
  <2> QED BY <2>1, <2>2
<1>4. s.place \in {"none", "pool"} BY DEF Free
<1>5. ~ UntilClose(s.resp)
  <2>1. CASE s.place = "none" BY <1>1, <1>2, <2>1, NoPieces DEF DataInv, ResponseInv
  <2>2. CASE s.place = "pool" BY <1>1, <2>2 DEF DataInv, ResponseInv, KeepAlive, UntilClose
  <2> QED BY <1>4, <2>1, <2>2
<1>6. s.head = <<>> /\ s.chunk = NoChunk BY <1>1, <1>2 DEF DataInv, BufferInv
<1>7. ~ s.owed BY <1>1, <1>2 DEF DataInv, OweInv, Asked
<1>8. OnWire(s) = <<>>
  <2>1. CASE s.place = "none"
    <3>1. Unread(s) = <<>> BY <1>1, <1>2, <2>1 DEF DataInv, UnreadInv
    <3>2. OnWire(s) \in Seq(Pieces) BY <1>1, ConcatProperties DEF OnWire, DataInv, CountInv
    <3> HIDE DEF OnWire
    <3>3. <<>> \o OnWire(s) = OnWire(s) BY <3>2, ConcatEmptySeq
    <3> QED BY <1>6, <3>1, <3>3 DEF Unread
  <2>2. CASE s.place # "none" BY <1>1, <1>2, <1>5, <2>2 DEF DataInv, UnreadInv
  <2> QED BY <2>1, <2>2
<1>9. ~ In(s.events, "response") BY <1>4 DEF Sound, WInv, NewsInv
<1>10. s.state = "CONNECTING" => s.resp = NoResponse /\ s.received = 0 BY <1>1 DEF DataInv, ResponseInv
<1> QED BY <1>1, <1>2, <1>3, <1>5, <1>6, <1>7, <1>8, <1>9, <1>10 DEF Clear, DataInv

LEMMA ConnectClear ==
  ASSUME NEW s, Clear(s), s.place \in {"none", "pool"}, NEW made,
         s.state = (IF s.place = "none" THEN "CONNECTING" ELSE "IDLE"),
         s.timers \subseteq (IF s.place = "none" THEN {} ELSE {"keep_alive"})
  PROVE  LET c == nxd_http_proxy_pool_connect(s, made)
         IN  \/ /\ Clear(c) /\ c.place = "used" /\ c.state \in {"CONNECTING", "IDLE"}
                /\ c.timers \subseteq {IF c.state = "IDLE" THEN "keep_alive" ELSE "write"}
                /\ c.state = "CONNECTING" => c.all = s.all /\ c.done = s.done
             \/ c = s /\ s.place = "none"
<1>1. CASE s.place = "pool"
  <2> DEFINE u == nxe_unsubscribe(s, HcpMessages)
             c == [u EXCEPT !.place = "used"]
  <2>0. nxd_http_proxy_pool_connect(s, made) = c BY <1>1 DEF nxd_http_proxy_pool_connect
  <2>1. Mild(s, u) BY MildUnsubscribe DEF Clear
  <2> HIDE DEF u
  <2>2. /\ Shape(u) /\ u.timers = s.timers /\ u.state = s.state /\ SameWire(s, u)
        /\ In(u.events, "response") => In(s.events, "response")
    BY <2>1 DEF Mild, Does, Same, Core, SameWire, SameCounts
  <2>3. /\ DOMAIN c = Fields /\ c.events = u.events /\ c.is = u.is /\ c.os = u.os
        /\ c.timers = u.timers /\ c.state = u.state /\ c.place = "used"
    BY <2>2 DEF Shape, Fields
  <2>4. SameWire(u, c) BY <2>2 DEF Shape, Fields, SameWire, SameCounts
  <2> HIDE DEF c
  <2>5. Shape(c) BY <2>2, <2>3 DEF Shape
  <2>6. SameWire(s, c) BY <2>2, <2>4 DEF SameWire, SameCounts
  <2>7. Clear(c) BY <2>2, <2>3, <2>5, <2>6, ClearKept
  <2> QED BY <1>1, <2>0, <2>2, <2>3, <2>7
<1>2. CASE s.place = "none" /\ made
  <2> DEFINE t == [s EXCEPT !.place = "used", !.pair = @ \cup {"in", "out"},
                            !.is = [x \in Streams |-> x = "out"], !.os = [x \in Streams |-> FALSE]]
             c == nxe_set_timer(t, "write")
  <2>0. nxd_http_proxy_pool_connect(s, made) = c
    BY <1>2 DEF nxd_http_proxy_pool_connect, nxd_http_proxy_connect
  <2>1. /\ DOMAIN t = Fields /\ t.events = s.events
        /\ t.is = [x \in Streams |-> x = "out"] /\ t.os = [x \in Streams |-> FALSE]
        /\ t.timers = s.timers /\ t.state = s.state /\ t.place = "used" /\ t.all = s.all /\ t.done = s.done
    BY DEF Clear, Shape, Fields
  <2>2. SameWire(s, t) BY DEF Clear, Shape, Fields, SameWire, SameCounts
  <2> HIDE DEF t
  <2>3. t.is \in [Streams -> BOOLEAN] /\ t.os \in [Streams -> BOOLEAN] BY <2>1
  <2>4. Shape(t) BY <2>1, <2>3 DEF Clear, Shape
  <2>5. Clear(t) BY <2>1, <2>2, <2>4, ClearKept
  <2>6. Does(t, c) /\ c.timers = t.timers \cup {"write"} BY <2>4, TimerOn
  <2> HIDE DEF c
  <2>7. /\ Shape(c) /\ SameWire(t, c) /\ c.state = t.state /\ c.place = t.place
        /\ c.all = t.all /\ c.done = t.done
        /\ In(c.events, "response") => In(t.events, "response")
    BY <2>6 DEF Does, Same, Core, SameWire, SameCounts
  <2>8. Clear(c) BY <2>5, <2>7, ClearKept
  <2> QED BY <1>2, <2>0, <2>1, <2>6, <2>7, <2>8
<1>3. CASE s.place = "none" /\ ~ made
  BY <1>3 DEF nxd_http_proxy_pool_connect
<1> QED BY <1>1, <1>2, <1>3

LEMMA StartClear ==
  ASSUME NEW c, Clear(c), c.place = "used", c.state \in {"CONNECTING", "IDLE"},
         c.timers \subseteq {IF c.state = "IDLE" THEN "keep_alive" ELSE "write"}
  PROVE  LET z == StartRequest(c)
         IN  /\ Clear(z) /\ z.place = "used" /\ z.state \in {"CONNECTING", "SENDING_HEADERS"}
             /\ ~ z.all /\ ~ z.done /\ z.timers \subseteq {"write"} /\ z.size = c.size
<1> DEFINE t == [c EXCEPT !.nxb = TRUE, !.headers = TRUE, !.fwd = FALSE,
                     !.tripped = @ \/ c.nxb \/ c.state \notin {"CONNECTING", "IDLE"},
                     !.sending = FALSE, !.wait100 = FALSE, !.done = FALSE,
                     !.all = FALSE, !.queued = FALSE]
           a == [t EXCEPT !.state = "SENDING_HEADERS"]
           b == nxe_unset_timer(a, "keep_alive")
           d == nxe_set_timer(b, "write")
           u == IF c.state = "IDLE" THEN d ELSE t
           z == nxe_istream_set_ready(u, "out")
<1>0. StartRequest(c) = z BY DEF StartRequest
<1>1. /\ DOMAIN t = Fields /\ t.events = c.events /\ t.is = c.is /\ t.os = c.os
      /\ t.timers = c.timers /\ t.state = c.state /\ t.place = c.place /\ ~ t.all /\ ~ t.done
  BY DEF Clear, Shape, Fields
<1>2. SameWire(c, t) BY DEF Clear, Shape, Fields, SameWire, SameCounts
<1> HIDE DEF t
<1>3. Shape(t) BY <1>1 DEF Clear, Shape
<1>4. Clear(t) BY <1>1, <1>2, <1>3, ClearKept
<1>5. /\ DOMAIN a = Fields /\ a.events = t.events /\ a.is = t.is /\ a.os = t.os
      /\ a.timers = t.timers /\ a.state = "SENDING_HEADERS" /\ a.place = t.place /\ ~ a.all /\ ~ a.done
      /\ SameWire(t, a)
  BY <1>1 DEF Fields, SameWire, SameCounts
<1> HIDE DEF a
<1>6. Shape(a) BY <1>3, <1>5 DEF Shape
<1>7. Does(a, b) /\ b.timers = a.timers \ {"keep_alive"} BY <1>6, TimerOff
<1> HIDE DEF b
<1>8. Does(b, d) /\ d.timers = b.timers \cup {"write"} BY <1>7, TimerOn DEF Does
<1> HIDE DEF d
<1>9. /\ Shape(d) /\ SameWire(t, d) /\ d.state = "SENDING_HEADERS" /\ d.place = t.place /\ ~ d.all /\ ~ d.done
      /\ In(d.events, "response") => In(t.events, "response")
  BY <1>5, <1>7, <1>8 DEF Does, Same, Core, SameWire, SameCounts
<1>10. Clear(d) BY <1>4, <1>9, ClearKept
<1>11. /\ Clear(u) /\ u.place = "used" /\ u.state \in {"CONNECTING", "SENDING_HEADERS"}
       /\ ~ u.all /\ ~ u.done /\ u.timers \subseteq {"write"} /\ u.size = c.size
  <2>1. CASE c.state = "IDLE"
    <3>1. d.timers \subseteq {"write"} BY <1>1, <1>5, <1>7, <1>8, <2>1
    <3>2. d.size = c.size BY <1>2, <1>9 DEF SameWire, SameCounts
    <3> QED BY <1>1, <1>9, <1>10, <2>1, <3>1, <3>2
  <2>2. CASE c.state = "CONNECTING"
    <3>1. t.size = c.size BY <1>2 DEF SameWire, SameCounts
    <3> QED BY <1>1, <1>4, <2>2, <3>1
  <2> QED BY <2>1, <2>2
<1> HIDE DEF u
<1>12. Does(u, z) /\ z.timers = u.timers BY <1>11, OutputOn DEF Clear
<1> HIDE DEF z
<1>13. /\ Shape(z) /\ SameWire(u, z) /\ z.state = u.state /\ z.place = u.place /\ ~ z.all /\ ~ z.done
       /\ z.size = u.size
       /\ In(z.events, "response") => In(u.events, "response")
  BY <1>11, <1>12 DEF Does, Same, Core, SameWire, SameCounts
<1>14. Clear(z) BY <1>11, <1>13, ClearKept
<1> QED BY <1>0, <1>11, <1>12, <1>13, <1>14

LEMMA SoundConnects ==
  ASSUME NEW s, Sound(s), s.place # "pool", NEW y \in Streams
  PROVE  LET t == nxe_connect_streams(s, y)
         IN  Sound(t) /\ t.state = s.state /\ t.place = s.place
<1> DEFINE u == [s EXCEPT !.pair = @ \cup {y}]
           v == nxe_link(u, y)
           t == IF u.is[y] /\ u.os[y] THEN v ELSE u
<1>0. nxe_connect_streams(s, y) = t BY DEF nxe_connect_streams
<1>1. /\ DOMAIN u = Fields /\ u.events = s.events /\ u.is = s.is /\ u.os = s.os /\ u.timers = s.timers
      /\ Same([u EXCEPT !.pair = s.pair], s)
  BY DEF Sound, Shape, Fields, Same, Core
<1> HIDE DEF u
<1>2. Shape(u) /\ u.state = s.state /\ u.place = s.place BY <1>1 DEF Sound, Shape, Fields, Same, Core
<1>3. Sound(u) BY <1>1, <1>2, SoundPair
<1>4. /\ DOMAIN v = Fields /\ Same(u, v) /\ v.events = Append(u.events, y)
      /\ v.timers = u.timers /\ v.is = u.is /\ v.os = u.os
  BY <1>2 DEF nxe_link, Shape, Fields, Same, Core
<1> HIDE DEF v
<1>5. y \in Events /\ y # "response" BY DEF Events, Streams
<1>6. v.events \in Seq(Events) /\ (In(v.events, "response") => In(u.events, "response"))
  BY <1>2, <1>4, <1>5, Appended DEF Shape
<1>7. Mild(u, v) BY <1>2, <1>4, <1>6 DEF Mild, Does, Shape
<1>8. Sound(v) /\ Same(u, v) BY <1>3, <1>7, SoundMild
<1> QED BY <1>0, <1>2, <1>3, <1>8 DEF Same, Core

LEMMA SoundStarts ==
  ASSUME NEW s, Sound(s), Free(s), s.via # "backend", NEW made
  PROVE  Sound(start_proxy_request(s, made))
<1> DEFINE a == [s EXCEPT !.complete = FALSE, !.error = FALSE, !.started = FALSE]
           c == nxd_http_proxy_pool_connect(a, made)
           b == StartRequest(c)
           t == [b EXCEPT !.rb_resp = 0, !.eof_resp = FALSE, !.os["resp"] = TRUE]
           u == nxe_connect_streams(t, "resp")
           w == [u EXCEPT !.rb_req = 0, !.eof_req = FALSE, !.is["req"] = FALSE]
           v == IF s.size = 0 THEN u ELSE nxe_connect_streams(w, "req")
<1>0. start_proxy_request(s, made) = IF c.place = "used" THEN nxe_set_timer(v, "backend") ELSE c
  BY DEF start_proxy_request
<1>S. "resp" \in Streams /\ "req" \in Streams BY DEF Streams
<1>1. /\ DOMAIN a = Fields /\ a.events = s.events /\ a.is = s.is /\ a.os = s.os
      /\ a.timers = s.timers /\ a.state = s.state /\ a.place = s.place /\ Same(s, a)
  BY DEF Sound, Shape, Fields, Same, Core
<1> HIDE DEF a
<1>2. Sound(a) BY <1>1, SoundUnrelated
<1>3. /\ Clear(s) /\ s.state = (IF s.place = "none" THEN "CONNECTING" ELSE "IDLE")
      /\ s.timers \subseteq (IF s.place = "none" THEN {} ELSE {"keep_alive"})
      /\ s.place \in {"none", "pool"}
  BY FreeIsClear DEF Free
<1>4. Clear(a)
  <2>1. Shape(a) /\ SameWire(s, a) BY <1>1, <1>2 DEF Sound, Same, Core, SameWire, SameCounts
  <2> QED BY <1>1, <1>3, <2>1, ClearKept
<1>5. \/ /\ Clear(c) /\ c.place = "used" /\ c.state \in {"CONNECTING", "IDLE"}
         /\ c.timers \subseteq {IF c.state = "IDLE" THEN "keep_alive" ELSE "write"}
      \/ c = a /\ a.place = "none"
  <2>1. /\ a.state = (IF a.place = "none" THEN "CONNECTING" ELSE "IDLE")
        /\ a.timers \subseteq (IF a.place = "none" THEN {} ELSE {"keep_alive"})
        /\ a.place \in {"none", "pool"}
    BY <1>1, <1>3
  <2> QED BY <1>4, <2>1, ConnectClear
<1> HIDE DEF c
<1>6. CASE c = a /\ a.place = "none" BY <1>0, <1>2, <1>6
<1>7. CASE /\ Clear(c) /\ c.place = "used" /\ c.state \in {"CONNECTING", "IDLE"}
           /\ c.timers \subseteq {IF c.state = "IDLE" THEN "keep_alive" ELSE "write"}
  <2>1. /\ Clear(b) /\ b.place = "used" /\ b.state \in {"CONNECTING", "SENDING_HEADERS"}
        /\ ~ b.all /\ ~ b.done /\ b.timers \subseteq {"write"}
    BY <1>7, StartClear
  <2> HIDE DEF b
  <2>2. /\ DOMAIN t = Fields /\ t.events = b.events /\ t.is = b.is
        /\ t.os = [b.os EXCEPT !["resp"] = TRUE] /\ t.timers = b.timers /\ t.state = b.state
        /\ t.place = b.place /\ ~ t.all /\ ~ t.done /\ t.rb_resp = 0 /\ ~ t.eof_resp
    BY <2>1 DEF Clear, Shape, Fields
  <2>3. SameWire([t EXCEPT !.rb_resp = b.rb_resp, !.eof_resp = b.eof_resp], b)
    BY <2>1 DEF Clear, Shape, Fields, SameWire, SameCounts
  <2> HIDE DEF t
  <2>4. t.os \in [Streams -> BOOLEAN] BY <1>S, <2>1, <2>2 DEF Clear, Shape
  <2>5. Shape(t) BY <2>1, <2>2, <2>4 DEF Clear, Shape
  <2>6. Clear(t)
    <3>1. OnWire(t) = OnWire(b) BY <2>2, <2>3 DEF SameWire, Fields, OnWire
    <3>2. 0 \in 0 .. RbufSize BY ProxyAssumption
    <3>3. BoundInv(t) BY <2>1, <2>2, <2>3 DEF SameWire, SameCounts, Fields, Clear, BoundInv
    <3>4. CountInv(t) BY <2>1, <2>2, <2>3, <3>2 DEF SameWire, SameCounts, Fields, Clear, CountInv
    <3> QED BY <2>1, <2>2, <2>3, <2>5, <3>1, <3>3, <3>4 DEF SameWire, SameCounts, Fields, Clear
  <2>7. Sound(t) BY <2>1, <2>2, <2>6, ClearSound
  <2>8. Sound(u) /\ u.state = t.state /\ u.place = t.place BY <1>S, <2>1, <2>2, <2>7, SoundConnects
  <2> HIDE DEF u
  <2>9. Sound(w) /\ w.state = u.state /\ w.place = u.place
    <3>1. /\ DOMAIN w = Fields /\ w.events = u.events /\ w.os = u.os
          /\ w.is = [u.is EXCEPT !["req"] = FALSE] /\ w.timers = u.timers /\ w.rb_req = 0
          /\ w.room = u.room /\ w.retry = u.retry /\ Core(u, w)
      BY <2>8 DEF Sound, Shape, Fields, Core
    <3> HIDE DEF w
    <3>2. w.is \in [Streams -> BOOLEAN] /\ w.is["out"] = u.is["out"]
      <4>1. u.is \in [Streams -> BOOLEAN] /\ "out" \in Streams BY <2>8 DEF Sound, Shape, Streams
      <4> QED BY <1>S, <3>1, <4>1
    <3>3. Shape(w) BY <2>8, <3>1, <3>2 DEF Sound, Shape
    <3>4. 0 \in 0 .. RbufSize BY ProxyAssumption
    <3>5. BoundInv(w) BY <2>8, <3>1, <3>4 DEF Sound, WInv, DataInv, BoundInv
    <3>6. DataInv(w) BY <2>8, <3>1, <3>5, CoreData DEF Sound, WInv
    <3>7. ClockInv(w) /\ NewsInv(w) BY <2>8, <3>1, <3>2 DEF Sound, WInv, ClockInv, NewsInv, Core
    <3> QED BY <3>1, <3>3, <3>6, <3>7 DEF Sound, WInv, Core
  <2> HIDE DEF w
  <2>10. Sound(v) /\ v.state = u.state BY <1>S, <2>1, <2>2, <2>8, <2>9, SoundConnects
  <2> HIDE DEF v
  <2>11. "backend" \in Clocks(v.state) BY <2>1, <2>2, <2>8, <2>10 DEF Clocks, Sending
  <2>12. Sound(nxe_set_timer(v, "backend")) BY <2>10, <2>11, SoundTimers
  <2> QED BY <1>0, <1>7, <2>12
<1> QED BY <1>5, <1>6, <1>7

-----------------------------------------------------------------------------
(* The handler.                                                            *)

LEMMA SoundVia ==
  ASSUME NEW s, Sound(s), NEW t, Shape(t), Same([t EXCEPT !.via = s.via], s),
         t.events = s.events, t.timers = s.timers, t.is = s.is,
         t.via = "backend" => s.place = "used" /\ s.state \in Answering
  PROVE  Sound(t)
<1>1. Shape(s) /\ DataInv(s) /\ DOMAIN t = Fields BY DEF Sound, WInv, Shape
<1>2. /\ OnWire(t) = OnWire(s) /\ Unread(t) = Unread(s) /\ FirstChunk(t) = FirstChunk(s)
  BY <1>1 DEF Same, Core, Fields, OnWire, Unread, FirstChunk
<1>3. BoundInv(t) /\ CountInv(t) BY <1>1 DEF Same, Core, Fields, DataInv, BoundInv, CountInv
<1>4. BufferInv(t) BY <1>1 DEF Same, Core, Fields, DataInv, BufferInv
<1>5. OweInv(t) BY <1>1, <1>2 DEF Same, Core, Fields, DataInv, OweInv
<1>6. UnreadInv(t) BY <1>1, <1>2 DEF Same, Core, Fields, DataInv, UnreadInv
<1>7. ResponseInv(t) BY <1>1 DEF Same, Core, Fields, DataInv, ResponseInv
<1>8. ClockInv(t) /\ NewsInv(t) BY <1>1 DEF Same, Core, Fields, Sound, WInv, ClockInv, NewsInv
<1> QED BY <1>3, <1>4, <1>5, <1>6, <1>7, <1>8 DEF Sound, WInv, DataInv

LEMMA SoundRetries ==
  ASSUME NEW s, Sound(s), Typed(s), "backend" \notin s.timers, s.via # "backend",
         s.retry < RetryCount, NEW made
  PROVE  Sound(retry_proxy_request(s, made))
<1> DEFINE a == [s EXCEPT !.tripped = @ \/ s.conn \notin {"receiving", "handling"}]
           b == nxd_http_proxy_finalize(a)
           c == [b EXCEPT !.retry = @ + 1]
<1>0. retry_proxy_request(s, made) = start_proxy_request(c, made)
  BY DEF retry_proxy_request, nxd_http_proxy_pool_return
<1>1. /\ DOMAIN a = Fields /\ a.events = s.events /\ a.is = s.is /\ a.os = s.os
      /\ a.timers = s.timers /\ Same(s, a) /\ a.expired = s.expired
  BY DEF Typed, Fields, Same, Core
<1> HIDE DEF a
<1>2. Sound(a) /\ Typed(a) /\ "backend" \notin a.timers
  <2>1. Sound(a) BY <1>1, SoundUnrelated
  <2> QED BY <1>1, <2>1 DEF Typed, Same, Core
<1>3. Vacant(b) /\ SameCounts(a, b) BY <1>2, ClocksAre, FinalizeVacates DEF Sound
<1>4. Typed(b) /\ NoneInv(b) BY <1>2, Finalizes DEF Released
<1> HIDE DEF b
<1>5. /\ DOMAIN c = Fields /\ SameLoop(b, c) /\ SameBody(b, c) /\ c.retry = b.retry + 1
  BY <1>4 DEF Typed, Fields, SameLoop, SameBody, SameState, SameTimers, SameStreams
<1>6. Still(b, c) /\ SameCounts([c EXCEPT !.retry = b.retry], b)
  BY <1>4 DEF Typed, Fields, Still, SameCounts
<1> HIDE DEF c
<1>7. Typed(c) BY <1>4, <1>5 DEF Typed, SameLoop, SameBody, SameState, SameTimers, SameStreams
<1>8. NoneInv(c) /\ c.place = "none"
  BY <1>3, <1>4, <1>5 DEF Vacant, NoneInv, SameLoop, SameBody, SameState, SameTimers
<1>9. Free(c) BY <1>7, <1>8 DEF Free, NoneInv
<1>10. Vacant(c)
  <2>1. Shape(c) BY <1>7, TypedShape
  <2> QED BY <1>3, <1>5, <1>6, <1>8, <2>1 DEF Vacant, Still, SameLoop, SameTimers
<1>11. b.retry = s.retry /\ b.via = s.via BY <1>1, <1>3 DEF SameCounts, Same, Core
<1>12. c.retry \in 0 .. RetryCount
  <2>1. s.retry \in 0 .. RetryCount /\ RetryCount \in Nat
    BY ProxyAssumption DEF Sound, WInv, DataInv, BoundInv
  <2> QED BY <1>5, <1>11, <2>1
<1>13. Counts(c) /\ c.via # "backend"
  <2>1. Counts(a) BY <1>2 DEF Sound, WInv, DataInv, BoundInv, CountInv, Counts
  <2> QED BY <1>3, <1>5, <1>6, <1>11, <1>12, <2>1 DEF Counts, SameCounts, Fields
<1>14. Sound(c) BY <1>10, <1>13, SoundVacant
<1> QED BY <1>0, <1>9, <1>13, <1>14, SoundStarts

LEMMA SoundFails ==
  ASSUME NEW s, Sound(s), s.pair \subseteq Streams PROVE Sound(fail_proxy_request(s))
<1> DEFINE t == [s EXCEPT !.conn = "sending", !.via = "error", !.started = TRUE, !.complete = TRUE]
<1>1. /\ DOMAIN t = Fields /\ t.events = s.events /\ t.is = s.is /\ t.os = s.os /\ t.timers = s.timers
      /\ Same([t EXCEPT !.via = s.via], s) /\ t.via = "error"
  BY DEF Sound, Shape, Fields, Same, Core
<1>0. fail_proxy_request(s) = IF s.started THEN request_finalize(s) ELSE t BY DEF fail_proxy_request
<1> HIDE DEF t
<1>2. Shape(t) BY <1>1 DEF Sound, Shape
<1>3. Sound(t) BY <1>1, <1>2, SoundVia
<1> QED BY <1>0, <1>3, SoundRequestEnds

LEMMA SoundTimeout ==
  ASSUME NEW s, Sound(s), InUse(s), "backend" \notin s.timers, NEW made
  PROVE  Sound(timer_backend_on_timeout(s, made))
<1> DEFINE t == [s EXCEPT !.tripped = @ \/ s.place # "used"]
<1>0. timer_backend_on_timeout(s, made) =
        CASE s.sending \/ s.started -> t
          [] ~ (s.sending \/ s.started) /\ s.retry >= RetryCount -> fail_proxy_request(t)
          [] OTHER -> retry_proxy_request(t, made)
  BY DEF timer_backend_on_timeout
<1>1. /\ DOMAIN t = Fields /\ t.events = s.events /\ t.is = s.is /\ t.os = s.os
      /\ t.timers = s.timers /\ Same(s, t) /\ t.expired = s.expired
  BY DEF InUse, Typed, Fields, Same, Core
<1> HIDE DEF t
<1>2. Sound(t) /\ Typed(t) /\ "backend" \notin t.timers /\ t.pair \subseteq Streams
  <2>1. Sound(t) BY <1>1, SoundUnrelated
  <2> QED BY <1>1, <2>1 DEF InUse, Typed, Same, Core
<1>3. Sound(fail_proxy_request(t)) BY <1>2, SoundFails
<1>4. ASSUME ~ s.started, ~ (s.retry >= RetryCount) PROVE Sound(retry_proxy_request(t, made))
  <2>1. t.via # "backend" BY <1>1, <1>4 DEF InUse, PlaceInv, Same, Core
  <2>2. s.retry \in 0 .. RetryCount /\ RetryCount \in Nat
    BY ProxyAssumption DEF Sound, WInv, DataInv, BoundInv
  <2>3. t.retry < RetryCount BY <1>1, <1>4, <2>2 DEF Same
  <2> QED BY <1>2, <2>1, <2>3, SoundRetries
<1> QED BY <1>0, <1>2, <1>3, <1>4

LEMMA SoundOnResponse ==
  ASSUME NEW s, Sound(s), s.place = "used", s.state \in Answering PROVE Sound(OnResponse(s))
<1> DEFINE a == [s EXCEPT !.started = TRUE]
           t == nxe_unset_timer(a, "backend")
           u == [t EXCEPT !.conn = "sending", !.via = "backend"]
<1>0. OnResponse(s) = IF s.conn = "sending" THEN t ELSE u BY DEF OnResponse
<1>1. /\ DOMAIN a = Fields /\ a.events = s.events /\ a.is = s.is /\ a.os = s.os
      /\ a.timers = s.timers /\ Same(s, a)
  BY DEF Sound, Shape, Fields, Same, Core
<1> HIDE DEF a
<1>2. Sound(a) BY <1>1, SoundUnrelated
<1>3. Sound(t) /\ Same(a, t) BY <1>2, SoundTimers
<1> HIDE DEF t
<1>4. /\ DOMAIN u = Fields /\ u.events = t.events /\ u.is = t.is /\ u.os = t.os
      /\ u.timers = t.timers /\ Same([u EXCEPT !.via = t.via], t)
  BY <1>3 DEF Sound, Shape, Fields, Same, Core
<1> HIDE DEF u
<1>5. Shape(u) BY <1>3, <1>4 DEF Sound, Shape
<1>6. t.place = "used" /\ t.state \in Answering BY <1>1, <1>3 DEF Same, Core
<1>7. Sound(u) BY <1>3, <1>4, <1>5, <1>6, SoundVia
<1> QED BY <1>0, <1>3, <1>7

LEMMA SoundOnError ==
  ASSUME NEW s, Sound(s), InUse(s), NEW made PROVE Sound(OnError(s, made))
<1> DEFINE t == [s EXCEPT !.error = TRUE, !.tripped = @ \/ s.place # "used"]
           u == nxe_unset_timer(t, "backend")
<1>0. OnError(s, made) =
        CASE s.complete -> t
          [] ~ s.complete /\ s.started -> fail_proxy_request(t)
          [] OTHER -> IF s.retry >= RetryCount \/ s.sending THEN fail_proxy_request(u)
                      ELSE retry_proxy_request(u, made)
  BY DEF OnError
<1>1. /\ DOMAIN t = Fields /\ t.events = s.events /\ t.is = s.is /\ t.os = s.os
      /\ t.timers = s.timers /\ Same(s, t) /\ t.expired = s.expired
  BY DEF InUse, Typed, Fields, Same, Core
<1> HIDE DEF t
<1>2. Sound(t) /\ Typed(t) /\ t.pair \subseteq Streams
  <2>1. Sound(t) BY <1>1, SoundUnrelated
  <2> QED BY <1>1, <2>1 DEF InUse, Typed, Same, Core
<1>3. Sound(u) /\ Same(t, u) BY <1>2, SoundTimers
<1>4. Typed(u) /\ "backend" \notin u.timers
  <2>1. Calm(t, u) /\ u.timers = t.timers \ {"backend"} BY <1>2, UnsetTimer
  <2>2. Typed(u) BY <2>1 DEF Calm, Kept
  <2> QED BY <2>1, <2>2
<1> HIDE DEF u
<1>5. Sound(fail_proxy_request(t)) BY <1>2, SoundFails
<1>6. Sound(fail_proxy_request(u)) BY <1>3, <1>4, SoundFails DEF Typed
<1>7. ASSUME ~ s.started, ~ (s.retry >= RetryCount) PROVE Sound(retry_proxy_request(u, made))
  <2>1. u.via # "backend" BY <1>1, <1>3, <1>7 DEF InUse, PlaceInv, Same, Core
  <2>2. s.retry \in 0 .. RetryCount /\ RetryCount \in Nat
    BY ProxyAssumption DEF Sound, WInv, DataInv, BoundInv
  <2>3. u.retry < RetryCount BY <1>1, <1>3, <1>7, <2>2 DEF Same
  <2> QED BY <1>3, <1>4, <2>1, <2>3, SoundRetries
<1> QED BY <1>0, <1>2, <1>5, <1>6, <1>7

-----------------------------------------------------------------------------
(* The network thread's steps.                                             *)

LEMMA HereSound == ASSUME ProxyInv, WInv(p) PROVE Sound(p)
BY TypedShape DEF ProxyInv, Inv, Sound

LEMMA SoundExpires ==
  ASSUME NEW s, Sound(s), Turn(s), NEW x \in Timers, NEW made PROVE Sound(Timeout(s, x, made))
<1> DEFINE u == nxe_unset_timer(s, x)
<1>T. Typed(s) /\ PlaceInv(s) BY DEF Turn, Inv
<1>1. CASE x \notin s.expired
  <2>1. Timeout(s, x, made) = s BY <1>1 DEF Timeout
  <2> QED BY <2>1
<1>2. Sound(u) BY SoundTimers
<1>3. CASE x \in s.expired /\ x # "backend"
  <2>0. Timeout(s, x, made) = nxe_publish(u, "error") BY <1>3 DEF Timeout
  <2> HIDE DEF u
  <2>1. "error" \in Events \ {"response"} BY DEF Events, Messages, HcpMessages
  <2> QED BY <1>2, <2>0, <2>1, SoundPublish
<1>4. CASE x \in s.expired /\ x = "backend"
  <2>0. Timeout(s, x, made) = timer_backend_on_timeout(u, made) BY <1>4 DEF Timeout
  <2>1. s.place = "used" BY <1>T, <1>4 DEF PlaceInv, Typed
  <2>2. InUse(s) BY <2>1 DEF Turn, Inv, ConnInv, InUse
  <2>3. InUse(u) /\ "backend" \notin u.timers BY <1>4, <2>2, BackendTimerOff
  <2> HIDE DEF u
  <2> QED BY <1>2, <2>0, <2>3, SoundTimeout
<1> QED BY <1>1, <1>3, <1>4

LEMMA SoundTimersProcessed ==
  ASSUME NEW s, Sound(s), Turn(s), NEW made \in BOOLEAN
  PROVE  Sound(ProcessTimers(s, made))
<1> DEFINE a == Timeout(s, "keep_alive", made)
           b == Timeout(a, "read", made)
           c == Timeout(b, "write", made)
           d == Timeout(c, "backend", made)
           e == Timeout(d, "100continue", made)
<1>0. ProcessTimers(s, made) = e BY DEF ProcessTimers
<1>S. /\ "keep_alive" \in Timers /\ "read" \in Timers /\ "write" \in Timers
      /\ "backend" \in Timers /\ "100continue" \in Timers
  BY DEF Timers, HcpTimers
<1>1. Turn(a) /\ Sound(a) BY <1>S, TimerExpires, SoundExpires
<1> HIDE DEF a
<1>2. Turn(b) /\ Sound(b) BY <1>S, <1>1, TimerExpires, SoundExpires
<1> HIDE DEF b
<1>3. Turn(c) /\ Sound(c) BY <1>S, <1>2, TimerExpires, SoundExpires
<1> HIDE DEF c
<1>4. Turn(d) /\ Sound(d) BY <1>S, <1>3, TimerExpires, SoundExpires
<1> HIDE DEF d
<1>5. Sound(e) BY <1>S, <1>4, SoundExpires
<1> QED BY <1>0, <1>5

LEMMA SoundReported == ASSUME NEW r, Sound(r) PROVE Sound(Reported(r))
<1> DEFINE s == IF "in" \in r.edge THEN nxe_istream_set_ready(r, "in") ELSE r
           t == IF "out" \in r.edge THEN nxe_ostream_set_ready(s, "out") ELSE s
           u == CASE "err" \in r.edge -> nxe_publish(t, "sock_error")
                  [] "err" \notin r.edge /\ "hup" \in r.edge -> nxe_publish(t, "data_error")
                  [] OTHER -> t
           v == [u EXCEPT !.edge = {}]
<1>0. Reported(r) = v BY DEF Reported
<1>S. /\ "in" \in Streams /\ "out" \in Streams /\ "in" # "out"
      /\ "sock_error" \in Events \ {"response"} /\ "data_error" \in Events \ {"response"}
  BY DEF Streams, Events, Messages, SockMessages
<1>1. Sound(s) BY <1>S, SoundStreams
<1> HIDE DEF s
<1>2. Sound(t) BY <1>S, <1>1, SoundStreams
<1> HIDE DEF t
<1>3. Sound(u) BY <1>S, <1>2, SoundPublish
<1> HIDE DEF u
<1>4. /\ DOMAIN v = Fields /\ v.events = u.events /\ v.is = u.is /\ v.os = u.os
      /\ v.timers = u.timers /\ Same(u, v)
  BY <1>3 DEF Sound, Shape, Fields, Same, Core
<1> HIDE DEF v
<1>5. Sound(v) BY <1>3, <1>4, SoundUnrelated
<1> QED BY <1>0, <1>5

LEMMA WireLoopTurn == ASSUME ProxyInv, WInv(p), LoopTurn PROVE WInv(p')
<1>1. Turn(Reported(p)) BY TurnBegins
<1>2. PICK made \in BOOLEAN : p' = ProcessTimers(Reported(p), made) BY TurnBegins
<1>3. Sound(Reported(p)) BY HereSound, SoundReported
<1>4. Sound(p') BY <1>1, <1>2, <1>3, SoundTimersProcessed
<1> QED BY <1>4 DEF Sound

LEMMA SoundPopped ==
  ASSUME ProxyInv, WInv(p), NEW m, Delivers(m) PROVE Sound(Popped) /\ Same(p, Popped) /\ Typed(Popped)
<1> DEFINE t == Popped
<1>1. Typed(t) /\ SameRequest(p, t) BY TakesHead
<1>2. Typed(p) BY DEF ProxyInv, Inv
<1>3. /\ DOMAIN t = Fields /\ t.events = Tail(p.events) /\ Same(p, t) /\ t.timers = p.timers
      /\ t.is = p.is /\ t.os = p.os
  BY <1>2 DEF Popped, Typed, Fields, Same, Core
<1> HIDE DEF t
<1>4. In(t.events, "response") => In(p.events, "response")
  <2>1. p.events \in Seq(Events) /\ p.events # <<>> BY <1>2 DEF Typed, Delivers
  <2> QED BY <1>3, <2>1, Popping
<1>5. Mild(p, t) BY <1>1, <1>3, <1>4, TypedShape DEF Mild, Does
<1>6. Sound(t) BY <1>5, HereSound, SoundMild
<1> QED BY <1>1, <1>3, <1>6 DEF t

LEMMA WireStreamBegin == ASSUME ProxyInv, WInv(p), NEW x, StreamBegin(x) PROVE WInv(p')
<1>1. Delivers(x) /\ p' = Popped BY DEF StreamBegin
<1>2. Sound(Popped) BY <1>1, SoundPopped
<1> HIDE DEF Popped
<1> QED BY <1>1, <1>2 DEF Sound

LEMMA WireStreamRound == ASSUME ProxyInv, WInv(p), NEW x \in Streams, StreamRound(x) PROVE WInv(p')
<1>1. Inv(p, x) /\ Flowing(p, x) BY DEF ProxyInv, StreamRound
<1>2. PICK size \in 1 .. RbufSize : p' = do_stream(x, size) BY DEF StreamRound
<1>3. size \in Nat BY <1>2, ProxyAssumption
<1>4. p.place # "none" BY <1>1 DEF Inv, NoneInv, Flowing
<1>5. p.place \in {"used", "pool"} /\ StateInv(p) BY <1>1, <1>4 DEF Inv, PlaceInv, ConnInv
<1>6. Sound(p) BY HereSound
<1>7. Sound(p')
  <2>1. CASE x = "in"
    <3>1. p' = data_in_do_read(p) BY <1>2, <2>1 DEF do_stream
    <3>2. p.place = "pool" => p.state = "IDLE" BY <1>5 DEF StateInv
    <3> QED BY <1>5, <1>6, <3>1, <3>2, SoundInput
  <2>2. CASE x = "out"
    <3>1. p' = data_out_do_write(p, size) BY <1>2, <2>2 DEF do_stream
    <3>2. p.is["out"] BY <1>1, <2>2 DEF Flowing
    <3> QED BY <1>3, <1>6, <3>1, <3>2, SoundOutput
  <2>3. CASE x = "req"
    <3>1. p' = rb_req_do_write(p, size) BY <1>2, <2>3 DEF do_stream
    <3>2. p.state = "SENDING_BODY" BY <1>1, <1>5, <2>3 DEF Flowing, StateInv
    <3> QED BY <1>3, <1>6, <3>1, <3>2, SoundRequestRing
  <2>4. CASE x = "resp"
    <3>1. p' = rb_resp_do_read(p) BY <1>2, <2>4 DEF do_stream
    <3>2. p.place # "pool" BY <1>1, <2>4 DEF Flowing, WInv, DataInv, ResponseInv
    <3> QED BY <1>5, <1>6, <3>1, <3>2, SoundResponseRing
  <2> QED BY <2>1, <2>2, <2>3, <2>4 DEF Streams
<1> QED BY <1>7 DEF Sound

LEMMA WireStreamEnd == ASSUME ProxyInv, WInv(p), NEW x \in Streams, StreamEnd(x) PROVE WInv(p')
<1> DEFINE t == nxe_link(p, x)
<1>1. p' = IF Flowing(p, x) THEN t ELSE p BY DEF StreamEnd
<1>2. Shape(p) BY HereSound DEF Sound
<1>3. /\ DOMAIN t = Fields /\ Same(p, t) /\ t.events = Append(p.events, x)
      /\ t.timers = p.timers /\ t.is = p.is /\ t.os = p.os
  BY <1>2 DEF nxe_link, Shape, Fields, Same, Core
<1> HIDE DEF t
<1>4. x \in Events /\ x # "response" BY DEF Events, Streams
<1>5. t.events \in Seq(Events) /\ (In(t.events, "response") => In(p.events, "response"))
  BY <1>2, <1>3, <1>4, Appended DEF Shape
<1>6. Mild(p, t) BY <1>2, <1>3, <1>5 DEF Mild, Does, Shape
<1>7. WInv(t) BY <1>6, MildKeeps
<1> QED BY <1>1, <1>7

LEMMA WireSocketError == ASSUME ProxyInv, WInv(p), SocketErrorDelivered PROVE WInv(p')
<1>1. PICK m \in SockMessages, hup \in BOOLEAN : Delivers(m) /\ p' = data_error_on_message(Popped, hup)
  BY DEF SocketErrorDelivered, SockMessages
<1>2. Sound(Popped) BY <1>1, SoundPopped
<1> HIDE DEF Popped
<1>3. Sound(p') BY <1>1, <1>2, SoundDataError
<1> QED BY <1>3 DEF Sound

LEMMA WireHandlerMessage == ASSUME ProxyInv, WInv(p), HandlerMessage PROVE WInv(p')
<1> DEFINE s == Popped
<1>0. p.place # "pool" BY DEF HandlerMessage
<1>1. ASSUME NEW m, Delivers(m) PROVE Sound(s) /\ Same(p, s) BY <1>1, SoundPopped
<1>2. CASE Delivers("connected") /\ p' = Popped
  <2>1. Sound(s) BY <1>1, <1>2
  <2> QED BY <1>2, <2>1 DEF Sound
<1>3. CASE Delivers("response") /\ p' = OnResponse(Popped)
  <2>1. In(p.events, "response") BY <1>3, TakesHead
  <2>2. p.place = "used" /\ p.state \in Answering BY <2>1 DEF WInv, NewsInv
  <2>3. Sound(s) /\ Same(p, s) BY <1>1, <1>3
  <2> HIDE DEF s
  <2>4. s.place = "used" /\ s.state \in Answering BY <2>2, <2>3 DEF Same, Core
  <2>5. Sound(OnResponse(s)) BY <2>3, <2>4, SoundOnResponse
  <2> QED BY <1>3, <2>5 DEF Sound, s
<1>4. CASE Delivers("complete") /\ p' = [Popped EXCEPT !.complete = TRUE]
  <2> DEFINE t == [s EXCEPT !.complete = TRUE]
  <2>1. Sound(s) /\ p' = t BY <1>1, <1>4
  <2> HIDE DEF s
  <2>2. /\ DOMAIN t = Fields /\ t.events = s.events /\ t.is = s.is /\ t.os = s.os
        /\ t.timers = s.timers /\ Same(s, t)
    BY <2>1 DEF Sound, Shape, Fields, Same, Core
  <2> HIDE DEF t
  <2>3. Sound(t) BY <2>1, <2>2, SoundUnrelated
  <2> QED BY <2>1, <2>3 DEF Sound
<1>5. CASE Delivers("error") /\ \E made \in BOOLEAN : p' = OnError(Popped, made)
  <2>1. PICK made \in BOOLEAN : p' = OnError(Popped, made) BY <1>5
  <2>2. "error" \in Messages BY DEF Messages, HcpMessages
  <2>3. /\ Typed(s) /\ BodyInv(s) /\ PlaceInv(s) /\ SameRequest(p, s)
        /\ p.place # "none" /\ StateInv(s) /\ FlowInv(s, "error")
    BY <1>5, <2>2, TakesHead
  <2>4. Sound(s) BY <1>1, <1>5
  <2> HIDE DEF s
  <2>5. "none" \notin Streams /\ "error" \notin Streams BY DEF Streams
  <2>6. FlowInv(s, "none") BY <2>3, <2>5 DEF FlowInv
  <2>7. s.place = "used" BY <1>0, <2>3 DEF SameRequest, PlaceInv
  <2>8. InUse(s) BY <2>3, <2>6, <2>7 DEF InUse
  <2>9. Sound(OnError(s, made)) BY <2>4, <2>8, SoundOnError
  <2> QED BY <2>1, <2>9 DEF Sound, s
<1> HIDE DEF s
<1> QED BY <1>2, <1>3, <1>4, <1>5 DEF HandlerMessage

LEMMA WireIdleMessage == ASSUME ProxyInv, WInv(p), IdleMessage PROVE WInv(p')
<1> DEFINE s == Popped
           t == nxd_http_proxy_finalize(s)
<1>1. PICK m \in HcpMessages : Delivers(m) /\ p' = IF m = "error" THEN t ELSE s
  BY DEF IdleMessage
<1>2. Sound(s) /\ Same(p, s) BY <1>1, SoundPopped
<1>3. p.place = "pool" BY DEF IdleMessage
<1> HIDE DEF s
<1>4. s.via # "backend" BY <1>2, <1>3 DEF WInv, DataInv, ResponseInv, Same, Core
<1>5. Vacant(t) /\ SameCounts(s, t) BY <1>2, ClocksAre, FinalizeVacates DEF Sound
<1> HIDE DEF t
<1>6. Counts(t) /\ t.via # "backend"
  <2>1. Counts(s) BY <1>2 DEF Sound, WInv, DataInv, BoundInv, CountInv, Counts
  <2> QED BY <1>4, <1>5, <2>1 DEF Counts, SameCounts
<1>7. Sound(t) BY <1>5, <1>6, SoundVacant
<1> QED BY <1>1, <1>2, <1>7 DEF Sound

LEMMA WireClientMessage == ASSUME ProxyInv, WInv(p), ClientMessage PROVE WInv(p')
<1>1. Delivers("client") /\ p' = request_finalize(Popped) BY DEF ClientMessage
<1>2. Sound(Popped) /\ Typed(Popped) BY <1>1, SoundPopped
<1> HIDE DEF Popped
<1>3. Sound(p') BY <1>1, <1>2, SoundRequestEnds DEF Typed
<1> QED BY <1>3 DEF Sound

-----------------------------------------------------------------------------
(* The client's connection.                                                *)

LEMMA WireRequestBegins ==
  ASSUME ProxyInv, WInv(p), NEW m, NEW n \in BodySizes, NEW made, RequestBegins(m, n, made)
  PROVE  WInv(p')
<1> DEFINE c == IF n > 0 THEN "receiving" ELSE "handling"
           s == [p EXCEPT !.no = @ + 1, !.method = m, !.size = n, !.left = n, !.conn = c]
           t == start_proxy_request(s, made)
           u == [t EXCEPT !.conn = "sending", !.via = "error"]
<1>1. /\ p.conn = "idle" /\ p' = (IF t.place = "used" THEN t ELSE u) /\ Inv(p, "none")
  BY DEF RequestBegins, Idle, ProxyInv
<1> HIDE DEF c
<1>T. Typed(p) /\ PlaceInv(p) /\ Sound(p) BY <1>1, HereSound DEF Inv
<1>2. p.place \in {"none", "pool"} /\ p.via = "none" BY <1>1, <1>T DEF PlaceInv
<1>3. /\ DOMAIN s = Fields /\ SameLoop(p, s) /\ SameBody(p, s) /\ s.complete = p.complete
      /\ s.error = p.error
  BY <1>T DEF Typed, Fields, SameLoop, SameBody, SameState, SameTimers, SameStreams
<1>4. Same([s EXCEPT !.no = p.no, !.size = p.size], p) /\ s.no = p.no + 1 /\ s.size = n
  BY <1>T DEF Typed, Fields, Same, Core
<1> HIDE DEF s
<1>5. Free(s) BY <1>1, <1>3, FreeForRequest
<1>6. Sound(s)
  <2>1. Shape(s) /\ DataInv(p) BY <1>5, TypedShape DEF Free, WInv
  <2>2. p.state \in {"CONNECTING", "IDLE"}
    BY <1>3, <1>5 DEF Free, NoneInv, ConnInv, StateInv, SameBody, SameState
  <2>3. n \in Nat /\ (p.no \in Nat => p.no + 1 \in Nat) BY ProxyAssumption
  <2>4. OnWire(s) = OnWire(p) /\ Unread(s) = Unread(p) /\ FirstChunk(s) = FirstChunk(p)
    BY <1>3, <1>4 DEF Same, Core, Fields, OnWire, Unread, FirstChunk
  <2>5. BoundInv(s) BY <1>3, <1>4, <2>1 DEF Same, Core, Fields, DataInv, BoundInv
  <2>6. CountInv(s) BY <1>3, <1>4, <2>1, <2>3 DEF Same, Core, Fields, DataInv, CountInv
  <2>7. BufferInv(s) BY <1>3, <1>4, <2>1 DEF Same, Core, Fields, DataInv, BufferInv
  <2>8. OweInv(s) BY <1>3, <1>4, <2>1, <2>2 DEF Same, Core, Fields, DataInv, OweInv, Asked
  <2>9. UnreadInv(s) BY <1>3, <1>4, <2>1, <2>2, <2>4 DEF Same, Core, Fields, DataInv, UnreadInv, Asked
  <2>10. ResponseInv(s) BY <1>2, <1>3, <1>4, <2>1 DEF Same, Core, Fields, DataInv, ResponseInv
  <2>11. ClockInv(s) /\ NewsInv(s)
    BY <1>3, <1>4 DEF SameLoop, SameTimers, SameStreams, Same, Core, Fields, WInv, ClockInv, NewsInv
  <2> QED BY <2>1, <2>5, <2>6, <2>7, <2>8, <2>9, <2>10, <2>11 DEF Sound, WInv, DataInv
<1>7. s.via # "backend" BY <1>2, <1>3, <1>4 DEF Same, Core, Fields
<1>8. Sound(t) BY <1>5, <1>6, <1>7, SoundStarts
<1> HIDE DEF t
<1>9. /\ DOMAIN u = Fields /\ u.events = t.events /\ u.is = t.is /\ u.os = t.os
      /\ u.timers = t.timers /\ Same([u EXCEPT !.via = t.via], t) /\ u.via = "error"
  BY <1>8 DEF Sound, Shape, Fields, Same, Core
<1> HIDE DEF u
<1>10. Shape(u) BY <1>8, <1>9 DEF Sound, Shape
<1>11. Sound(u) BY <1>8, <1>9, <1>10, SoundVia
<1> QED BY <1>1, <1>8, <1>11 DEF Sound

LEMMA WireSendsBody ==
  ASSUME ProxyInv, WInv(p), NEW k \in 1 .. RbufSize, ClientSendsBody(k) PROVE WInv(p')
<1> DEFINE c == IF k = p.left THEN "handling" ELSE p.conn
           s == [p EXCEPT !.rb_req = @ + k, !.left = @ - k, !.eof_req = k = p.left, !.conn = c]
           t == nxe_istream_set_ready(s, "req")
<1>1. p' = t /\ p.rb_req + k <= RbufSize BY DEF ClientSendsBody
<1> HIDE DEF c
<1>2. Sound(p) BY HereSound
<1>3. /\ DOMAIN s = Fields /\ s.events = p.events /\ s.is = p.is /\ s.os = p.os /\ s.timers = p.timers
      /\ s.room = p.room /\ s.retry = p.retry /\ s.rb_req = p.rb_req + k /\ Core(p, s)
  BY <1>2 DEF Sound, Shape, Fields, Core
<1> HIDE DEF s
<1>4. s.rb_req \in 0 .. RbufSize
  <2>1. p.rb_req \in 0 .. RbufSize /\ RbufSize \in Nat /\ k \in Nat
    BY ProxyAssumption DEF WInv, DataInv, BoundInv
  <2> QED BY <1>1, <1>3, <2>1
<1>5. BoundInv(s) BY <1>3, <1>4 DEF WInv, DataInv, BoundInv
<1>6. DataInv(s) BY <1>3, <1>5, CoreData DEF WInv
<1>7. ClockInv(s) /\ NewsInv(s) BY <1>3 DEF WInv, ClockInv, NewsInv, Core
<1>8. Sound(s) BY <1>2, <1>3, <1>6, <1>7 DEF Sound, Shape, WInv
<1>9. "req" \in Streams /\ "req" # "out" BY DEF Streams
<1>10. Sound(t) BY <1>8, <1>9, SoundStreams
<1> QED BY <1>1, <1>10 DEF Sound

LEMMA WireTakes ==
  ASSUME ProxyInv, WInv(p), NEW k \in 1 .. RbufSize, ClientTakes(k) PROVE WInv(p')
<1> DEFINE s == [p EXCEPT !.rb_resp = @ - k]
           t == nxe_ostream_set_ready(s, "resp")
<1>1. p' = (IF p.eof_resp THEN s ELSE t) /\ k <= p.rb_resp BY DEF ClientTakes
<1>2. Sound(p) BY HereSound
<1>3. /\ DOMAIN s = Fields /\ s.events = p.events /\ s.is = p.is /\ s.os = p.os /\ s.timers = p.timers
      /\ s.rb_resp = p.rb_resp - k /\ Same([s EXCEPT !.rb_resp = p.rb_resp], p)
  BY <1>2 DEF Sound, Shape, Fields, Same, Core
<1> HIDE DEF s
<1>4. s.rb_resp \in 0 .. RbufSize /\ p.rb_resp # 0
  <2>1. p.rb_resp \in 0 .. RbufSize /\ RbufSize \in Nat /\ k \in Nat /\ k # 0
    BY ProxyAssumption DEF WInv, DataInv, CountInv
  <2> QED BY <1>1, <1>3, <2>1
<1>5. Sound(s)
  <2>1. Shape(s) /\ DataInv(p) BY <1>2, <1>3 DEF Sound, WInv, Shape
  <2>4. OnWire(s) = OnWire(p) /\ Unread(s) = Unread(p) /\ FirstChunk(s) = FirstChunk(p)
    BY <1>3 DEF Same, Core, Fields, OnWire, Unread, FirstChunk
  <2>5. BoundInv(s) BY <1>3, <2>1 DEF Same, Core, Fields, DataInv, BoundInv
  <2>6. CountInv(s) BY <1>3, <1>4, <2>1 DEF Same, Core, Fields, DataInv, CountInv
  <2>7. BufferInv(s) BY <1>3, <1>4, <2>1 DEF Same, Core, Fields, DataInv, BufferInv
  <2>8. OweInv(s) BY <1>3, <2>1, <2>4 DEF Same, Core, Fields, DataInv, OweInv
  <2>9. UnreadInv(s) BY <1>3, <2>1, <2>4 DEF Same, Core, Fields, DataInv, UnreadInv
  <2>10. ResponseInv(s) BY <1>3, <2>1 DEF Same, Core, Fields, DataInv, ResponseInv
  <2>11. ClockInv(s) /\ NewsInv(s) BY <1>3 DEF Same, Core, Fields, WInv, ClockInv, NewsInv
  <2> QED BY <2>1, <2>5, <2>6, <2>7, <2>8, <2>9, <2>10, <2>11 DEF Sound, WInv, DataInv
<1>6. "resp" \in Streams BY DEF Streams
<1>7. Sound(t) BY <1>5, <1>6, SoundStreams
<1> QED BY <1>1, <1>5, <1>7 DEF Sound

LEMMA WireClientEnds == ASSUME ProxyInv, WInv(p), ClientDone \/ ClientGone PROVE WInv(p')
<1>1. p' = nxe_publish(p, "client") BY DEF ClientDone, ClientGone
<1>2. "client" \in Events \ {"response"} BY DEF Events, ClientMessages
<1>3. Sound(p') BY <1>1, <1>2, HereSound, SoundPublish
<1> QED BY <1>3 DEF Sound

-----------------------------------------------------------------------------
(* The backend, and time.                                                  *)

LEMMA SoundPeer ==
  ASSUME NEW s, Sound(s), NEW pend \in Seq(Pieces), NEW wire \in Seq(Pieces), NEW closed, NEW edge,
         NEW room \in 0 .. TxRoom, NEW owed, NEW said, NEW toend, NEW expired,
         LET t == Peer(s, pend, wire, closed, edge, room, owed, said, toend, expired)
         IN  OweInv(t) /\ UnreadInv(t)
  PROVE  Sound(Peer(s, pend, wire, closed, edge, room, owed, said, toend, expired))
<1> DEFINE t == Peer(s, pend, wire, closed, edge, room, owed, said, toend, expired)
<1>0. Shape(s) /\ DataInv(s) /\ OweInv(t) /\ UnreadInv(t) BY DEF Sound, WInv
<1>1. /\ DOMAIN t = Fields /\ t.events = s.events /\ t.is = s.is /\ t.os = s.os /\ t.timers = s.timers
      /\ t.pend = pend /\ t.wire = wire /\ t.room = room /\ t.rb_req = s.rb_req /\ t.retry = s.retry
      /\ t.owed = owed /\ t.said100 = said
  BY <1>0 DEF Peer, Shape, Fields
<1>2. Core([t EXCEPT !.pend = s.pend, !.wire = s.wire, !.owed = s.owed, !.said100 = s.said100], s)
  BY <1>0 DEF Peer, Shape, Fields, Core
<1> HIDE DEF t
<1>3. Shape(t) BY <1>0, <1>1 DEF Shape
<1>4. BoundInv(t) BY <1>0, <1>1 DEF DataInv, BoundInv
<1>5. CountInv(t) BY <1>0, <1>1, <1>2 DEF Core, Fields, DataInv, CountInv
<1>6. BufferInv(t) BY <1>0, <1>1, <1>2 DEF Core, Fields, DataInv, BufferInv
<1>7. ResponseInv(t) BY <1>0, <1>1, <1>2 DEF Core, Fields, DataInv, ResponseInv
<1>8. ClockInv(t) /\ NewsInv(t) BY <1>1, <1>2 DEF Core, Fields, Sound, WInv, ClockInv, NewsInv
<1>9. Sound(t) BY <1>0, <1>3, <1>4, <1>5, <1>6, <1>7, <1>8 DEF Sound, WInv, DataInv
<1> QED BY <1>9 DEF t

LEMMA PeerIs ==
  ASSUME NEW s, Shape(s), NEW pend, NEW wire, NEW closed, NEW edge,
         NEW room, NEW owed, NEW said, NEW toend, NEW expired
  PROVE  LET t == Peer(s, pend, wire, closed, edge, room, owed, said, toend, expired)
         IN  /\ t.state = s.state /\ t.asked = s.asked /\ t.no = s.no /\ t.size = s.size
             /\ t.wait100 = s.wait100 /\ t.resp = s.resp /\ t.received = s.received
             /\ t.all = s.all /\ t.head = s.head /\ FirstChunk(t) = FirstChunk(s)
             /\ t.owed = owed /\ t.said100 = said /\ t.wire = wire /\ t.pend = pend
<1> DEFINE t == Peer(s, pend, wire, closed, edge, room, owed, said, toend, expired)
<1>1. /\ t.state = s.state /\ t.asked = s.asked /\ t.no = s.no /\ t.size = s.size
      /\ t.wait100 = s.wait100 /\ t.resp = s.resp /\ t.received = s.received
      /\ t.all = s.all /\ t.head = s.head /\ t.chunk = s.chunk
  BY DEF Peer, Shape, Fields
<1>2. t.owed = owed /\ t.said100 = said /\ t.wire = wire /\ t.pend = pend
  BY DEF Peer, Shape, Fields
<1> HIDE DEF t
<1>3. FirstChunk(t) = FirstChunk(s) BY <1>1 DEF FirstChunk
<1> QED BY <1>1, <1>2, <1>3 DEF t

(* Nothing is put on the wire.                                             *)
LEMMA SoundSameWire ==
  ASSUME NEW s, Sound(s), NEW pend \in Seq(Pieces), NEW wire \in Seq(Pieces), NEW closed, NEW edge,
         NEW room \in 0 .. TxRoom, NEW toend, NEW expired, wire \o pend = OnWire(s)
  PROVE  Sound(Peer(s, pend, wire, closed, edge, room, s.owed, s.said100, toend, expired))
<1> DEFINE t == Peer(s, pend, wire, closed, edge, room, s.owed, s.said100, toend, expired)
<1>0. Shape(s) /\ DataInv(s) BY DEF Sound, WInv
<1>1. /\ t.state = s.state /\ t.asked = s.asked /\ t.no = s.no /\ t.size = s.size
      /\ t.wait100 = s.wait100 /\ t.resp = s.resp /\ t.received = s.received
      /\ t.all = s.all /\ t.head = s.head /\ FirstChunk(t) = FirstChunk(s)
      /\ t.owed = s.owed /\ t.said100 = s.said100 /\ t.wire = wire /\ t.pend = pend
  BY <1>0, PeerIs
<1> HIDE DEF t
<1>2. OnWire(t) = OnWire(s) BY <1>1 DEF OnWire
<1>3. Unread(t) = Unread(s) BY <1>1, <1>2 DEF Unread
<1>4. OweInv(t) BY <1>0, <1>1, <1>3 DEF DataInv, OweInv
<1>5. UnreadInv(t) BY <1>0, <1>1, <1>2, <1>3 DEF DataInv, UnreadInv
<1> QED BY <1>4, <1>5, SoundPeer DEF t

(* The connection ends: v is what is left of q.                            *)
LEMMA AnnouncedCut ==
  ASSUME NEW q \in Seq(Pieces), NEW no, NEW v \in Seq(Pieces),
         Len(v) <= Len(q), \A j \in 1 .. Len(v) : v[j] = q[j]
  PROVE  /\ Announced(q, no) => Announced(v, no)
         /\ Has100(v) => Has100(q)
         /\ Only100(q) => Only100(v)
         /\ q = <<>> => v = <<>>
<1>1. Len(q) \in Nat /\ Len(v) \in Nat BY LenProperties
<1>2. \A i \in 1 .. Len(v) : i \in 1 .. Len(q) /\ v[i] = q[i] /\ i \in Nat BY <1>1
<1>3. (Has100(v) => Has100(q)) /\ (Only100(q) => Only100(v)) BY <1>2 DEF Has100, Only100
<1>4. q = <<>> => v = <<>>
  <2>1. q = <<>> => Len(v) = 0 BY <1>1
  <2> QED BY <2>1, EmptySeq
<1>5. ASSUME Announced(q, no) PROVE Announced(v, no)
  <2> SUFFICES ASSUME NEW i \in 1 .. Len(v)
               PROVE  /\ v[i].piece = "100" => i = 1
                      /\ v[i].piece = "head" => v[i].no = no /\ Behind(v[i], 0, v, i)
    BY DEF Announced
  <2>1. i \in 1 .. Len(q) /\ v[i] = q[i] /\ i \in Nat BY <1>2
  <2>2. /\ q[i].piece = "100" => i = 1
        /\ q[i].piece = "head" => q[i].no = no /\ Behind(q[i], 0, q, i)
    BY <1>5, <2>1 DEF Announced
  <2>3. q[i].size \in Nat
    <3>1. q[i] \in Pieces BY <2>1, ElementOfSeq
    <3> QED BY <3>1 DEF Pieces
  <2>4. Behind(q[i], 0, q, i) => Behind(q[i], 0, v, i) BY <2>1, <2>3, BehindCut
  <2> QED BY <2>1, <2>2, <2>4
<1> QED BY <1>3, <1>4, <1>5

LEMMA SoundCutOff ==
  ASSUME NEW s, Sound(s), NEW pend, pend = <<>>, NEW wire, wire = s.wire \/ wire = <<>>, NEW closed,
         NEW edge, NEW toend, NEW expired
  PROVE  Sound(Peer(s, pend, wire, closed, edge, s.room, s.owed, s.said100, toend, expired))
<1> DEFINE t == Peer(s, pend, wire, closed, edge, s.room, s.owed, s.said100, toend, expired)
           q == OnWire(s)
           v == OnWire(t)
<1>0. Shape(s) /\ DataInv(s) /\ CountInv(s) /\ s.room \in 0 .. TxRoom BY DEF Sound, WInv, DataInv, BoundInv
<1>1. /\ t.state = s.state /\ t.asked = s.asked /\ t.no = s.no /\ t.size = s.size
      /\ t.wait100 = s.wait100 /\ t.resp = s.resp /\ t.received = s.received
      /\ t.all = s.all /\ t.head = s.head /\ FirstChunk(t) = FirstChunk(s)
      /\ t.owed = s.owed /\ t.said100 = s.said100 /\ t.wire = wire /\ t.pend = pend
  BY <1>0, PeerIs
<1> HIDE DEF t
<1>2. /\ s.wire \in Seq(Pieces) /\ s.pend \in Seq(Pieces) /\ s.head \in Seq(Pieces)
      /\ pend \in Seq(Pieces) /\ wire \in Seq(Pieces)
  BY <1>0, NoPieces DEF CountInv
<1>3. v = wire BY <1>1, <1>2, ConcatEmptySeq DEF OnWire
<1>4. /\ q \in Seq(Pieces) /\ v \in Seq(Pieces) /\ Len(q) \in Nat /\ Len(v) \in Nat
      /\ Len(v) <= Len(q) /\ \A j \in 1 .. Len(v) : v[j] = q[j]
  <2>1. /\ q \in Seq(Pieces) /\ Len(s.wire) \in Nat /\ Len(s.pend) \in Nat
        /\ Len(q) = Len(s.wire) + Len(s.pend)
        /\ \A j \in 1 .. Len(s.wire) + Len(s.pend) : j <= Len(s.wire) => q[j] = s.wire[j]
    BY <1>2, Joined DEF OnWire
  <2> HIDE DEF q, v
  <2>2. CASE wire = s.wire
    <3> DEFINE a == Len(s.wire)
               b == Len(s.pend)
    <3>1. a \in Nat /\ b \in Nat /\ Len(q) = a + b /\ Len(v) = a /\ v = s.wire BY <1>3, <2>1, <2>2
    <3>2. \A j \in 1 .. a + b : j <= a => q[j] = s.wire[j] BY <2>1
    <3> HIDE DEF a, b
    <3>3. a <= a + b /\ a + b \in Nat /\ \A j \in 1 .. a : j \in 1 .. a + b /\ j <= a BY <3>1
    <3>4. \A j \in 1 .. a : v[j] = q[j] BY <3>1, <3>2, <3>3
    <3> QED BY <1>2, <1>3, <2>1, <3>1, <3>3, <3>4
  <2>3. CASE wire = <<>>
    <3>1. Len(v) = 0 BY <1>3, <2>3
    <3>2. Len(q) \in Nat BY <2>1, LenProperties
    <3>3. 0 <= Len(q) /\ 1 .. 0 = {} BY <3>2
    <3> QED BY <1>2, <1>3, <2>1, <3>1, <3>2, <3>3
  <2> QED BY <2>2, <2>3
<1>5. /\ Unread(s) \in Seq(Pieces) /\ Unread(t) \in Seq(Pieces) /\ Len(Unread(t)) <= Len(Unread(s))
      /\ \A j \in 1 .. Len(Unread(t)) : Unread(t)[j] = Unread(s)[j]
  <2> HIDE DEF q, v
  <2> DEFINE h == s.head
             l == Len(h)
  <2>1. Unread(s) = h \o q /\ Unread(t) = h \o v BY <1>1 DEF Unread, q, v
  <2>2. /\ h \o q \in Seq(Pieces) /\ l \in Nat /\ Len(h \o q) = l + Len(q)
        /\ \A i \in 1 .. l + Len(q) : i <= l => (h \o q)[i] = h[i]
        /\ \A i \in 1 .. l + Len(q) : ~ (i <= l) => (h \o q)[i] = q[i - l]
    BY <1>2, <1>4, Joined
  <2>3. /\ h \o v \in Seq(Pieces) /\ Len(h \o v) = l + Len(v)
        /\ \A i \in 1 .. l + Len(v) : i <= l => (h \o v)[i] = h[i]
        /\ \A i \in 1 .. l + Len(v) : ~ (i <= l) => (h \o v)[i] = v[i - l]
    BY <1>2, <1>4, Joined
  <2> HIDE DEF h, l
  <2>4. /\ l + Len(v) <= l + Len(q)
        /\ \A i \in 1 .. l + Len(v) : i \in 1 .. l + Len(q) /\ (~ (i <= l) => i - l \in 1 .. Len(v))
    BY <1>4, <2>2
  <2>5. ASSUME NEW i \in 1 .. l + Len(v) PROVE (h \o v)[i] = (h \o q)[i]
    <3>1. CASE i <= l BY <2>2, <2>3, <2>4, <3>1
    <3>2. CASE ~ (i <= l)
      <4>1. v[i - l] = q[i - l] BY <1>4, <2>4, <3>2
      <4> QED BY <2>2, <2>3, <2>4, <3>2, <4>1
    <3> QED BY <3>1, <3>2
  <2> QED BY <2>1, <2>2, <2>3, <2>4, <2>5
<1>6. /\ Announced(Unread(s), s.no) => Announced(Unread(t), s.no)
      /\ Has100(Unread(t)) => Has100(Unread(s))
      /\ Only100(Unread(s)) => Only100(Unread(t))
      /\ Unread(s) = <<>> => Unread(t) = <<>>
  BY <1>5, AnnouncedCut
<1>7. q = <<>> => v = <<>> BY <1>4, AnnouncedCut
<1>8. s.state = "RECEIVING_BODY" => Behind(s.resp, s.received + FirstChunk(s), v, 0)
  <2>1. s.received + FirstChunk(s) \in Nat /\ s.resp.size \in Nat
    <3>1. s.received \in Nat /\ s.chunk \in Nat \cup {NoChunk} /\ s.resp \in Pieces BY <1>0 DEF CountInv
    <3>2. FirstChunk(s) \in Nat BY <3>1 DEF FirstChunk
    <3> HIDE DEF FirstChunk
    <3> QED BY <3>1, <3>2 DEF Pieces
  <2>2. s.state = "RECEIVING_BODY" => Behind(s.resp, s.received + FirstChunk(s), q, 0)
    BY <1>0 DEF DataInv, UnreadInv
  <2> HIDE DEF q, v, FirstChunk
  <2> QED BY <1>4, <2>1, <2>2, BehindCut
<1>9. OweInv(t) BY <1>0, <1>1, <1>6 DEF DataInv, OweInv
<1> HIDE DEF v, q
<1>10. UnreadInv(t)
  <2>1. OnWire(t) = v /\ OnWire(s) = q BY DEF v, q
  <2> QED BY <1>0, <1>1, <1>6, <1>7, <1>8, <2>1 DEF DataInv, UnreadInv
<1> QED BY <1>0, <1>2, <1>9, <1>10, SoundPeer DEF t

LEMMA WireHolds ==
  ASSUME ProxyInv, WInv(p)
  PROVE  /\ Typed(p) /\ Sound(p) /\ p.wire \in Seq(Pieces) /\ p.pend \in Seq(Pieces)
         /\ p.head \in Seq(Pieces) /\ p.room \in 0 .. TxRoom /\ TxRoom \in 0 .. TxRoom
<1>1. Typed(p) /\ Sound(p) BY HereSound DEF ProxyInv, Inv
<1>2. TxRoom \in 0 .. TxRoom BY ProxyAssumption
<1> QED BY <1>1, <1>2 DEF WInv, DataInv, CountInv, BoundInv

LEMMA WireBackendReads == ASSUME ProxyInv, WInv(p), BackendAccepts \/ BackendReads PROVE WInv(p')
<1>1. Typed(p) BY WireHolds
<1>2. PICK room \in {p.room, TxRoom} :
        p' = Peer(p, p.pend, p.wire, p.rdclosed, p.edge \cup {"out"}, room, p.owed, p.said100,
                  p.toend, p.expired)
  <2>1. CASE BackendAccepts BY <1>1, <2>1 DEF Peer, BackendAccepts, Typed
  <2>2. CASE BackendReads BY <1>1, <2>2 DEF Peer, BackendReads, Typed
  <2> QED BY <2>1, <2>2
<1>3. room \in 0 .. TxRoom BY WireHolds
<1>4. p.wire \o p.pend = OnWire(p) BY DEF OnWire
<1>5. Sound(p') BY <1>2, <1>3, <1>4, WireHolds, SoundSameWire
<1> QED BY <1>5 DEF Sound

LEMMA WireExpire == ASSUME ProxyInv, WInv(p), NEW t, Expire(t) PROVE WInv(p')
<1>1. Typed(p) BY WireHolds
<1>2. p' = [p EXCEPT !.expired = @ \cup {t}] BY DEF Expire
<1>3. p' = Peer(p, p.pend, p.wire, p.rdclosed, p.edge, p.room, p.owed, p.said100,
                p.toend, p.expired \cup {t})
  BY <1>1, <1>2 DEF Peer, Typed
<1>4. p.wire \o p.pend = OnWire(p) BY DEF OnWire
<1>5. Sound(p') BY <1>3, <1>4, WireHolds, SoundSameWire
<1> QED BY <1>5 DEF Sound

LEMMA WireBackendSends == ASSUME ProxyInv, WInv(p), BackendSends PROVE WInv(p')
<1> DEFINE w == Append(p.wire, Head(p.pend))
           r == Tail(p.pend)
           a == p.wire
           b == p.pend
<1>1. Typed(p) /\ a \in Seq(Pieces) /\ b \in Seq(Pieces) BY WireHolds
<1>2. p' = [p EXCEPT !.wire = w, !.pend = r, !.edge = @ \cup {"in"}] /\ b # <<>>
  BY DEF BackendSends
<1>3. w \in Seq(Pieces) /\ r \in Seq(Pieces) /\ w \o r = a \o b
  <2> HIDE DEF a, b
  <2> DEFINE e == Head(b)
             c == <<e>>
             d == Tail(b)
  <2>1. e \in Pieces /\ d \in Seq(Pieces) BY <1>1, <1>2, HeadTailProperties
  <2>2. c \in Seq(Pieces) BY <2>1
  <2>3. b = c \o d BY <1>1, <1>2
  <2>4. Append(a, e) \in Seq(Pieces) /\ Append(a, e) = a \o c
    BY <1>1, <2>1, AppendProperties, AppendIsConcat
  <2> HIDE DEF c, d, e
  <2>5. (a \o c) \o d = a \o (c \o d) BY <1>1, <2>1, <2>2, ConcatAssociative
  <2> QED BY <2>1, <2>3, <2>4, <2>5 DEF w, r, a, b, d, e
<1> HIDE DEF w, r
<1>4. p' = Peer(p, r, w, p.rdclosed, p.edge \cup {"in"}, p.room, p.owed, p.said100,
                p.toend, p.expired)
  BY <1>1, <1>2 DEF Peer, Typed
<1>5. w \o r = OnWire(p) BY <1>3 DEF OnWire
<1>6. Sound(p') BY <1>3, <1>4, <1>5, WireHolds, SoundSameWire
<1> QED BY <1>6 DEF Sound

LEMMA WireBackendEnds == ASSUME ProxyInv, WInv(p), BackendCloses \/ BackendFails PROVE WInv(p')
<1>1. Typed(p) BY WireHolds
<1>2. PICK pend, wire, edge : 
        /\ pend = <<>> /\ (wire = p.wire \/ wire = <<>>)
        /\ p' = Peer(p, pend, wire, TRUE, edge, p.room, p.owed, p.said100, p.toend, p.expired)
  <2>1. CASE BackendCloses
    <3>1. p' = Peer(p, <<>>, p.wire, TRUE, p.edge \cup {"in", "hup"}, p.room, p.owed, p.said100,
                    p.toend, p.expired)
      BY <1>1, <2>1 DEF Peer, BackendCloses, Typed
    <3> QED BY <3>1
  <2>2. CASE BackendFails
    <3>1. p' = Peer(p, <<>>, <<>>, TRUE, p.edge \cup {"err"}, p.room, p.owed, p.said100,
                    p.toend, p.expired)
      BY <1>1, <2>2 DEF Peer, BackendFails, Typed
    <3> QED BY <3>1
  <2> QED BY <2>1, <2>2
<1>3. Sound(p') BY <1>2, WireHolds, SoundCutOff
<1> QED BY <1>3 DEF Sound

Regrouped(a, b, c, d) == (a \o (b \o c)) \o d = a \o (b \o (c \o d))

LEMMA JoinedAll ==
  ASSUME NEW a \in Seq(Pieces), NEW b \in Seq(Pieces), NEW c \in Seq(Pieces), NEW d \in Seq(Pieces)
  PROVE  Regrouped(a, b, c, d)
<1> DEFINE g == b \o c
<1>1. g \in Seq(Pieces) BY ConcatProperties
<1>2. g \o d = b \o (c \o d) BY ConcatAssociative
<1> HIDE DEF g
<1>3. (a \o g) \o d = a \o (g \o d) BY <1>1, ConcatAssociative, SMTT(30)
<1> QED BY <1>2, <1>3 DEF g, Regrouped

(* The backend says more, as it owes an answer: then q is unread.          *)
Said(q, no, wait, owed, said) ==
  Announced(q, no) /\ (Has100(q) => wait) /\ (owed => Only100(q) /\ said)
Says(s, more, pend, owed, said) ==
  /\ more \in Seq(Pieces) /\ pend = s.pend \o more
  /\ Said(Unread(s) \o more, s.no, s.wait100, owed, said)

LEMMA SoundSays ==
  ASSUME NEW s, Sound(s), s.owed, NEW more, NEW pend, NEW owed, NEW said, NEW toend,
         Says(s, more, pend, owed, said)
  PROVE  Sound(Peer(s, pend, s.wire, s.rdclosed, s.edge, s.room, owed, said, toend, s.expired))
<1> DEFINE t == Peer(s, pend, s.wire, s.rdclosed, s.edge, s.room, owed, said, toend, s.expired)
           q == Unread(s) \o more
<1>0. Shape(s) /\ DataInv(s) /\ s.room \in 0 .. TxRoom /\ s.state \in Asked /\ s.asked = s.no
  BY DEF Sound, WInv, DataInv, BoundInv, OweInv
<1>1. /\ t.state = s.state /\ t.asked = s.asked /\ t.no = s.no /\ t.size = s.size
      /\ t.wait100 = s.wait100 /\ t.resp = s.resp /\ t.received = s.received
      /\ t.all = s.all /\ t.head = s.head /\ FirstChunk(t) = FirstChunk(s)
      /\ t.owed = owed /\ t.said100 = said /\ t.wire = s.wire /\ t.pend = pend
  BY <1>0, PeerIs
<1> HIDE DEF t, q
<1>2. /\ s.wire \in Seq(Pieces) /\ s.pend \in Seq(Pieces) /\ s.head \in Seq(Pieces)
      /\ more \in Seq(Pieces)
  BY <1>0 DEF DataInv, CountInv, Says
<1>3. Unread(t) = q
  <2> DEFINE a == s.head
             b == s.wire
             c == s.pend
  <2>1. a \in Seq(Pieces) /\ b \in Seq(Pieces) /\ c \in Seq(Pieces) /\ more \in Seq(Pieces) BY <1>2
  <2>2. Unread(t) = a \o (b \o (c \o more)) /\ q = (a \o (b \o c)) \o more
    BY <1>1 DEF Unread, OnWire, q, Says
  <2> HIDE DEF a, b, c
  <2>3. Regrouped(a, b, c, more) BY <2>1, JoinedAll
  <2> QED BY <2>2, <2>3 DEF Regrouped
<1>4. Said(q, s.no, s.wait100, owed, said) BY DEF Says, q
<1>5. OweInv(t) BY <1>0, <1>1, <1>3, <1>4 DEF OweInv, Said
<1>6. UnreadInv(t) BY <1>0, <1>1, <1>3, <1>4 DEF UnreadInv, Asked, Said
<1>7. pend \in Seq(Pieces) BY <1>2, ConcatProperties DEF Says
<1> QED BY <1>0, <1>2, <1>5, <1>6, <1>7, SoundPeer DEF t

LEMMA WireBackend100 == ASSUME ProxyInv, WInv(p), Backend100 PROVE WInv(p')
<1> DEFINE e == Piece("100")
           more == <<e>>
           pend == Append(p.pend, e)
           q == Unread(p) \o more
           yes == TRUE
<1>1. Typed(p) /\ Sound(p) /\ p.pend \in Seq(Pieces) BY WireHolds
<1>2. e \in Pieces /\ e.piece = "100" BY DEF Piece, Pieces
<1>3. p' = Peer(p, pend, p.wire, p.rdclosed, p.edge, p.room, p.owed, yes, p.toend, p.expired)
  BY <1>1 DEF Peer, Backend100, Typed
<1>4. p.owed /\ p.wait100 /\ Unread(p) = <<>> BY DEF Backend100, WInv, DataInv, OweInv
<1> HIDE DEF e
<1>5. more \in Seq(Pieces) /\ q = more /\ Len(more) = 1 /\ more[1].piece = "100" BY <1>2, <1>4
<1>6. pend = p.pend \o more BY <1>1, <1>2, AppendIsConcat
<1> HIDE DEF more, pend, q
<1>7. Announced(q, p.no) /\ Only100(q) BY <1>5 DEF Announced, Only100
<1>8. yes OBVIOUS
<1> HIDE DEF yes
<1>9. Says(p, more, pend, p.owed, yes)
  <2>1. Said(q, p.no, p.wait100, p.owed, yes) BY <1>4, <1>7, <1>8 DEF Said
  <2> QED BY <1>5, <1>6, <2>1 DEF Says, q
<1>10. Sound(p') BY <1>1, <1>3, <1>4, <1>9, SoundSays
<1> QED BY <1>10 DEF Sound

(* A head of h parts and its last piece, and a body, behind u.             *)
LEMMA AnswerAnnounced ==
  ASSUME NEW u \in Seq(Pieces), NEW no, Announced(u, no), Only100(u),
         NEW h \in Nat, NEW head \in Seq(Pieces), Len(head) = h + 1,
         \A j \in 1 .. h : head[j].piece = "part", head[h + 1].piece \in {"bad", "head"},
         NEW body \in Seq(Pieces), \A j \in 1 .. Len(body) : body[j].piece \notin {"100", "head"},
         head[h + 1].piece = "head" => head[h + 1].no = no /\ Behind(head[h + 1], 0, body, 0)
  PROVE  LET q == u \o (head \o body) IN Announced(q, no) /\ (Has100(q) => Has100(u))
<1> DEFINE m == head \o body
           q == u \o m
           n == Len(body)
           k == Len(u)
           l == k + (h + 1)
<1>1. /\ m \in Seq(Pieces) /\ n \in Nat /\ Len(m) = h + 1 + n
      /\ \A i \in 1 .. h + 1 + n : i <= h + 1 => m[i] = head[i]
      /\ \A i \in 1 .. h + 1 + n : ~ (i <= h + 1) => m[i] = body[i - (h + 1)]
  <2> DEFINE g == Len(head)
  <2>1. /\ m \in Seq(Pieces) /\ n \in Nat /\ Len(m) = g + n
        /\ \A i \in 1 .. g + n : i <= g => m[i] = head[i]
        /\ \A i \in 1 .. g + n : ~ (i <= g) => m[i] = body[i - g]
    BY Joined
  <2>2. g = h + 1 OBVIOUS
  <2> HIDE DEF g, m, n
  <2> QED BY <2>1, <2>2
<1> HIDE DEF m
<1>2. /\ q \in Seq(Pieces) /\ k \in Nat /\ Len(q) = k + Len(m)
      /\ \A i \in 1 .. k + Len(m) : i <= k => q[i] = u[i]
      /\ \A i \in 1 .. k + Len(m) : ~ (i <= k) => q[i] = m[i - k]
  BY <1>1, Joined
<1> HIDE DEF q, n, k
<1>3. Len(q) = k + (h + 1 + n) /\ l \in Nat BY <1>1, <1>2, SMTT(30)
<1>4. ASSUME NEW i \in 1 .. Len(q), i <= k PROVE i \in 1 .. Len(u) /\ q[i] = u[i]
  <2>1. i \in 1 .. k + Len(m) /\ i \in 1 .. k BY <1>1, <1>2, <1>4
  <2> QED BY <1>2, <1>4, <2>1 DEF k
<1>5. ASSUME NEW i \in 1 .. Len(q), ~ (i <= k), i <= l
      PROVE  i - k \in 1 .. h + 1 /\ q[i] = head[i - k]
  <2>1. i \in 1 .. k + Len(m) /\ i - k \in 1 .. h + 1 + n /\ i - k <= h + 1 /\ i - k \in 1 .. h + 1
    BY <1>1, <1>2, <1>5
  <2> QED BY <1>1, <1>2, <1>5, <2>1
<1>6. ASSUME NEW i \in 1 .. Len(q), ~ (i <= l)
      PROVE  i - l \in 1 .. n /\ q[i] = body[i - l]
  <2>1. /\ i \in 1 .. k + Len(m) /\ i - k \in 1 .. h + 1 + n /\ ~ (i - k <= h + 1) /\ ~ (i <= k)
        /\ i - k - (h + 1) = i - l /\ i - l \in 1 .. n
    BY <1>1, <1>2, <1>6
  <2>2. q[i] = m[i - k] /\ m[i - k] = body[i - k - (h + 1)] BY <1>1, <1>2, <2>1
  <2> QED BY <2>1, <2>2
<1>7. l \in 1 .. Len(q) /\ q[l] = head[h + 1]
  <2>1. l \in 1 .. Len(q) /\ ~ (l <= k) /\ l <= l /\ l - k = h + 1 BY <1>1, <1>2, <1>3
  <2> HIDE DEF l
  <2> QED BY <1>5, <2>1
<1>8. ASSUME NEW i \in 1 .. Len(q)
      PROVE  /\ q[i].piece = "100" => i \in 1 .. Len(u) /\ q[i] = u[i] /\ i = 1
             /\ q[i].piece = "head" => i = l
  <2>1. CASE i <= k
    <3>1. i \in 1 .. Len(u) /\ q[i] = u[i] BY <1>4, <2>1
    <3>2. u[i].piece = "100" /\ i = 1 BY <3>1 DEF Announced, Only100
    <3> QED BY <3>1, <3>2
  <2>2. CASE ~ (i <= k) /\ i <= l
    <3>1. i - k \in 1 .. h + 1 /\ q[i] = head[i - k] BY <1>5, <2>2
    <3>2. i = l \/ i - k \in 1 .. h BY <1>2, <3>1
    <3>3. CASE i = l BY <1>7, <3>3
    <3>4. CASE i - k \in 1 .. h BY <3>1, <3>4
    <3> QED BY <3>2, <3>3, <3>4
  <2>3. CASE ~ (i <= l) BY <1>6, <2>3 DEF n
  <2> QED BY <2>1, <2>2, <2>3
<1>9. q[l].piece = "head" => q[l].no = no /\ Behind(q[l], 0, q, l)
  <2> SUFFICES ASSUME q[l].piece = "head" PROVE q[l].no = no /\ Behind(q[l], 0, q, l) OBVIOUS
  <2> DEFINE r == q[l]
             d == 0 - l
  <2>1. r.no = no /\ Behind(r, 0, body, 0) BY <1>7
  <2>2. r.size \in Nat
    <3>1. r \in Pieces BY <1>2, <1>7, ElementOfSeq
    <3> QED BY <3>1 DEF Pieces
  <2> HIDE DEF r
  <2>3. d \in Int /\ Len(q) + d = n /\ l + d = 0 + 0 /\ 0 + 0 = 0 BY <1>1, <1>2, <1>3
  <2>4. ASSUME NEW j \in l + 1 .. Len(q) PROVE q[j] = body[j + d]
    <3>1. j \in 1 .. Len(q) /\ ~ (j <= l) /\ j + d = j - l BY <1>1, <1>2, <1>3
    <3> HIDE DEF l, d
    <3> QED BY <1>6, <3>1
  <2> HIDE DEF d, l
  <2>5. Behind(r, 0 + 0, q, l) BY <1>2, <1>3, <2>1, <2>2, <2>3, <2>4, BehindMoves DEF n
  <2> QED BY <2>1, <2>3, <2>5 DEF r
<1> HIDE DEF l
<1>10. Announced(q, no) BY <1>8, <1>9 DEF Announced
<1>11. Has100(q) => Has100(u) BY <1>8 DEF Has100
<1> QED BY <1>10, <1>11 DEF q, m

LEMMA WireBackendAnswers ==
  ASSUME ProxyInv, WInv(p), NEW f \in Framings, NEW h \in HeadParts, NEW n \in RespSizes,
         BackendAnswers(f, h, n)
  PROVE  WInv(p')
<1> DEFINE some == [i \in 1 .. n |-> Piece("body")]
           end == (CASE f = "chunked" -> <<Piece("end")>>
                     [] f = "broken" -> <<Piece("junk")>>
                     [] OTHER -> <<>>)
           all == some \o end
           parts == [i \in 1 .. h |-> Piece("part")]
           last == (IF f = "bad" THEN <<Piece("bad")>> ELSE <<HeadEnd(f, n, p.asked)>>)
           head == parts \o last
           body == (IF p.method = "HEAD" THEN <<>> ELSE all)
           pend == p.pend \o head \o body
           close == (f = "close")
           more == head \o body
           no == FALSE
<1>1. /\ Typed(p) /\ Sound(p) /\ p.pend \in Seq(Pieces) /\ p.wire \in Seq(Pieces)
      /\ p.head \in Seq(Pieces)
  BY WireHolds
<1>2. p' = [p EXCEPT !.owed = FALSE, !.toend = close, !.said100 = FALSE, !.pend = pend] /\ p.owed
  BY DEF BackendAnswers
<1>3. /\ h \in Nat /\ n \in Nat /\ p.asked \in Nat
      /\ f \in {"length", "final", "chunked", "broken", "close", "bad"}
  BY ProxyAssumption DEF WInv, DataInv, CountInv
<1>4. /\ p.state \in Asked /\ p.asked = p.no /\ Only100(Unread(p)) /\ Announced(Unread(p), p.no)
      /\ (Has100(Unread(p)) => p.wait100)
  BY <1>2 DEF WInv, DataInv, OweInv, UnreadInv
<1> HIDE DEF pend, close
<1>5. p' = Peer(p, pend, p.wire, p.rdclosed, p.edge, p.room, no, no, close, p.expired)
  BY <1>1, <1>2 DEF Peer, Typed
<1>6. /\ head \in Seq(Pieces) /\ Len(head) = h + 1 /\ \A j \in 1 .. h : head[j].piece = "part"
      /\ head[h + 1].piece \in {"bad", "head"}
      /\ head[h + 1].piece = "head" => head[h + 1] = HeadEnd(f, n, p.asked)
  <2>1. Piece("part") \in Pieces /\ Piece("part").piece = "part" BY DEF Piece, Pieces
  <2>2. parts \in Seq(Pieces) /\ Len(parts) = h /\ \A j \in 1 .. h : parts[j].piece = "part"
    <3>1. \A j \in 1 .. h : Piece("part") \in Pieces BY <2>1
    <3>2. parts \in Seq(Pieces) BY <1>3, <3>1, IsASeq
    <3>3. Len(parts) = h BY <1>3, <3>2, LenProperties
    <3> QED BY <2>1, <3>2, <3>3
  <2>3. last \in Seq(Pieces) /\ Len(last) = 1 /\ last[1].piece \in {"bad", "head"}
        /\ (last[1].piece = "head" => last[1] = HeadEnd(f, n, p.asked))
    <3>1. Piece("bad") \in Pieces /\ Piece("bad").piece = "bad" BY DEF Piece, Pieces
    <3>2. HeadEnd(f, n, p.asked) \in Pieces /\ HeadEnd(f, n, p.asked).piece = "head"
      BY <1>3 DEF HeadEnd, Pieces
    <3> QED BY <3>1, <3>2
  <2> HIDE DEF parts, last
  <2>4. /\ head \in Seq(Pieces) /\ Len(head) = Len(parts) + Len(last)
        /\ \A i \in 1 .. Len(parts) + Len(last) : i <= Len(parts) => head[i] = parts[i]
        /\ \A i \in 1 .. Len(parts) + Len(last) : ~ (i <= Len(parts)) => head[i] = last[i - Len(parts)]
    BY <2>2, <2>3, Joined
  <2> HIDE DEF head
  <2>5. /\ \A i \in 1 .. h + 1 : i <= h => head[i] = parts[i]
        /\ \A i \in 1 .. h + 1 : ~ (i <= h) => head[i] = last[i - h]
    BY <2>2, <2>3, <2>4
  <2>6. h + 1 \in 1 .. h + 1 /\ ~ (h + 1 <= h) /\ (h + 1) - h = 1 /\ \A j \in 1 .. h : j \in 1 .. h + 1 /\ j <= h
    BY <1>3
  <2>7. head[h + 1] = last[1] BY <2>5, <2>6
  <2> QED BY <2>2, <2>3, <2>4, <2>5, <2>6, <2>7
<1>7. /\ all \in Seq(Pieces) /\ Len(end) \in {0, 1} /\ Len(all) = n + Len(end)
      /\ \A j \in 1 .. n : all[j].piece = "body"
      /\ Len(end) = 1 => /\ f \in {"chunked", "broken"} /\ all[n + 1].piece \in {"end", "junk"}
  <2>1. /\ Piece("body") \in Pieces /\ Piece("body").piece = "body"
        /\ Piece("end") \in Pieces /\ Piece("end").piece = "end"
        /\ Piece("junk") \in Pieces /\ Piece("junk").piece = "junk"
    BY DEF Piece, Pieces
  <2>2. some \in Seq(Pieces) /\ Len(some) = n /\ \A j \in 1 .. n : some[j].piece = "body"
    <3>1. \A j \in 1 .. n : Piece("body") \in Pieces BY <2>1
    <3>2. some \in Seq(Pieces) BY <1>3, <3>1, IsASeq
    <3>3. Len(some) = n BY <1>3, <3>2, LenProperties
    <3> QED BY <2>1, <3>2, <3>3
  <2>3. /\ end \in Seq(Pieces) /\ Len(end) \in {0, 1}
        /\ Len(end) = 1 => f \in {"chunked", "broken"} /\ end[1].piece \in {"end", "junk"}
    BY <2>1
  <2> HIDE DEF some, end
  <2>4. /\ all \in Seq(Pieces) /\ Len(all) = Len(some) + Len(end)
        /\ \A i \in 1 .. Len(some) + Len(end) : i <= Len(some) => all[i] = some[i]
        /\ \A i \in 1 .. Len(some) + Len(end) : ~ (i <= Len(some)) => all[i] = end[i - Len(some)]
    BY <2>2, <2>3, Joined
  <2> DEFINE m == Len(end)
  <2> HIDE DEF all
  <2>5. /\ \A i \in 1 .. n + m : i <= n => all[i] = some[i]
        /\ \A i \in 1 .. n + m : ~ (i <= n) => all[i] = end[i - n]
        /\ Len(all) = n + m
    BY <2>2, <2>4
  <2>6. m \in {0, 1} BY <2>3
  <2> HIDE DEF m
  <2>7. \A j \in 1 .. n : j \in 1 .. n + m /\ j <= n BY <1>3, <2>6
  <2>8. m = 1 => n + 1 \in 1 .. n + m /\ ~ (n + 1 <= n) /\ (n + 1) - n = 1 BY <1>3
  <2>9. m = 1 => all[n + 1] = end[1] BY <2>5, <2>8
  <2> QED BY <2>2, <2>3, <2>4, <2>5, <2>7, <2>9 DEF m
<1> DEFINE r == HeadEnd(f, n, p.asked)
           m == Len(end)
<1>8. r.no = p.asked /\ r.size = n /\ r.framing = f BY DEF HeadEnd
<1>9. /\ m \in {0, 1} /\ Len(all) = n + m
      /\ m = 1 => f \in {"chunked", "broken"} /\ all[n + 1].piece \in {"end", "junk"}
  BY <1>7
<1> HIDE DEF r, all, head, m
<1>10. Behind(r, 0, all, 0) /\ \A j \in 1 .. Len(all) : all[j].piece \notin {"100", "head"}
  <2>1. m = 1 => Chunked(r) BY <1>8, <1>9 DEF Chunked
  <2>2. ASSUME NEW j \in 0 + 1 .. Len(all)
        PROVE  \/ all[j].piece = "body"
               \/ /\ Chunked(r) /\ j = Len(all) /\ all[j].piece \in {"junk", "end"}
                  /\ 0 + (j - 0 - 1) = n
    <3>1. j \in 1 .. n \/ (m = 1 /\ j = n + 1) BY <1>3, <1>9
    <3>2. CASE j \in 1 .. n BY <1>7, <3>2
    <3>3. CASE m = 1 /\ j = n + 1
      <4>1. j = Len(all) /\ 0 + (j - 0 - 1) = n BY <1>3, <1>9, <3>3
      <4> QED BY <1>9, <2>1, <3>3, <4>1
    <3> QED BY <3>1, <3>2, <3>3
  <2>3. m = 0 => 0 + (Len(all) - 0) <= n BY <1>3, <1>9
  <2>4. Behind(r, 0, all, 0) BY <1>8, <1>9, <2>1, <2>2, <2>3 DEF Behind
  <2>5. \A j \in 1 .. Len(all) : j \in 0 + 1 .. Len(all) BY <1>3, <1>9
  <2> QED BY <2>2, <2>4, <2>5
<1>11. /\ body \in Seq(Pieces) /\ Behind(r, 0, body, 0)
       /\ \A j \in 1 .. Len(body) : body[j].piece \notin {"100", "head"}
  <2>1. Behind(r, 0, <<>>, 0) BY <1>3, <1>8, BehindNothing
  <2>2. Len(<<>>) = 0 /\ 1 .. 0 = {} /\ <<>> \in Seq(Pieces) BY NoPieces
  <2>3. CASE p.method = "HEAD" BY <2>1, <2>2, <2>3
  <2>4. CASE p.method # "HEAD" BY <1>7, <1>10, <2>4
  <2> QED BY <2>3, <2>4
<1> HIDE DEF body
<1> DEFINE u == Unread(p)
           g == head[h + 1]
<1>12. g.piece = "head" => g.no = p.no /\ Behind(g, 0, body, 0) BY <1>4, <1>6, <1>8, <1>11 DEF r
<1>13. u \in Seq(Pieces)
  <2>1. OnWire(p) \in Seq(Pieces) BY <1>1, Joined DEF OnWire
  <2> QED BY <1>1, <2>1, Joined DEF Unread
<1>14. Announced(u \o more, p.no) /\ (Has100(u \o more) => Has100(u))
  <2> DEFINE num == p.no
  <2>1. Announced(u, num) /\ Only100(u) /\ (g.piece = "head" => g.no = num /\ Behind(g, 0, body, 0))
    BY <1>4, <1>12
  <2> HIDE DEF u, num
  <2>2. Announced(u \o more, num) /\ (Has100(u \o more) => Has100(u))
    BY <1>3, <1>6, <1>11, <1>13, <2>1, AnswerAnnounced
  <2> QED BY <2>2 DEF num
<1>15. ~ no OBVIOUS
<1>16. more \in Seq(Pieces) /\ pend = p.pend \o more
  <2>1. more \in Seq(Pieces) BY <1>6, <1>11, Joined
  <2> DEFINE a == p.pend
  <2>2. a \in Seq(Pieces) BY <1>1
  <2> HIDE DEF a
  <2>3. (a \o head) \o body = a \o (head \o body) BY <1>6, <1>11, <2>2, ConcatAssociative, SMTT(30)
  <2> QED BY <2>1, <2>3 DEF a, pend
<1> HIDE DEF no, more, u
<1>17. Says(p, more, pend, no, no)
  <2>1. Said(u \o more, p.no, p.wait100, no, no) BY <1>4, <1>14, <1>15 DEF Said, u
  <2> QED BY <1>16, <2>1 DEF Says, u
<1>18. Sound(p') BY <1>1, <1>2, <1>5, <1>17, SoundSays
<1> QED BY <1>18 DEF Sound

-----------------------------------------------------------------------------
(* The second invariant.                                                   *)

LEMMA WireBegins == ASSUME Init PROVE WireInv
<1>1. p = Over(Fresh, Outer) /\ rounds = 0 BY DEF Init
<1> DEFINE o == Outer
<1>2. /\ DOMAIN o = Fields \ FreshFields /\ o.events = <<>> /\ o.timers = {}
      /\ o.is = [x \in Streams |-> x = "out"] /\ o.os = [x \in Streams |-> FALSE]
      /\ o.place = "none" /\ o.via = "none" /\ o.no = 0 /\ o.size = 0 /\ o.retry = 0
      /\ o.rb_req = 0 /\ o.rb_resp = 0 /\ o.eof_resp = FALSE
  BY DEF Outer, Fields, FreshFields
<1> HIDE DEF o
<1>3. DOMAIN p = DOMAIN Fresh \cup DOMAIN o BY <1>1 DEF Over, o
<1>4. \A f \in DOMAIN Fresh \cup DOMAIN o : p[f] = IF f \in DOMAIN Fresh THEN Fresh[f] ELSE o[f]
  BY <1>1 DEF Over, o
<1>5. FreshFields \subseteq Fields BY DEF Fields, FreshFields
<1>6. DOMAIN p = Fields /\ \A f \in Fields : p[f] = IF f \in FreshFields THEN Fresh[f] ELSE o[f]
  BY <1>2, <1>3, <1>4, <1>5, FreshHas
<1>7. /\ p.state = Fresh.state /\ p.all = Fresh.all /\ p.done = Fresh.done /\ p.head = Fresh.head
      /\ p.resp = Fresh.resp /\ p.received = Fresh.received /\ p.chunk = Fresh.chunk
  BY <1>6 DEF Fields, FreshFields
<1>8. /\ p.wire = Fresh.wire /\ p.pend = Fresh.pend /\ p.asked = Fresh.asked /\ p.owed = Fresh.owed
      /\ p.room = Fresh.room
  BY <1>6 DEF Fields, FreshFields
<1>9. /\ p.events = o.events /\ p.timers = o.timers /\ p.is = o.is /\ p.os = o.os
      /\ p.place = o.place /\ p.via = o.via /\ p.no = o.no /\ p.size = o.size
  BY <1>6 DEF Fields, FreshFields
<1>10. /\ p.retry = o.retry /\ p.rb_req = o.rb_req /\ p.rb_resp = o.rb_resp /\ p.eof_resp = o.eof_resp
  BY <1>6 DEF Fields, FreshFields
<1>11. Shape(p) /\ ~ In(p.events, "response")
  <2>1. p.events = <<>> /\ p.events \in Seq(Events) BY <1>2, <1>9
  <2>2. p.is \in [Streams -> BOOLEAN] /\ p.os \in [Streams -> BOOLEAN] BY <1>2, <1>9
  <2>3. Len(p.events) = 0 BY <2>1
  <2> QED BY <1>6, <2>1, <2>2, <2>3 DEF Shape, In
<1>12. Vacant(p) BY <1>2, <1>7, <1>8, <1>9, <1>11, FreshHas DEF Vacant
<1>13. RbufSize \in Nat /\ RetryCount \in Nat /\ LoopGuard \in Nat BY ProxyAssumption
<1>14. Counts(p) /\ p.via # "backend" BY <1>2, <1>9, <1>10, <1>13 DEF Counts
<1>15. Sound(p) BY <1>12, <1>14, SoundVacant
<1> QED BY <1>1, <1>13, <1>15 DEF Sound, WireInv

LEMMA WireSteps == ASSUME ProxyInv, WireInv, [Next]_vars PROVE WireInv'
<1>0. WInv(p) /\ rounds \in 0 .. LoopGuard /\ LoopGuard \in Nat BY ProxyAssumption DEF WireInv
<1>1. CASE NetStep
  <2>1. ASSUME NEW x \in Streams, StreamBegin(x) PROVE WireInv'
    <3>1. rounds' \in 0 .. LoopGuard BY <1>0, <2>1 DEF StreamBegin
    <3> QED BY <1>0, <2>1, <3>1, WireStreamBegin DEF WireInv
  <2>2. ASSUME NEW x \in Streams, StreamRound(x) PROVE WireInv'
    <3>1. rounds' \in 0 .. LoopGuard BY <1>0, <2>2 DEF StreamRound
    <3> QED BY <1>0, <2>2, <3>1, WireStreamRound DEF WireInv
  <2>3. ASSUME NEW x \in Streams, StreamEnd(x) PROVE WireInv'
    <3>1. rounds' \in 0 .. LoopGuard BY <1>0, <2>3 DEF StreamEnd
    <3> QED BY <1>0, <2>3, <3>1, WireStreamEnd DEF WireInv
  <2>4. CASE LoopTurn \/ SocketErrorDelivered \/ HandlerMessage \/ IdleMessage \/ ClientMessage
    <3>1. rounds' = rounds
      BY <2>4 DEF LoopTurn, SocketErrorDelivered, HandlerMessage, IdleMessage, ClientMessage
    <3>2. WInv(p') BY <1>0, <2>4, WireLoopTurn, WireSocketError, WireHandlerMessage, WireIdleMessage,
                      WireClientMessage
    <3> QED BY <1>0, <3>1, <3>2 DEF WireInv
  <2> QED BY <1>1, <2>1, <2>2, <2>3, <2>4 DEF NetStep
<1>2. CASE Client
  <2>1. ASSUME NEW m, NEW n \in BodySizes, NEW made \in BOOLEAN, RequestBegins(m, n, made) PROVE WireInv'
    <3>1. WInv(p') /\ rounds' = rounds BY <1>0, <2>1, WireRequestBegins DEF RequestBegins
    <3> QED BY <1>0, <3>1 DEF WireInv
  <2>2. ASSUME NEW k \in 1 .. RbufSize, ClientSendsBody(k) \/ ClientTakes(k) PROVE WireInv'
    <3>1. rounds' = rounds BY <2>2 DEF ClientSendsBody, ClientTakes
    <3>2. WInv(p') BY <1>0, <2>2, WireSendsBody, WireTakes
    <3> QED BY <1>0, <3>1, <3>2 DEF WireInv
  <2>3. CASE ClientDone \/ ClientGone
    <3>1. rounds' = rounds BY <2>3 DEF ClientDone, ClientGone
    <3>2. WInv(p') BY <1>0, <2>3, WireClientEnds
    <3> QED BY <1>0, <3>1, <3>2 DEF WireInv
  <2> QED BY <1>2, <2>1, <2>2, <2>3 DEF Client
<1>3. CASE Backend
  <2>1. ASSUME NEW f \in Framings, NEW h \in HeadParts, NEW n \in RespSizes, BackendAnswers(f, h, n)
        PROVE  WireInv'
    <3>1. rounds' = rounds BY <2>1 DEF BackendAnswers
    <3>2. WInv(p') BY <1>0, <2>1, WireBackendAnswers
    <3> QED BY <1>0, <3>1, <3>2 DEF WireInv
  <2>2. CASE BackendAccepts \/ BackendReads \/ Backend100 \/ BackendSends \/ BackendCloses \/ BackendFails
    <3>1. rounds' = rounds
      BY <2>2 DEF BackendAccepts, BackendReads, Backend100, BackendSends, BackendCloses, BackendFails
    <3>2. WInv(p') BY <1>0, <2>2, WireBackendReads, WireBackend100, WireBackendSends, WireBackendEnds
    <3> QED BY <1>0, <3>1, <3>2 DEF WireInv
  <2> QED BY <1>3, <2>1, <2>2 DEF Backend
<1>4. ASSUME NEW t \in Timers, Expire(t) PROVE WireInv'
  <2>1. WInv(p') /\ rounds' = rounds BY <1>0, <1>4, WireExpire DEF Expire
  <2> QED BY <1>0, <2>1 DEF WireInv
<1>5. CASE AllServed \/ UNCHANGED vars
  <2>1. p' = p /\ rounds' = rounds BY <1>5 DEF AllServed, vars
  <2> QED BY <1>0, <2>1 DEF WireInv
<1> QED BY <1>1, <1>2, <1>3, <1>4, <1>5 DEF Next

(* What is unread of a backend belongs to the exchange that goes on: it is *)
(* at most one response, to the request that was sent last, whose body     *)
(* fits the framing it has announced, and "100 Continue" only before it.   *)
(* The bytes counted in nxd_http_client_proto.c agree with it, the timers  *)
(* that run are those of the state, and no buffer is overrun.              *)
THEOREM WireInvariant == Spec => []WireInv
<1>1. Init => WireInv BY WireBegins
<1>2. ProxyInv /\ WireInv /\ [Next]_vars => WireInv' BY WireSteps
<1> QED BY <1>1, <1>2, ProxyInvariant, PTL DEF Spec

(* nxd_http_proxy_pool_return keeps no remainder of an exchange, and no    *)
(* client gets the response to another's request, although connections are *)
(* reused after errors, timeouts and clients that have gone.               *)
THEOREM ReuseIsClean == Spec => []CleanReuse
<1>1. ASSUME ProxyInv, WireInv, p.place = "pool"
      PROVE  /\ p.state = "IDLE" /\ ~ p.nxb /\ p.pair \subseteq {"in", "out"}
             /\ p.timers \subseteq {"keep_alive"}
             /\ ~ p.owed /\ p.pend = <<>> /\ p.wire = <<>>
  <2>1. p.state = "IDLE" BY <1>1 DEF ProxyInv, Inv, ConnInv, StateInv
  <2>2. ~ p.nxb /\ p.pair \subseteq {"in", "out"} /\ ~ UntilClose(p.resp)
    BY <1>1 DEF WireInv, WInv, DataInv, ResponseInv, KeepAlive, UntilClose
  <2>3. p.timers \subseteq {"keep_alive"}
    <3>1. "backend" \notin p.timers BY <1>1 DEF ProxyInv, Inv, PlaceInv
    <3>2. p.timers \subseteq {"backend", "keep_alive"}
      BY <1>1, <2>1 DEF WireInv, WInv, ClockInv, Clocks, Sending
    <3> QED BY <3>1, <3>2
  <2>4. ~ p.owed BY <1>1, <2>1 DEF WireInv, WInv, DataInv, OweInv, Asked
  <2>5. p.pend = <<>> /\ p.wire = <<>>
    <3> DEFINE a == p.wire
               b == p.pend
    <3>1. a \o b = <<>> BY <1>1, <2>1, <2>2 DEF WireInv, WInv, DataInv, UnreadInv, OnWire
    <3>2. a \in Seq(Pieces) /\ b \in Seq(Pieces) BY <1>1 DEF WireInv, WInv, DataInv, CountInv
    <3> HIDE DEF a, b
    <3>3. Len(a \o b) = Len(a) + Len(b) /\ Len(a) \in Nat /\ Len(b) \in Nat BY <3>2, Joined
    <3>4. Len(a \o b) = 0 BY <3>1
    <3>5. Len(a) = 0 /\ Len(b) = 0 BY <3>3, <3>4
    <3>6. a = <<>> /\ b = <<>> BY <3>2, <3>5, EmptySeq
    <3> QED BY <3>6 DEF a, b
  <2> QED BY <2>1, <2>2, <2>3, <2>4, <2>5
<1>2. ProxyInv /\ WireInv => RightResponse
  BY DEF WireInv, WInv, DataInv, ResponseInv, RightResponse
<1>3. ProxyInv /\ WireInv => CleanReuse BY <1>1, <1>2 DEF CleanReuse, PoolIsClean
<1> QED BY <1>3, ProxyInvariant, WireInvariant, PTL

(* The client is told the end of a response (nxd_rbuffer_write with eof,   *)
(* after request_complete) only when all of it has been passed on, however *)
(* it was cut into reads and whatever came with the end of the head.       *)
THEOREM ResponseIsWhole == Spec => []WholeResponse
<1>1. ASSUME ProxyInv, WireInv PROVE WholeResponse
  <2> SUFFICES ASSUME p.eof_resp, ~ UntilClose(p.resp) PROVE p.received = p.resp.size
    BY DEF WholeResponse
  <2>1. p.place = "none" \/ p.state = "IDLE" BY <1>1 DEF WireInv, WInv, DataInv, ResponseInv
  <2>2. CASE p.place = "none"
    <3>1. p.state = "CONNECTING" BY <1>1, <2>2 DEF ProxyInv, Inv, NoneInv
    <3>2. p.resp = NoResponse /\ p.received = 0
      BY <1>1, <3>1 DEF WireInv, WInv, DataInv, ResponseInv
    <3> QED BY <3>2 DEF NoResponse, HeadEnd
  <2>3. CASE p.state = "IDLE" BY <1>1, <2>3 DEF WireInv, WInv, DataInv, UnreadInv
  <2> QED BY <2>1, <2>2, <2>3
<1> QED BY <1>1, ProxyInvariant, WireInvariant, PTL

(* The rings between the client and the backend (nxd_rbuffer of            *)
(* NXWEB_RBUF_SIZE bytes), the send buffer, the count of retries and the   *)
(* rounds of stream_event_deliver stay within their bounds, whatever those *)
(* are, and every field keeps its type.                                    *)
THEOREM BuffersHold == Spec => []TypeOK
<1>1. ASSUME ProxyInv, WireInv PROVE TypeOK
  <2>1. Typed(p) /\ PlaceInv(p) /\ cur \in Streams \cup {"none"} BY <1>1 DEF ProxyInv, Inv
  <2>2. BoundInv(p) /\ CountInv(p) /\ rounds \in 0 .. LoopGuard BY <1>1 DEF WireInv, WInv, DataInv
  <2> QED BY <2>1, <2>2 DEF Typed, PlaceInv, BoundInv, CountInv, HcpStates, TypeOK
<1> QED BY <1>1, ProxyInvariant, WireInvariant, PTL
=============================================================================
