-------------------------- MODULE SslSocketProofs --------------------------
(***************************************************************************)
(* Proofs about SslSocket, for any script of a handshake, any sizes of the *)
(* request, the response and the send buffer.                              *)
(***************************************************************************)
EXTENDS SslSocket, EventOpsProofs, WellFoundedInduction

-----------------------------------------------------------------------------
(* The inductive invariant.                                                *)

SslFields ==
  LoopFields \cup {"started", "complete", "failed", "step", "rx", "rdclosed", "room", "edge", "record",
                   "flushed", "wire", "got", "off", "avail", "closed", "sent", "bad"}

(* The stubs are connected during the handshake and the protocol's streams *)
(* otherwise; a handshake that has failed stays where it is: the protocol  *)
(* does not get its streams back, and so cannot start it again.            *)
HandshakeInv(s) ==
  /\ s.started \in BOOLEAN /\ s.complete \in BOOLEAN /\ s.failed \in BOOLEAN
  /\ s.pair = IF s.started /\ ~ s.complete THEN {"hin", "hout"} ELSE {"in", "out"}
  /\ s.failed => s.started /\ ~ s.complete

(* The record that GnuTLS keeps is a part of what the protocol has and is  *)
(* not yet sent, and the protocol has something once it has ceased to      *)
(* read.                                                                   *)
SendInv(s) ==
  /\ s.room \in Nat /\ s.off \in Nat /\ s.flushed \in Nat /\ s.record \in Nat /\ s.avail \in Nat
  /\ s.record = 0 => s.flushed = 0
  /\ s.record > 0 => s.flushed < s.record
  /\ s.off + s.record <= s.avail
  /\ s.wire = [i \in 1 .. s.off + s.flushed |-> i]
  /\ s.os["in"] => s.avail = 0

SslOK(s) ==
  /\ DOMAIN s = SslFields /\ LoopOK(s, SslStreams, SslMessages)
  /\ s.step \in 0 .. Len(Script)
  /\ HandshakeInv(s) /\ SendInv(s)

SslInv == SslOK(ssl) /\ at \in SslStreams \cup {"idle"}

-----------------------------------------------------------------------------
(* Frames.                                                                 *)

(* What the operators on streams leave alone.                              *)
LEMMA FrameKeeps ==
  ASSUME NEW s, NEW t, DOMAIN s = SslFields, Frame(s, t)
  PROVE  /\ DOMAIN t = SslFields
         /\ t.started = s.started /\ t.complete = s.complete /\ t.failed = s.failed
         /\ t.step = s.step /\ t.room = s.room /\ t.off = s.off /\ t.flushed = s.flushed
         /\ t.record = s.record /\ t.avail = s.avail /\ t.wire = s.wire /\ t.got = s.got
<1>1. \A f \in SslFields \ LoopFields : t[f] = s[f] BY DEF Frame
<1>2. {"started", "complete", "failed", "step", "room", "off", "flushed", "record", "avail", "wire", "got"}
        \subseteq SslFields \ LoopFields
  BY DEF SslFields, LoopFields
<1> QED BY <1>1, <1>2 DEF Frame

(* The loop does not look at other fields.                                 *)
LEMMA SameLoop ==
  ASSUME NEW s, NEW t, LoopOK(s, SslStreams, SslMessages), DOMAIN t = DOMAIN s, t.events = s.events,
         t.is = s.is, t.os = s.os, t.pair = s.pair, t.tripped = s.tripped
  PROVE  LoopOK(t, SslStreams, SslMessages)
BY DEF LoopOK

LEMMA SameSend ==
  ASSUME NEW s, NEW t, SendInv(s), t.room = s.room, t.off = s.off, t.flushed = s.flushed,
         t.record = s.record, t.avail = s.avail, t.wire = s.wire, t.os["in"] => s.os["in"]
  PROVE  SendInv(t)
BY DEF SendInv

(* A change of the streams' flags and events keeps the invariant.          *)
LEMMA FrameOK ==
  ASSUME NEW s, NEW t, SslOK(s), Frame(s, t), LoopOK(t, SslStreams, SslMessages), t.pair = s.pair,
         t.os["in"] => s.os["in"]
  PROVE  SslOK(t)
<1>1. DOMAIN s = SslFields BY DEF SslOK
<1>2. /\ DOMAIN t = SslFields
      /\ t.started = s.started /\ t.complete = s.complete /\ t.failed = s.failed
      /\ t.step = s.step /\ t.room = s.room /\ t.off = s.off /\ t.flushed = s.flushed
      /\ t.record = s.record /\ t.avail = s.avail /\ t.wire = s.wire
  BY <1>1, FrameKeeps
<1>3. HandshakeInv(t) BY <1>2 DEF SslOK, HandshakeInv
<1>4. SendInv(t) BY <1>2, SameSend DEF SslOK
<1> QED BY <1>2, <1>3, <1>4 DEF SslOK

(* A message is published.                                                 *)
LEMMA PublishOK ==
  ASSUME NEW s, SslOK(s), NEW m \in SslMessages
  PROVE  SslOK(nxe_publish(s, m))
<1> DEFINE t == nxe_publish(s, m)
<1>1. LoopOK(s, SslStreams, SslMessages) /\ m \notin SslStreams BY DEF SslOK, SslMessages, SslStreams
<1>2. LoopOK(t, SslStreams, SslMessages) /\ Frame(s, t) /\ t.pair = s.pair /\ t.os = s.os
  BY ONLY <1>1, m \in SslMessages, PublishKeeps
<1> HIDE DEF t
<1>3. SslOK(t) BY <1>2, FrameOK
<1> QED BY <1>3 DEF t

-----------------------------------------------------------------------------
(* The socket's ends.                                                      *)

LEMMA Names == /\ "in" \in SslStreams /\ "out" \in SslStreams /\ "hin" \in SslStreams /\ "hout" \in SslStreams
BY DEF SslStreams

LEMMA InputsOK ==
  ASSUME NEW s, SslOK(s)
  PROVE  /\ SslOK(SetReadable(s)) /\ Frame(s, SetReadable(s))
         /\ SslOK(UnsetReadable(s)) /\ Frame(s, UnsetReadable(s))
         /\ SetReadable(s).pair = s.pair /\ UnsetReadable(s).pair = s.pair
         /\ SetReadable(s).os = s.os /\ UnsetReadable(s).os = s.os
<1>0. LoopOK(s, SslStreams, SslMessages) BY DEF SslOK
<1>1. SslOK(SetReadable(s)) /\ Frame(s, SetReadable(s)) /\ SetReadable(s).pair = s.pair /\ SetReadable(s).os = s.os
  <2> DEFINE t == nxe_istream_set_ready(s, "in")
             u == nxe_istream_set_ready(t, "hin")
  <2>1. LoopOK(t, SslStreams, SslMessages) /\ Frame(s, t) /\ t.pair = s.pair /\ t.os = s.os BY <1>0, Names, SetInputReady
  <2>2. LoopOK(u, SslStreams, SslMessages) /\ Frame(t, u) /\ u.pair = t.pair /\ u.os = t.os
    <3> HIDE DEF t
    <3> QED BY <2>1, Names, SetInputReady
  <2>3. SetReadable(s) = u BY DEF SetReadable
  <2> HIDE DEF t, u
  <2>4. Frame(s, u) BY <2>1, <2>2, FrameTransitive
  <2>5. SslOK(u) BY <2>1, <2>2, <2>4, FrameOK
  <2> QED BY <2>1, <2>2, <2>3, <2>4, <2>5
<1>2. SslOK(UnsetReadable(s)) /\ Frame(s, UnsetReadable(s)) /\ UnsetReadable(s).pair = s.pair
      /\ UnsetReadable(s).os = s.os
  <2> DEFINE t == nxe_istream_unset_ready(s, "in")
             u == nxe_istream_unset_ready(t, "hin")
  <2>1. LoopOK(t, SslStreams, SslMessages) /\ Frame(s, t) /\ t.pair = s.pair /\ t.os = s.os BY <1>0, Names, UnsetInputReady
  <2>2. LoopOK(u, SslStreams, SslMessages) /\ Frame(t, u) /\ u.pair = t.pair /\ u.os = t.os
    <3> HIDE DEF t
    <3> QED BY <2>1, Names, UnsetInputReady
  <2>3. UnsetReadable(s) = u BY DEF UnsetReadable
  <2> HIDE DEF t, u
  <2>4. Frame(s, u) BY <2>1, <2>2, FrameTransitive
  <2>5. SslOK(u) BY <2>1, <2>2, <2>4, FrameOK
  <2> QED BY <2>1, <2>2, <2>3, <2>4, <2>5
<1> QED BY <1>1, <1>2

LEMMA OutputsLoop ==
  ASSUME NEW s, LoopOK(s, SslStreams, SslMessages)
  PROVE  /\ LoopOK(SetWritable(s), SslStreams, SslMessages) /\ Frame(s, SetWritable(s))
         /\ SetWritable(s).pair = s.pair /\ SetWritable(s).os["in"] = s.os["in"]
         /\ LoopOK(UnsetWritable(s), SslStreams, SslMessages) /\ Frame(s, UnsetWritable(s))
         /\ UnsetWritable(s).pair = s.pair /\ UnsetWritable(s).os["in"] = s.os["in"]
<1>1. /\ LoopOK(SetWritable(s), SslStreams, SslMessages) /\ Frame(s, SetWritable(s))
      /\ SetWritable(s).pair = s.pair /\ SetWritable(s).os["in"] = s.os["in"]
  <2> DEFINE t == nxe_ostream_set_ready(s, "out")
             u == nxe_ostream_set_ready(t, "hout")
  <2>1. /\ LoopOK(t, SslStreams, SslMessages) /\ Frame(s, t) /\ t.pair = s.pair
        /\ \A y \in SslStreams \ {"out"} : t.os[y] = s.os[y]
    BY Names, SetOutputReady
  <2>2. /\ LoopOK(u, SslStreams, SslMessages) /\ Frame(t, u) /\ u.pair = t.pair
        /\ \A y \in SslStreams \ {"hout"} : u.os[y] = t.os[y]
    <3> HIDE DEF t
    <3> QED BY <2>1, Names, SetOutputReady
  <2>3. SetWritable(s) = u BY DEF SetWritable
  <2> HIDE DEF t, u
  <2>4. Frame(s, u) BY <2>1, <2>2, FrameTransitive
  <2>5. u.os["in"] = s.os["in"] BY <2>1, <2>2, Names
  <2> QED BY <2>1, <2>2, <2>3, <2>4, <2>5
<1>2. /\ LoopOK(UnsetWritable(s), SslStreams, SslMessages) /\ Frame(s, UnsetWritable(s))
      /\ UnsetWritable(s).pair = s.pair /\ UnsetWritable(s).os["in"] = s.os["in"]
  <2> DEFINE t == nxe_ostream_unset_ready(s, "out")
             u == nxe_ostream_unset_ready(t, "hout")
  <2>1. /\ LoopOK(t, SslStreams, SslMessages) /\ Frame(s, t) /\ t.pair = s.pair /\ t.is = s.is
        /\ ~ t.os["out"] /\ \A y \in SslStreams \ {"out"} : t.os[y] = s.os[y]
    BY Names, UnsetOutputReady
  <2>2. /\ LoopOK(u, SslStreams, SslMessages) /\ Frame(t, u) /\ u.pair = t.pair /\ u.is = t.is
        /\ ~ u.os["hout"] /\ \A y \in SslStreams \ {"hout"} : u.os[y] = t.os[y]
    <3> HIDE DEF t
    <3> QED BY <2>1, Names, UnsetOutputReady
  <2>3. UnsetWritable(s) = u BY DEF UnsetWritable
  <2> HIDE DEF t, u
  <2>4. Frame(s, u) BY <2>1, <2>2, FrameTransitive
  <2>5. u.os["in"] = s.os["in"] BY <2>1, <2>2, Names
  <2> QED BY <2>1, <2>2, <2>3, <2>4, <2>5
<1> QED BY <1>1, <1>2

LEMMA OutputsOK ==
  ASSUME NEW s, SslOK(s)
  PROVE  SslOK(SetWritable(s)) /\ SslOK(UnsetWritable(s))
<1>1. LoopOK(s, SslStreams, SslMessages) BY DEF SslOK
<1>2. SslOK(SetWritable(s)) BY <1>1, OutputsLoop, FrameOK
<1>3. SslOK(UnsetWritable(s)) BY <1>1, OutputsLoop, FrameOK
<1> QED BY <1>2, <1>3

-----------------------------------------------------------------------------
(* The handshake.                                                          *)

(* Fields on which the invariant says little.                              *)
FreeFields == {"rx", "got", "rdclosed", "edge", "sent", "bad", "step", "room", "closed"}

LEMMA FreeOK ==
  ASSUME NEW s, NEW t, SslOK(s), DOMAIN t = SslFields,
         \A f \in SslFields \ FreeFields : t[f] = s[f],
         t.step \in 0 .. Len(Script), t.room \in Nat
  PROVE  SslOK(t)
<1>1. /\ t.started = s.started /\ t.complete = s.complete /\ t.failed = s.failed
      /\ t.off = s.off /\ t.flushed = s.flushed /\ t.record = s.record /\ t.avail = s.avail /\ t.wire = s.wire
      /\ t.events = s.events /\ t.is = s.is /\ t.os = s.os /\ t.pair = s.pair /\ t.tripped = s.tripped
  <2>1. {"started", "complete", "failed", "off", "flushed", "record", "avail", "wire", "events", "is", "os", "pair",
         "tripped"} \subseteq SslFields \ FreeFields
    BY DEF SslFields, LoopFields, FreeFields
  <2> QED BY <2>1
<1>2. LoopOK(t, SslStreams, SslMessages) BY <1>1, SameLoop DEF SslOK
<1>3. HandshakeInv(t) BY <1>1 DEF SslOK, HandshakeInv
<1>4. SendInv(t) BY <1>1 DEF SslOK, SendInv
<1> QED BY <1>2, <1>3, <1>4 DEF SslOK

LEMMA StartKeeps ==
  ASSUME NEW s, SslOK(s), ~ s.started, ~ s.complete
  PROVE  SslOK(StartHandshake(s)) /\ Frame([s EXCEPT !.started = TRUE], StartHandshake(s))
<1> DEFINE a == [s EXCEPT !.started = TRUE]
           b == nxe_disconnect_streams(a, "out")
           c == nxe_connect_streams(b, "hout")
           d == nxe_istream_set_ready(c, "hout")
           e == nxe_disconnect_streams(d, "in")
           f == nxe_connect_streams(e, "hin")
           g == nxe_ostream_set_ready(f, "hin")
<1>1. StartHandshake(s) = g BY DEF StartHandshake
<1>2. /\ DOMAIN a = SslFields /\ a.started = TRUE /\ a.events = s.events /\ a.is = s.is /\ a.os = s.os
      /\ a.pair = s.pair /\ a.tripped = s.tripped /\ \A x \in SslFields \ {"started"} : a[x] = s[x]
  BY DEF SslOK, SslFields, LoopFields
<1> HIDE DEF a
<1>3. LoopOK(a, SslStreams, SslMessages) /\ a.pair = {"in", "out"}
  <2>1. a.pair = {"in", "out"} BY <1>2 DEF SslOK, HandshakeInv
  <2> QED BY <1>2, <2>1, SameLoop DEF SslOK
<1>4. /\ LoopOK(b, SslStreams, SslMessages) /\ Frame(a, b) /\ b.pair = a.pair \ {"out"} /\ b.is = a.is /\ b.os = a.os
  <2>1. LoopOK(a, SslStreams, SslMessages) /\ "out" \in SslStreams BY <1>3, Names
  <2> HIDE DEF c, d, e, f, g
  <2> QED BY ONLY <2>1, DisconnectKeeps
<1> HIDE DEF b
<1>5. "hout" \notin b.pair BY <1>3, <1>4
<1>6. LoopOK(c, SslStreams, SslMessages) /\ Frame(b, c) /\ c.pair = b.pair \cup {"hout"} /\ c.is = b.is /\ c.os = b.os
  <2>1. LoopOK(b, SslStreams, SslMessages) /\ "hout" \in SslStreams BY <1>4, Names
  <2> HIDE DEF d, e, f, g
  <2> QED BY ONLY <1>5, <2>1, ConnectKeeps
<1> HIDE DEF c
<1>7. LoopOK(d, SslStreams, SslMessages) /\ Frame(c, d) /\ d.pair = c.pair /\ d.os = c.os
  <2>1. LoopOK(c, SslStreams, SslMessages) /\ "hout" \in SslStreams BY <1>6, Names
  <2> HIDE DEF e, f, g
  <2> QED BY ONLY <2>1, SetInputReady
<1> HIDE DEF d
<1>8. LoopOK(e, SslStreams, SslMessages) /\ Frame(d, e) /\ e.pair = d.pair \ {"in"} /\ e.is = d.is /\ e.os = d.os
  <2>1. LoopOK(d, SslStreams, SslMessages) /\ "in" \in SslStreams BY <1>7, Names
  <2> HIDE DEF f, g
  <2> QED BY ONLY <2>1, DisconnectKeeps
<1> HIDE DEF e
<1>9. "hin" \notin e.pair BY <1>3, <1>4, <1>6, <1>7, <1>8
<1>10. LoopOK(f, SslStreams, SslMessages) /\ Frame(e, f) /\ f.pair = e.pair \cup {"hin"} /\ f.is = e.is /\ f.os = e.os
  <2>1. LoopOK(e, SslStreams, SslMessages) /\ "hin" \in SslStreams BY <1>8, Names
  <2> HIDE DEF g
  <2> QED BY ONLY <1>9, <2>1, ConnectKeeps
<1> HIDE DEF f
<1>11. /\ LoopOK(g, SslStreams, SslMessages) /\ Frame(f, g) /\ g.pair = f.pair /\ g.is = f.is
       /\ \A y \in SslStreams \ {"hin"} : g.os[y] = f.os[y]
  <2>1. LoopOK(f, SslStreams, SslMessages) /\ "hin" \in SslStreams BY <1>10, Names
  <2> QED BY ONLY <2>1, SetOutputReady
<1> HIDE DEF g
<1>12. Frame(a, g)
  <2>1. Frame(a, c) BY <1>4, <1>6, FrameTransitive
  <2>2. Frame(a, d) BY <2>1, <1>7, FrameTransitive
  <2>3. Frame(a, e) BY <2>2, <1>8, FrameTransitive
  <2>4. Frame(a, f) BY <2>3, <1>10, FrameTransitive
  <2> QED BY <2>4, <1>11, FrameTransitive
<1>13. g.pair = {"hin", "hout"} BY <1>3, <1>4, <1>6, <1>7, <1>8, <1>10, <1>11
<1>14. g.os["in"] = s.os["in"] BY <1>2, <1>4, <1>6, <1>7, <1>8, <1>10, <1>11, Names
<1>15. SslOK(g)
  <2>1. /\ DOMAIN g = SslFields
        /\ g.started = a.started /\ g.complete = a.complete /\ g.failed = a.failed
        /\ g.step = a.step /\ g.room = a.room /\ g.off = a.off /\ g.flushed = a.flushed
        /\ g.record = a.record /\ g.avail = a.avail /\ g.wire = a.wire /\ g.got = a.got
    BY <1>2, <1>12, FrameKeeps
  <2>2. /\ a.complete = s.complete /\ a.failed = s.failed
        /\ a.step = s.step /\ a.room = s.room /\ a.off = s.off /\ a.flushed = s.flushed
        /\ a.record = s.record /\ a.avail = s.avail /\ a.wire = s.wire
    BY <1>2 DEF SslFields
  <2>3. HandshakeInv(g) BY <1>2, <1>13, <2>1, <2>2 DEF SslOK, HandshakeInv
  <2>4. SendInv(g) BY <1>14, <2>1, <2>2, SameSend DEF SslOK
  <2> QED BY <1>11, <2>1, <2>2, <2>3, <2>4 DEF SslOK
<1> QED BY <1>1, <1>12, <1>15 DEF a

LEMMA FinishKeeps ==
  ASSUME NEW s, SslOK(s), s.started, ~ s.complete, ~ s.failed
  PROVE  SslOK(FinishHandshake(s))
<1> DEFINE a == [s EXCEPT !.complete = TRUE]
           b == nxe_istream_unset_ready(a, "hout")
           c == nxe_disconnect_streams(b, "hout")
           d == nxe_connect_streams(c, "out")
           e == nxe_ostream_unset_ready(d, "hin")
           f == nxe_disconnect_streams(e, "hin")
           g == nxe_connect_streams(f, "in")
<1>1. FinishHandshake(s) = g BY DEF FinishHandshake
<1>2. /\ DOMAIN a = SslFields /\ a.complete = TRUE /\ a.events = s.events /\ a.is = s.is /\ a.os = s.os
      /\ a.pair = s.pair /\ a.tripped = s.tripped /\ \A x \in SslFields \ {"complete"} : a[x] = s[x]
  BY DEF SslOK, SslFields, LoopFields
<1> HIDE DEF a
<1>3. LoopOK(a, SslStreams, SslMessages) /\ a.pair = {"hin", "hout"}
  <2>1. a.pair = {"hin", "hout"} BY <1>2 DEF SslOK, HandshakeInv
  <2> QED BY <1>2, <2>1, SameLoop DEF SslOK
<1>4. LoopOK(b, SslStreams, SslMessages) /\ Frame(a, b) /\ b.pair = a.pair /\ b.os = a.os
  <2>1. LoopOK(a, SslStreams, SslMessages) /\ "hout" \in SslStreams BY <1>3, Names
  <2> HIDE DEF c, d, e, f, g
  <2> QED BY ONLY <2>1, UnsetInputReady
<1> HIDE DEF b
<1>5. LoopOK(c, SslStreams, SslMessages) /\ Frame(b, c) /\ c.pair = b.pair \ {"hout"} /\ c.is = b.is /\ c.os = b.os
  <2>1. LoopOK(b, SslStreams, SslMessages) /\ "hout" \in SslStreams BY <1>4, Names
  <2> HIDE DEF d, e, f, g
  <2> QED BY ONLY <2>1, DisconnectKeeps
<1> HIDE DEF c
<1>6. "out" \notin c.pair BY <1>3, <1>4, <1>5
<1>7. LoopOK(d, SslStreams, SslMessages) /\ Frame(c, d) /\ d.pair = c.pair \cup {"out"} /\ d.is = c.is /\ d.os = c.os
  <2>1. LoopOK(c, SslStreams, SslMessages) /\ "out" \in SslStreams BY <1>5, Names
  <2> HIDE DEF e, f, g
  <2> QED BY ONLY <1>6, <2>1, ConnectKeeps
<1> HIDE DEF d
<1>8. /\ LoopOK(e, SslStreams, SslMessages) /\ Frame(d, e) /\ e.pair = d.pair /\ e.is = d.is
      /\ ~ e.os["hin"] /\ \A y \in SslStreams \ {"hin"} : e.os[y] = d.os[y]
  <2>1. LoopOK(d, SslStreams, SslMessages) /\ "hin" \in SslStreams BY <1>7, Names
  <2> HIDE DEF f, g
  <2> QED BY ONLY <2>1, UnsetOutputReady
<1> HIDE DEF e
<1>9. LoopOK(f, SslStreams, SslMessages) /\ Frame(e, f) /\ f.pair = e.pair \ {"hin"} /\ f.is = e.is /\ f.os = e.os
  <2>1. LoopOK(e, SslStreams, SslMessages) /\ "hin" \in SslStreams BY <1>8, Names
  <2> HIDE DEF g
  <2> QED BY ONLY <2>1, DisconnectKeeps
<1> HIDE DEF f
<1>10. "in" \notin f.pair BY <1>3, <1>4, <1>5, <1>7, <1>8, <1>9
<1>11. LoopOK(g, SslStreams, SslMessages) /\ Frame(f, g) /\ g.pair = f.pair \cup {"in"} /\ g.is = f.is /\ g.os = f.os
  <2>1. LoopOK(f, SslStreams, SslMessages) /\ "in" \in SslStreams BY <1>9, Names
  <2> QED BY ONLY <1>10, <2>1, ConnectKeeps
<1> HIDE DEF g
<1>12. Frame(a, g)
  <2>1. Frame(a, c) BY <1>4, <1>5, FrameTransitive
  <2>2. Frame(a, d) BY <2>1, <1>7, FrameTransitive
  <2>3. Frame(a, e) BY <2>2, <1>8, FrameTransitive
  <2>4. Frame(a, f) BY <2>3, <1>9, FrameTransitive
  <2> QED BY <2>4, <1>11, FrameTransitive
<1>13. g.pair = {"in", "out"} BY <1>3, <1>4, <1>5, <1>7, <1>8, <1>9, <1>11
<1>14. g.os["in"] = s.os["in"] BY <1>2, <1>4, <1>5, <1>7, <1>8, <1>9, <1>11, Names
<1>15. SslOK(g)
  <2>1. /\ DOMAIN g = SslFields
        /\ g.started = a.started /\ g.complete = a.complete /\ g.failed = a.failed
        /\ g.step = a.step /\ g.room = a.room /\ g.off = a.off /\ g.flushed = a.flushed
        /\ g.record = a.record /\ g.avail = a.avail /\ g.wire = a.wire /\ g.got = a.got
    BY <1>2, <1>12, FrameKeeps
  <2>2. /\ a.started = s.started /\ a.failed = s.failed
        /\ a.step = s.step /\ a.room = s.room /\ a.off = s.off /\ a.flushed = s.flushed
        /\ a.record = s.record /\ a.avail = s.avail /\ a.wire = s.wire
    BY <1>2 DEF SslFields
  <2>3. HandshakeInv(g) BY <1>2, <1>13, <2>1, <2>2 DEF SslOK, HandshakeInv
  <2>4. SendInv(g) BY <1>14, <2>1, <2>2, SameSend DEF SslOK
  <2> QED BY <1>11, <2>1, <2>2, <2>3, <2>4 DEF SslOK
<1> QED BY <1>1, <1>15

(* What a step of gnutls_handshake may change.                             *)
Shaken(s, t) ==
  /\ SslOK(t) /\ t.started = s.started /\ t.complete = s.complete /\ t.failed = s.failed

LEMMA HandshakeStepKeeps ==
  ASSUME NEW s, SslOK(s)
  PROVE  Shaken(s, HandshakeStep(s))
<1> DEFINE t == HandshakeStep(s)
<1>0. Script \in Seq({"r", "w"}) /\ Len(Script) \in Nat BY SslAssumption, LenProperties
<1>1. DOMAIN s = SslFields /\ s.step \in 0 .. Len(Script) /\ s.room \in Nat BY DEF SslOK, SendInv
<1>2. CASE ~ CanStep(s) BY <1>2 DEF HandshakeStep, Shaken
<1>3. CASE CanStep(s) /\ Script[s.step + 1] = "r"
  <2>1. t = [s EXCEPT !.step = @ + 1, !.rx = Tail(@)] BY <1>3 DEF HandshakeStep
  <2>2. /\ DOMAIN t = SslFields /\ t.step = s.step + 1 /\ t.room = s.room
        /\ \A f \in SslFields \ {"step", "rx"} : t[f] = s[f]
    BY <1>1, <2>1 DEF SslFields
  <2> HIDE DEF t
  <2>3. t.step \in 0 .. Len(Script) BY <1>0, <1>1, <1>3, <2>2 DEF CanStep
  <2>4. /\ t.failed = s.failed /\ t.started = s.started /\ t.complete = s.complete
        /\ \A f \in SslFields \ FreeFields : t[f] = s[f]
    BY <2>2 DEF SslFields, FreeFields
  <2>5. SslOK(t) BY <1>1, <2>2, <2>3, <2>4, FreeOK
  <2> QED BY <2>4, <2>5 DEF Shaken, t
<1>4. CASE CanStep(s) /\ Script[s.step + 1] # "r"
  <2>1. t = [s EXCEPT !.step = @ + 1, !.room = @ - 1] BY <1>4 DEF HandshakeStep
  <2>2. /\ DOMAIN t = SslFields /\ t.step = s.step + 1 /\ t.room = s.room - 1
        /\ \A f \in SslFields \ {"step", "room"} : t[f] = s[f]
    BY <1>1, <2>1 DEF SslFields
  <2> HIDE DEF t
  <2>3. t.step \in 0 .. Len(Script) /\ t.room \in Nat BY <1>0, <1>1, <1>4, <2>2 DEF CanStep
  <2>4. /\ t.failed = s.failed /\ t.started = s.started /\ t.complete = s.complete
        /\ \A f \in SslFields \ FreeFields : t[f] = s[f]
    BY <2>2 DEF SslFields, FreeFields
  <2>5. SslOK(t) BY <1>1, <2>2, <2>3, <2>4, FreeOK
  <2> QED BY <2>4, <2>5 DEF Shaken, t
<1> QED BY <1>2, <1>3, <1>4

(* Induction over 0 .. n, for a set of numbers.                            *)
LEMMA SetInduction ==
  ASSUME NEW n \in Nat, NEW T, 0 \in T, \A i \in 1 .. n : i - 1 \in T => i \in T
  PROVE  \A i \in 0 .. n : i \in T
<1> DEFINE left == {i \in 0 .. n : i \notin T}
<1> SUFFICES ASSUME left # {} PROVE FALSE OBVIOUS
<1>1. left \subseteq Nat OBVIOUS
<1>2. PICK x \in left : \A y \in left : ~ (<<y, x>> \in OpToRel(<, Nat))
  BY <1>1, NatLessThanWellFounded, WFMin
<1>3. x \in 0 .. n /\ x \notin T /\ \A y \in left : y \in Nat /\ ~ (y < x)
  BY <1>1, <1>2 DEF OpToRel
<1>4. x \in 1 .. n BY <1>3
<1>5. x - 1 \notin left BY <1>3, <1>4
<1>6. x - 1 \in T BY <1>4, <1>5
<1> QED BY <1>3, <1>4, <1>6

(* gnutls_handshake is so many steps.                                      *)
LEMMA HandshakeKeeps ==
  ASSUME NEW s, SslOK(s)
  PROVE  Shaken(s, gnutls_handshake(s))
<1> DEFINE n == Len(Script)
           Unrolled(m, f) == f = [k \in 0 .. m |-> IF k = 0 THEN s ELSE HandshakeStep(f[k - 1])]
           T == {m \in Nat : \E f : Unrolled(m, f)}
           run == CHOOSE f : Unrolled(n, f)
           U == {k \in 0 .. n : Shaken(s, run[k])}
<1>0. n \in Nat BY SslAssumption, LenProperties
<1>1. 0 \in T
  <2> DEFINE f == [k \in 0 .. 0 |-> s]
  <2>1. \A k \in 0 .. 0 : k = 0 OBVIOUS
  <2>2. Unrolled(0, f) BY <2>1
  <2> QED BY <2>2
<1>2. ASSUME NEW m \in 1 .. n, m - 1 \in T PROVE m \in T
  <2>1. PICK f : Unrolled(m - 1, f) BY <1>2
  <2> DEFINE g == [k \in 0 .. m |-> IF k = m THEN HandshakeStep(f[m - 1]) ELSE f[k]]
  <2>2. \A k \in 0 .. m - 1 : f[k] = IF k = 0 THEN s ELSE HandshakeStep(f[k - 1]) BY <2>1
  <2>3. \A k \in 0 .. m - 1 : k \in 0 .. m /\ k # m /\ g[k] = f[k] OBVIOUS
  <2>4. \A k \in 0 .. m : g[k] = IF k = 0 THEN s ELSE HandshakeStep(g[k - 1])
    <3> TAKE k \in 0 .. m
    <3>1. CASE k = m
      <4>1. k # 0 /\ m - 1 \in 0 .. m - 1 BY <3>1
      <4>2. g[m - 1] = f[m - 1] BY <2>3, <4>1
      <4> QED BY <3>1, <4>1, <4>2
    <3>2. CASE k # m
      <4>1. k \in 0 .. m - 1 /\ (k # 0 => k - 1 \in 0 .. m - 1) BY <3>2
      <4> HIDE DEF g
      <4> QED BY <2>2, <2>3, <4>1
    <3> QED BY <3>1, <3>2
  <2>5. g = [k \in 0 .. m |-> g[k]] OBVIOUS
  <2> HIDE DEF g
  <2>6. Unrolled(m, g) BY <2>4, <2>5
  <2> QED BY <1>0, <2>6
<1>3. \E f : Unrolled(n, f)
  <2>1. \A k \in 0 .. n : k \in T
    <3> HIDE DEF T, n
    <3> QED BY <1>0, <1>1, <1>2, SetInduction
  <2>2. n \in T BY <1>0, <2>1
  <2> QED BY <2>2
<1>4. Unrolled(n, run) BY <1>3
<1>5. gnutls_handshake(s) = run[n] BY DEF gnutls_handshake
<1> HIDE DEF run, n
<1>6. run[0] = s /\ \A k \in 1 .. n : run[k] = HandshakeStep(run[k - 1]) BY <1>0, <1>4
<1>7. 0 \in U BY <1>0, <1>6 DEF Shaken
<1>8. ASSUME NEW k \in 1 .. n, k - 1 \in U PROVE k \in U
  <2>1. Shaken(s, run[k - 1]) BY <1>8
  <2>2. Shaken(run[k - 1], HandshakeStep(run[k - 1])) BY <2>1, HandshakeStepKeeps DEF Shaken
  <2>3. Shaken(s, run[k]) BY <1>6, <2>1, <2>2 DEF Shaken
  <2> QED BY <2>3
<1>9. \A k \in 0 .. n : k \in U
  <2> HIDE DEF U
  <2> QED BY <1>0, <1>7, <1>8, SetInduction
<1> QED BY <1>0, <1>5, <1>9

(* do_handshake is called during the handshake or before it only, which is *)
(* why its assertion holds.                                                *)
LEMMA DoHandshakeKeeps ==
  ASSUME NEW s, SslOK(s), ~ s.complete, ~ s.failed
  PROVE  SslOK(do_handshake(s))
<1> DEFINE a == [s EXCEPT !.tripped = @ \/ s.complete \/ s.failed]
           b == IF s.started THEN a ELSE StartHandshake(a)
           t == gnutls_handshake(b)
           v == [t EXCEPT !.failed = TRUE]
           u == nxe_publish(v, "error")
<1>0. DOMAIN s = SslFields /\ s.tripped = FALSE /\ s.complete = FALSE /\ s.failed = FALSE /\ s.started \in BOOLEAN
  BY DEF SslOK, LoopOK, HandshakeInv
<1>1. do_handshake(s) = IF HandshakeDone(t) THEN FinishHandshake(t) ELSE IF HandshakeError(t) THEN u ELSE t
  BY DEF do_handshake
<1>2. SslOK(a) /\ a.started = s.started /\ a.complete = FALSE /\ a.failed = FALSE
  <2>1. DOMAIN a = SslFields /\ \A f \in SslFields : a[f] = s[f] BY <1>0 DEF SslFields, LoopFields
  <2> HIDE DEF a
  <2>2. /\ a.started = s.started /\ a.complete = s.complete /\ a.failed = s.failed
        /\ a.step = s.step /\ a.room = s.room /\ \A f \in SslFields \ FreeFields : a[f] = s[f]
    BY <2>1 DEF SslFields
  <2>3. a.step \in 0 .. Len(Script) /\ a.room \in Nat BY <2>2 DEF SslOK, SendInv
  <2>4. SslOK(a) BY <2>1, <2>2, <2>3, FreeOK
  <2> QED BY <1>0, <2>2, <2>4
<1> HIDE DEF a
<1>3. SslOK(b) /\ b.started = TRUE /\ b.complete = FALSE /\ b.failed = FALSE
  <2>1. CASE s.started BY <1>0, <1>2, <2>1
  <2>2. CASE ~ s.started
    <3> DEFINE c == [a EXCEPT !.started = TRUE]
    <3>1. SslOK(StartHandshake(a)) /\ Frame(c, StartHandshake(a)) BY <1>2, <2>2, StartKeeps
    <3>2. DOMAIN c = SslFields /\ c.started = TRUE /\ c.complete = FALSE /\ c.failed = FALSE
      BY <1>2 DEF SslOK, SslFields
    <3> HIDE DEF c
    <3>3. /\ StartHandshake(a).started = TRUE /\ StartHandshake(a).complete = FALSE
          /\ StartHandshake(a).failed = FALSE
      BY <3>1, <3>2, FrameKeeps
    <3> QED BY <2>2, <3>1, <3>3
  <2> QED BY <2>1, <2>2
<1> HIDE DEF b
<1>4. SslOK(t) /\ t.started = TRUE /\ t.complete = FALSE /\ t.failed = FALSE BY <1>3, HandshakeKeeps DEF Shaken
<1> HIDE DEF t
<1>5. SslOK(FinishHandshake(t)) BY <1>4, FinishKeeps
<1>6. SslOK(u)
  <2>1. DOMAIN t = SslFields BY <1>4 DEF SslOK
  <2>2. /\ DOMAIN v = SslFields /\ v.failed = TRUE /\ \A f \in SslFields \ {"failed"} : v[f] = t[f]
    BY <2>1 DEF SslFields
  <2> HIDE DEF v
  <2>3. /\ v.started = t.started /\ v.complete = t.complete /\ v.step = t.step /\ v.room = t.room
        /\ v.off = t.off /\ v.flushed = t.flushed /\ v.record = t.record /\ v.avail = t.avail /\ v.wire = t.wire
        /\ v.events = t.events /\ v.is = t.is /\ v.os = t.os /\ v.pair = t.pair /\ v.tripped = t.tripped
    BY <2>2 DEF SslFields, LoopFields
  <2>4. LoopOK(v, SslStreams, SslMessages) BY <1>4, <2>1, <2>2, <2>3, SameLoop DEF SslOK
  <2>5. HandshakeInv(v) BY <1>4, <2>2, <2>3 DEF SslOK, HandshakeInv
  <2>6. SendInv(v) BY <1>4, <2>3 DEF SslOK, SendInv
  <2>7. SslOK(v) BY <1>4, <2>2, <2>3, <2>4, <2>5, <2>6 DEF SslOK
  <2> QED BY <2>7, PublishOK DEF SslMessages
<1> QED BY <1>1, <1>4, <1>5, <1>6

LEMMA StubsKeep ==
  ASSUME NEW s, SslOK(s), ~ s.complete
  PROVE  SslOK(handshake_stub_is_do_write(s)) /\ SslOK(handshake_stub_os_do_read(s))
<1> DEFINE t == IF s.failed THEN s ELSE do_handshake(s)
<1>1. SslOK(t) BY DoHandshakeKeeps
<1>2. /\ handshake_stub_is_do_write(s) = (IF t.complete THEN t ELSE UnsetWritable(t))
      /\ handshake_stub_os_do_read(s) = (IF t.complete THEN t ELSE UnsetReadable(t))
  BY DEF handshake_stub_is_do_write, handshake_stub_os_do_read
<1> HIDE DEF t
<1>3. SslOK(UnsetWritable(t)) /\ SslOK(UnsetReadable(t)) BY <1>1, InputsOK, OutputsOK
<1> QED BY <1>1, <1>2, <1>3

-----------------------------------------------------------------------------
(* Reading and writing.                                                    *)

LEMMA ReadKeeps ==
  ASSUME NEW s, SslOK(s), s.complete \/ ~ s.failed
  PROVE  SslOK(sock_data_recv_read(s))
<1> DEFINE t == IF s.complete THEN s ELSE do_handshake(s)
           u == [t EXCEPT !.rx = Tail(@), !.got = @ + 1]
           v == UnsetReadable(t)
           w == nxe_publish(v, "error")
<1>1. SslOK(t) BY DoHandshakeKeeps
<1>2. sock_data_recv_read(s) = IF ~ t.complete THEN v ELSE IF t.rx # <<>> THEN u ELSE IF t.rdclosed THEN w ELSE v
  BY DEF sock_data_recv_read
<1> HIDE DEF t
<1>3. SslOK(v) BY <1>1, InputsOK
<1>4. SslOK(u)
  <2>1. DOMAIN t = SslFields BY <1>1 DEF SslOK
  <2>2. DOMAIN u = SslFields /\ \A f \in SslFields \ {"rx", "got"} : u[f] = t[f] BY <2>1 DEF SslFields
  <2> HIDE DEF u
  <2>3. /\ u.step = t.step /\ u.room = t.room /\ \A f \in SslFields \ FreeFields : u[f] = t[f]
    BY <2>2 DEF FreeFields, SslFields
  <2>4. u.step \in 0 .. Len(Script) /\ u.room \in Nat BY <1>1, <2>3 DEF SslOK, SendInv
  <2> QED BY <1>1, <2>2, <2>3, <2>4, FreeOK
<1> HIDE DEF v
<1>5. SslOK(w) BY <1>3, PublishOK DEF SslMessages
<1> QED BY <1>2, <1>3, <1>4, <1>5

(* The pieces that are sent continue those that were.                      *)
LEMMA WireGrows ==
  ASSUME NEW m \in Nat, NEW k \in Nat, NEW w, w = [i \in 1 .. m |-> i]
  PROVE  w \o [i \in 1 .. k |-> m + i] = [i \in 1 .. m + k |-> i]
<1> DEFINE v == [i \in 1 .. k |-> m + i]
           r == w \o v
           z == [i \in 1 .. m + k |-> i]
<1>1. w \in Seq(Nat) /\ Len(w) = m /\ v \in Seq(Nat) /\ Len(v) = k OBVIOUS
<1>2. \A i \in 1 .. k : v[i] = m + i OBVIOUS
<1> HIDE DEF v
<1>3. /\ r \in Seq(Nat) /\ Len(r) = Len(w) + Len(v)
      /\ \A i \in 1 .. Len(w) + Len(v) : r[i] = IF i <= Len(w) THEN w[i] ELSE v[i - Len(w)]
  BY <1>1, ConcatProperties
<1> HIDE DEF r
<1>4. \A i \in 1 .. m + k : r[i] = i
  <2> TAKE i \in 1 .. m + k
  <2>1. CASE i <= m BY <1>1, <1>3, <2>1
  <2>2. CASE ~ (i <= m)
    <3>1. i - m \in 1 .. k /\ m + (i - m) = i BY <2>2
    <3> QED BY <1>1, <1>2, <1>3, <2>2, <3>1
  <2> QED BY <2>1, <2>2
<1>5. DOMAIN r = 1 .. m + k /\ r = [i \in DOMAIN r |-> r[i]] BY <1>1, <1>3, LenProperties
<1>6. r = z BY <1>4, <1>5
<1> QED BY <1>6 DEF r, v

(* The record that is sent is a part of what the protocol has.             *)
LEMMA RecordSendKeeps ==
  ASSUME NEW s, SslOK(s), s.avail > s.off
  PROVE  SslOK(gnutls_record_send(s, s.avail - s.off))
<1> DEFINE n == Record(s, s.avail - s.off)
           left == n - s.flushed
           k == IF left < s.room THEN left ELSE s.room
           piece == [i \in 1 .. k |-> s.off + s.flushed + i]
           t == [s EXCEPT !.room = @ - k, !.wire = @ \o piece]
           u == [t EXCEPT !.record = 0, !.flushed = 0, !.off = @ + n]
           v == UnsetWritable(t)
           w == [v EXCEPT !.record = n, !.flushed = @ + k]
<1>1. gnutls_record_send(s, s.avail - s.off) = IF k = left THEN u ELSE w BY DEF gnutls_record_send
<1>2. /\ s.room \in Nat /\ s.off \in Nat /\ s.flushed \in Nat /\ s.record \in Nat /\ s.avail \in Nat
      /\ s.record = 0 => s.flushed = 0
      /\ s.record > 0 => s.flushed < s.record
      /\ s.off + s.record <= s.avail
      /\ s.wire = [i \in 1 .. s.off + s.flushed |-> i]
      /\ s.os["in"] => s.avail = 0
  BY DEF SslOK, SendInv
<1>3. n \in Nat /\ s.flushed < n /\ s.off + n <= s.avail BY <1>2 DEF Record
<1> HIDE DEF n
<1>4. left \in Nat /\ left > 0 /\ k \in Nat /\ k <= left /\ k <= s.room BY <1>2, <1>3
<1>5. s.off + s.flushed + left = s.off + n BY <1>2, <1>3
<1> HIDE DEF k, left
<1>6. s.wire \o piece = [i \in 1 .. s.off + s.flushed + k |-> i]
  <2>1. s.off + s.flushed \in Nat BY <1>2
  <2> QED BY <1>2, <1>4, <2>1, WireGrows
<1> HIDE DEF piece
<1>7. DOMAIN s = SslFields /\ LoopOK(s, SslStreams, SslMessages) BY DEF SslOK
<1>8. /\ DOMAIN t = SslFields /\ t.room = s.room - k /\ t.wire = [i \in 1 .. s.off + s.flushed + k |-> i]
      /\ \A f \in SslFields \ {"room", "wire"} : t[f] = s[f]
  BY <1>6, <1>7 DEF SslFields
<1> HIDE DEF t
<1>9. /\ t.started = s.started /\ t.complete = s.complete /\ t.failed = s.failed
      /\ t.step = s.step /\ t.off = s.off /\ t.flushed = s.flushed /\ t.record = s.record /\ t.avail = s.avail
      /\ t.events = s.events /\ t.is = s.is /\ t.os = s.os /\ t.pair = s.pair /\ t.tripped = s.tripped
  BY <1>8 DEF SslFields, LoopFields
<1>10. LoopOK(t, SslStreams, SslMessages) BY <1>7, <1>8, <1>9, SameLoop
<1>11. CASE k = left
  <2>1. /\ DOMAIN u = SslFields /\ u.record = 0 /\ u.flushed = 0 /\ u.off = t.off + n
        /\ \A f \in SslFields \ {"record", "flushed", "off"} : u[f] = t[f]
    BY <1>8 DEF SslFields
  <2> HIDE DEF u
  <2>2. /\ u.started = t.started /\ u.complete = t.complete /\ u.failed = t.failed
        /\ u.step = t.step /\ u.avail = t.avail /\ u.room = t.room /\ u.wire = t.wire
        /\ u.events = t.events /\ u.is = t.is /\ u.os = t.os /\ u.pair = t.pair /\ u.tripped = t.tripped
    BY <2>1 DEF SslFields, LoopFields
  <2>3. LoopOK(u, SslStreams, SslMessages) BY <1>8, <1>10, <2>1, <2>2, SameLoop
  <2>4. HandshakeInv(u) BY <1>9, <2>2 DEF SslOK, HandshakeInv
  <2>5. u.wire = [i \in 1 .. u.off + u.flushed |-> i]
    <3>1. s.off + s.flushed + k = u.off + u.flushed BY <1>2, <1>3, <1>5, <1>9, <1>11, <2>1
    <3> QED BY <1>8, <2>2, <3>1
  <2>6. SendInv(u)
    <3>1. u.room \in Nat /\ u.off \in Nat /\ u.off + u.record <= u.avail /\ u.avail \in Nat
      <4>1. u.room = s.room - k /\ u.off = s.off + n /\ u.record = 0 /\ u.avail = s.avail BY <1>8, <1>9, <2>1, <2>2
      <4>2. s.room - k \in Nat BY <1>2, <1>4
      <4> QED BY <1>2, <1>3, <4>1, <4>2
    <3>2. u.os["in"] => u.avail = 0 BY <1>2, <1>9, <2>2
    <3> QED BY <2>1, <2>5, <3>1, <3>2 DEF SendInv
  <2>7. SslOK(u) BY <1>9, <2>1, <2>2, <2>3, <2>4, <2>6 DEF SslOK
  <2> QED BY <1>1, <1>11, <2>7
<1>12. CASE k # left
  <2>1. LoopOK(v, SslStreams, SslMessages) /\ Frame(t, v) /\ v.pair = t.pair /\ v.os["in"] = t.os["in"]
    BY <1>10, OutputsLoop
  <2> HIDE DEF v
  <2>2. /\ DOMAIN v = SslFields
        /\ v.started = t.started /\ v.complete = t.complete /\ v.failed = t.failed
        /\ v.step = t.step /\ v.room = t.room /\ v.off = t.off /\ v.flushed = t.flushed
        /\ v.record = t.record /\ v.avail = t.avail /\ v.wire = t.wire /\ v.got = t.got
    BY <1>8, <2>1, FrameKeeps
  <2>3. /\ DOMAIN w = SslFields /\ w.record = n /\ w.flushed = v.flushed + k
        /\ \A f \in SslFields \ {"record", "flushed"} : w[f] = v[f]
    BY <2>2 DEF SslFields
  <2> HIDE DEF w
  <2>4. /\ w.started = v.started /\ w.complete = v.complete /\ w.failed = v.failed
        /\ w.step = v.step /\ w.avail = v.avail /\ w.room = v.room /\ w.wire = v.wire /\ w.off = v.off
        /\ w.events = v.events /\ w.is = v.is /\ w.os = v.os /\ w.pair = v.pair /\ w.tripped = v.tripped
    BY <2>3 DEF SslFields, LoopFields
  <2>5. LoopOK(w, SslStreams, SslMessages) BY <2>1, <2>2, <2>3, <2>4, SameLoop
  <2>6. HandshakeInv(w) BY <1>9, <2>1, <2>2, <2>4 DEF SslOK, HandshakeInv
  <2>7. w.wire = [i \in 1 .. w.off + w.flushed |-> i]
    <3>1. s.off + s.flushed + k = w.off + w.flushed BY <1>2, <1>4, <1>9, <2>2, <2>3, <2>4
    <3> QED BY <1>8, <2>2, <2>4, <3>1
  <2>8. SendInv(w)
    <3>1. s.flushed + k < n BY <1>2, <1>3, <1>4, <1>12 DEF left
    <3>2. /\ w.room \in Nat /\ w.off \in Nat /\ w.flushed \in Nat /\ w.record \in Nat /\ w.record > 0
          /\ w.off + w.record <= w.avail /\ w.avail \in Nat /\ w.flushed < w.record
      <4>1. /\ w.room = s.room - k /\ w.off = s.off /\ w.record = n /\ w.flushed = s.flushed + k
            /\ w.avail = s.avail
        BY <1>8, <1>9, <2>2, <2>3, <2>4
      <4>2. s.room - k \in Nat BY <1>2, <1>4
      <4>3. s.off \in Nat /\ s.flushed \in Nat /\ s.avail \in Nat BY <1>2
      <4>4. s.flushed + k \in Nat /\ n > 0 BY <1>3, <1>4, <4>3
      <4> QED BY <1>3, <3>1, <4>1, <4>2, <4>3, <4>4
    <3>3. w.os["in"] => w.avail = 0 BY <1>2, <1>9, <2>1, <2>2, <2>4
    <3> QED BY <2>7, <3>2, <3>3 DEF SendInv
  <2>9. SslOK(w) BY <1>9, <2>2, <2>3, <2>4, <2>5, <2>6, <2>8 DEF SslOK
  <2> QED BY <1>1, <1>12, <2>9
<1> QED BY <1>11, <1>12

LEMMA WriteKeeps ==
  ASSUME NEW s, SslOK(s), s.complete \/ ~ s.failed
  PROVE  SslOK(sock_data_send_write(s))
<1> DEFINE t == IF s.complete THEN s ELSE do_handshake(s)
<1>1. SslOK(t) BY DoHandshakeKeeps
<1>2. sock_data_send_write(s) = IF ~ t.complete THEN UnsetWritable(t)
                                ELSE IF t.avail > t.off THEN gnutls_record_send(t, t.avail - t.off) ELSE t
  BY DEF sock_data_send_write
<1> HIDE DEF t
<1>3. SslOK(UnsetWritable(t)) BY <1>1, OutputsOK
<1>4. t.avail > t.off => SslOK(gnutls_record_send(t, t.avail - t.off)) BY <1>1, RecordSendKeeps
<1> QED BY <1>1, <1>2, <1>3, <1>4

LEMMA DoReadKeeps ==
  ASSUME NEW s, SslOK(s), s.complete \/ ~ s.failed
  PROVE  SslOK(SslDoRead(s))
<1> DEFINE t == sock_data_recv_read(s)
           a == [t EXCEPT !.avail = 1]
           b == nxe_ostream_unset_ready(a, "in")
           c == nxe_istream_set_ready(b, "out")
<1>1. SslOK(t) BY ReadKeeps
<1>2. SslDoRead(s) = IF t.got = ReqSize /\ t.os["in"] THEN c ELSE t BY DEF SslDoRead
<1> HIDE DEF t
<1> SUFFICES ASSUME t.os["in"] PROVE SslOK(c) BY <1>1, <1>2
<1>3. /\ DOMAIN t = SslFields /\ LoopOK(t, SslStreams, SslMessages)
      /\ t.room \in Nat /\ t.off = 0 /\ t.record = 0 /\ t.flushed = 0 /\ t.wire = [i \in 1 .. t.off + t.flushed |-> i]
  BY <1>1 DEF SslOK, SendInv
<1>4. DOMAIN a = SslFields /\ a.avail = 1 /\ \A f \in SslFields \ {"avail"} : a[f] = t[f]
  BY <1>3 DEF SslFields
<1> HIDE DEF a
<1>5. /\ a.started = t.started /\ a.complete = t.complete /\ a.failed = t.failed
      /\ a.step = t.step /\ a.off = t.off /\ a.flushed = t.flushed /\ a.record = t.record
      /\ a.room = t.room /\ a.wire = t.wire
      /\ a.events = t.events /\ a.is = t.is /\ a.os = t.os /\ a.pair = t.pair /\ a.tripped = t.tripped
  BY <1>4 DEF SslFields, LoopFields
<1>6. LoopOK(a, SslStreams, SslMessages) BY <1>3, <1>4, <1>5, SameLoop
<1>7. /\ LoopOK(b, SslStreams, SslMessages) /\ Frame(a, b) /\ b.pair = a.pair /\ b.is = a.is
      /\ ~ b.os["in"] /\ \A y \in SslStreams \ {"in"} : b.os[y] = a.os[y]
  <2>1. LoopOK(a, SslStreams, SslMessages) /\ "in" \in SslStreams BY <1>6, Names
  <2> HIDE DEF c
  <2> QED BY ONLY <2>1, UnsetOutputReady
<1> HIDE DEF b
<1>8. LoopOK(c, SslStreams, SslMessages) /\ Frame(b, c) /\ c.pair = b.pair /\ c.os = b.os
  <2>1. LoopOK(b, SslStreams, SslMessages) /\ "out" \in SslStreams BY <1>7, Names
  <2> QED BY ONLY <2>1, SetInputReady
<1> HIDE DEF c
<1>9. Frame(a, c) BY <1>7, <1>8, FrameTransitive
<1>10. /\ DOMAIN c = SslFields
       /\ c.started = a.started /\ c.complete = a.complete /\ c.failed = a.failed
       /\ c.step = a.step /\ c.room = a.room /\ c.off = a.off /\ c.flushed = a.flushed
       /\ c.record = a.record /\ c.avail = a.avail /\ c.wire = a.wire /\ c.got = a.got
  BY <1>4, <1>9, FrameKeeps
<1>11. HandshakeInv(c) BY <1>1, <1>5, <1>7, <1>8, <1>10 DEF SslOK, HandshakeInv
<1>12. SendInv(c) BY <1>3, <1>4, <1>5, <1>7, <1>8, <1>10 DEF SendInv
<1>13. c.step \in 0 .. Len(Script) BY <1>1, <1>5, <1>10 DEF SslOK
<1> QED BY <1>8, <1>10, <1>11, <1>12, <1>13 DEF SslOK

LEMMA DoWriteKeeps ==
  ASSUME NEW s, SslOK(s), s.complete \/ ~ s.failed
  PROVE  SslOK(SslDoWrite(s))
<1> DEFINE t == sock_data_send_write(s)
           u == nxe_istream_unset_ready(t, "out")
<1>1. SslOK(t) BY WriteKeeps
<1>2. SslDoWrite(s) = IF t.off = t.avail THEN u ELSE t BY DEF SslDoWrite
<1> HIDE DEF t
<1>3. LoopOK(u, SslStreams, SslMessages) /\ Frame(t, u) /\ u.pair = t.pair /\ u.os = t.os
  <2>1. LoopOK(t, SslStreams, SslMessages) /\ "out" \in SslStreams BY <1>1, Names DEF SslOK
  <2> QED BY ONLY <2>1, UnsetInputReady
<1> HIDE DEF u
<1>4. SslOK(u) BY <1>1, <1>3, FrameOK
<1> QED BY <1>1, <1>2, <1>4

-----------------------------------------------------------------------------
(* The steps.                                                              *)

LEMMA DeliverKeeps ==
  ASSUME NEW s, SslOK(s), s.events # <<>>
  PROVE  SslOK([s EXCEPT !.events = Tail(@)])
<1> DEFINE q == s.events
           t == [s EXCEPT !.events = Tail(@)]
<1>1. q \in Seq(SslStreams \cup SslMessages) /\ Once(q, SslStreams) /\ Within(q, SslStreams, s.pair)
  BY DEF SslOK, LoopOK
<1>2. DOMAIN s = SslFields BY DEF SslOK
<1>3. DOMAIN t = SslFields /\ t.events = Tail(q) /\ \A f \in SslFields \ {"events"} : t[f] = s[f]
  BY <1>2 DEF SslFields, LoopFields
<1> HIDE DEF t, q
<1>4. /\ Tail(q) \in Seq(SslStreams \cup SslMessages) /\ Once(Tail(q), SslStreams)
      /\ Within(Tail(q), SslStreams, s.pair)
  BY <1>1, ListTail DEF q
<1>5. t.is = s.is /\ t.os = s.os /\ t.pair = s.pair /\ t.tripped = s.tripped BY <1>3 DEF SslFields, LoopFields
<1>6. LoopOK(t, SslStreams, SslMessages) BY <1>2, <1>3, <1>4, <1>5 DEF LoopOK, SslOK
<1>7. Frame(s, t) BY <1>2, <1>3 DEF Frame, LoopFields
<1>8. SslOK(t) BY <1>5, <1>6, <1>7, FrameOK
<1> QED BY <1>8 DEF q, t

LEMMA GrowKeeps ==
  ASSUME NEW s, SslOK(s), s.avail > 0
  PROVE  SslOK(nxe_istream_set_ready([s EXCEPT !.avail = @ + 1], "out"))
<1> DEFINE a == [s EXCEPT !.avail = @ + 1]
           u == nxe_istream_set_ready(a, "out")
<1>1. DOMAIN s = SslFields /\ LoopOK(s, SslStreams, SslMessages) BY DEF SslOK
<1>2. DOMAIN a = SslFields /\ a.avail = s.avail + 1 /\ \A f \in SslFields \ {"avail"} : a[f] = s[f]
  BY <1>1 DEF SslFields
<1> HIDE DEF a
<1>3. /\ a.started = s.started /\ a.complete = s.complete /\ a.failed = s.failed
      /\ a.step = s.step /\ a.off = s.off /\ a.flushed = s.flushed /\ a.record = s.record
      /\ a.room = s.room /\ a.wire = s.wire
      /\ a.events = s.events /\ a.is = s.is /\ a.os = s.os /\ a.pair = s.pair /\ a.tripped = s.tripped
  BY <1>2 DEF SslFields, LoopFields
<1>4. LoopOK(a, SslStreams, SslMessages) BY <1>1, <1>2, <1>3, SameLoop
<1>5. HandshakeInv(a) BY <1>3 DEF SslOK, HandshakeInv
<1>6. SendInv(a) BY <1>2, <1>3 DEF SslOK, SendInv
<1>7. SslOK(a) BY <1>2, <1>3, <1>4, <1>5, <1>6 DEF SslOK
<1>8. LoopOK(u, SslStreams, SslMessages) /\ Frame(a, u) /\ u.pair = a.pair /\ u.os = a.os
  <2>1. LoopOK(a, SslStreams, SslMessages) /\ "out" \in SslStreams BY <1>4, Names
  <2> QED BY ONLY <2>1, SetInputReady
<1> HIDE DEF u
<1>9. SslOK(u) BY <1>7, <1>8, FrameOK
<1> QED BY <1>9 DEF u, a

(* What the kernel and the client change; that the connection is closed.   *)
LEMMA OutsideKeeps ==
  ASSUME NEW s, NEW t, SslOK(s), DOMAIN t = SslFields,
         \A f \in SslFields \ {"edge", "rx", "sent", "rdclosed", "room", "closed"} : t[f] = s[f],
         t.room \in Nat
  PROVE  SslOK(t)
<1>1. t.step = s.step /\ \A f \in SslFields \ FreeFields : t[f] = s[f]
  BY DEF SslFields, FreeFields
<1>2. t.step \in 0 .. Len(Script) BY <1>1 DEF SslOK
<1> QED BY <1>1, <1>2, FreeOK

LEMMA StepsKeep == SslInv /\ [SslNext]_sslVars => SslInv'
<1> SUFFICES ASSUME SslInv, [SslNext]_sslVars PROVE SslInv' OBVIOUS
<1>1. SslOK(ssl) /\ at \in SslStreams \cup {"idle"} BY DEF SslInv
<1>2. /\ DOMAIN ssl = SslFields /\ ssl.room \in Nat /\ (ssl.failed => ssl.started /\ ~ ssl.complete)
      /\ ssl.avail \in Nat
      /\ ssl.pair = IF ssl.started /\ ~ ssl.complete THEN {"hin", "hout"} ELSE {"in", "out"}
  BY <1>1 DEF SslOK, HandshakeInv, SendInv
<1>3. CASE SslDeliver \/ data_error_on_message \/ SslClose
  <2> DEFINE t == [ssl EXCEPT !.events = Tail(@)]
             e == [ssl EXCEPT !.events = <<>>, !.closed = TRUE]
  <2>1. CASE SslDeliver \/ data_error_on_message
    <3>1. ssl.events # <<>> BY <2>1 DEF SslDeliver, data_error_on_message, Upcoming
    <3>2. SslOK(t) BY <1>1, <3>1, DeliverKeeps
    <3>3. SslOK(nxe_publish(t, "close")) BY <3>2, PublishOK DEF SslMessages
    <3>4. CASE SslDeliver
      <4>1. ssl' = t /\ at' \in SslStreams BY <3>4 DEF SslDeliver
      <4> QED BY <3>2, <4>1 DEF SslInv
    <3>5. CASE data_error_on_message
      <4>1. ssl' = nxe_publish(t, "close") /\ at' = at BY <3>5 DEF data_error_on_message
      <4> QED BY <1>1, <3>3, <4>1 DEF SslInv
    <3> QED BY <2>1, <3>4, <3>5
  <2>2. CASE SslClose
    <3>1. ssl' = e /\ at' = at BY <2>2 DEF SslClose
    <3>2. DOMAIN e = SslFields /\ e.events = <<>> /\ \A f \in SslFields \ {"events", "closed"} : e[f] = ssl[f]
      BY <1>2 DEF SslFields, LoopFields
    <3> HIDE DEF e
    <3>3. /\ e.started = ssl.started /\ e.complete = ssl.complete /\ e.failed = ssl.failed
          /\ e.step = ssl.step /\ e.room = ssl.room /\ e.off = ssl.off /\ e.flushed = ssl.flushed
          /\ e.record = ssl.record /\ e.avail = ssl.avail /\ e.wire = ssl.wire
          /\ e.is = ssl.is /\ e.os = ssl.os /\ e.pair = ssl.pair /\ e.tripped = ssl.tripped
      BY <3>2 DEF SslFields, LoopFields
    <3>4. LoopOK(e, SslStreams, SslMessages)
      <4>1. <<>> \in Seq(SslStreams \cup SslMessages) /\ Len(<<>>) = 0 OBVIOUS
      <4>2. Once(e.events, SslStreams) /\ Within(e.events, SslStreams, e.pair) BY <3>2, <4>1 DEF Once, Within
      <4> QED BY <1>1, <1>2, <3>2, <3>3, <4>1, <4>2 DEF LoopOK, SslOK
    <3>5. HandshakeInv(e) BY <1>1, <3>3 DEF SslOK, HandshakeInv
    <3>6. SendInv(e) BY <1>1, <3>3, SameSend DEF SslOK
    <3>7. SslOK(e) BY <1>1, <3>2, <3>3, <3>4, <3>5, <3>6 DEF SslOK
    <3> QED BY <1>1, <3>1, <3>7 DEF SslInv
  <2> QED BY <1>3, <2>1, <2>2
<1>4. CASE SslRound
  <2>1. /\ at # "idle" /\ at \in ssl.pair /\ at' = at
        /\ ssl' = CASE at = "in" -> SslDoRead(ssl)
                    [] at = "out" -> SslDoWrite(ssl)
                    [] at = "hin" -> handshake_stub_os_do_read(ssl)
                    [] at = "hout" -> handshake_stub_is_do_write(ssl)
    BY <1>2, <1>4 DEF SslRound, Flowing
  <2>2. CASE at = "in"
    <3>1. ~ ssl.failed BY <1>2, <2>1, <2>2
    <3>2. SslOK(SslDoRead(ssl)) BY <1>1, <3>1, DoReadKeeps
    <3>3. SslOK(ssl') BY <2>1, <2>2, <3>2
    <3> QED BY <1>1, <2>1, <3>3 DEF SslInv
  <2>3. CASE at = "out"
    <3>1. ~ ssl.failed BY <1>2, <2>1, <2>3
    <3>2. SslOK(SslDoWrite(ssl)) BY <1>1, <3>1, DoWriteKeeps
    <3>3. SslOK(ssl') BY <2>1, <2>3, <3>2
    <3> QED BY <1>1, <2>1, <3>3 DEF SslInv
  <2>4. CASE at = "hin"
    <3>1. ~ ssl.complete BY <1>2, <2>1, <2>4
    <3>2. SslOK(handshake_stub_os_do_read(ssl)) BY <1>1, <2>1, <3>1, StubsKeep
    <3>3. SslOK(ssl') BY <2>1, <2>4, <3>2
    <3> QED BY <1>1, <2>1, <3>3 DEF SslInv
  <2>5. CASE at = "hout"
    <3>1. ~ ssl.complete BY <1>2, <2>1, <2>5
    <3>2. SslOK(handshake_stub_is_do_write(ssl)) BY <1>1, <2>1, <3>1, StubsKeep
    <3>3. SslOK(ssl') BY <2>1, <2>5, <3>2
    <3> QED BY <1>1, <2>1, <3>3 DEF SslInv
  <2> QED BY <1>1, <2>1, <2>2, <2>3, <2>4, <2>5 DEF SslStreams
<1>5. CASE SslEndDelivery
  <2>1. ssl' = ssl /\ at' = "idle" BY <1>5 DEF SslEndDelivery
  <2> QED BY <1>1, <2>1 DEF SslInv
<1>6. CASE Poll
  <2> DEFINE s == [ssl EXCEPT !.edge = FALSE]
             t == IF s.rx # <<>> \/ s.rdclosed THEN SetReadable(s) ELSE s
             u == IF s.room > 0 THEN SetWritable(t) ELSE t
  <2>1. ssl' = (IF s.rdclosed THEN nxe_publish(u, "error") ELSE u) /\ at' = at BY <1>6 DEF Poll
  <2>2. DOMAIN s = SslFields /\ \A f \in SslFields \ {"edge"} : s[f] = ssl[f] BY <1>2 DEF SslFields
  <2> HIDE DEF s
  <2>3. s.room \in Nat BY <1>2, <2>2 DEF SslFields
  <2>4. SslOK(s) BY <1>1, <2>2, <2>3, OutsideKeeps
  <2>5. SslOK(t) BY <2>4, InputsOK
  <2> HIDE DEF t
  <2>6. SslOK(u) BY <2>5, OutputsOK
  <2> HIDE DEF u
  <2>7. SslOK(nxe_publish(u, "error")) BY <2>6, PublishOK DEF SslMessages
  <2>8. SslOK(ssl') BY <2>1, <2>6, <2>7
  <2> QED BY <1>1, <2>1, <2>8 DEF SslInv
<1>7. CASE ResponseGrows
  <2>1. ssl.avail > 0 /\ ssl' = nxe_istream_set_ready([ssl EXCEPT !.avail = @ + 1], "out") /\ at' = at
    BY <1>7, <1>2 DEF ResponseGrows
  <2>2. SslOK(nxe_istream_set_ready([ssl EXCEPT !.avail = @ + 1], "out")) BY <1>1, <2>1, GrowKeeps
  <2>3. SslOK(ssl') BY <2>1, <2>2
  <2> QED BY <1>1, <2>1, <2>3 DEF SslInv
<1>8. CASE ClientSends \/ ClientReceives \/ ClientCloses
  <2>1. at' = at BY <1>8 DEF ClientSends, ClientReceives, ClientCloses
  <2>2. /\ DOMAIN ssl' = SslFields /\ ssl'.room \in Nat
        /\ \A f \in SslFields \ {"edge", "rx", "sent", "rdclosed", "room", "closed"} : ssl'[f] = ssl[f]
    <3>1. CASE ClientSends BY <1>2, <3>1 DEF ClientSends, SslFields
    <3>2. CASE ClientReceives
      <4>1. ssl' = [ssl EXCEPT !.room = @ + 1, !.edge = TRUE] BY <3>2 DEF ClientReceives
      <4>2. ssl'.room = ssl.room + 1 BY <1>2, <4>1 DEF SslFields
      <4>3. /\ DOMAIN ssl' = SslFields
            /\ \A f \in SslFields \ {"edge", "rx", "sent", "rdclosed", "room", "closed"} : ssl'[f] = ssl[f]
        BY <1>2, <4>1 DEF SslFields
      <4> QED BY <1>2, <4>2, <4>3
    <3>3. CASE ClientCloses BY <1>2, <3>3 DEF ClientCloses, SslFields
    <3> QED BY <1>8, <3>1, <3>2, <3>3
  <2>3. SslOK(ssl') BY <1>1, <1>2, <2>2, OutsideKeeps
  <2> QED BY <1>1, <2>1, <2>3 DEF SslInv
<1>9. CASE UNCHANGED sslVars BY <1>1, <1>9 DEF SslInv, sslVars
<1> QED BY <1>3, <1>4, <1>5, <1>6, <1>7, <1>8, <1>9 DEF SslNext, SslProgress

LEMMA SslStarts == SslInit => SslInv
<1> SUFFICES ASSUME SslInit PROVE SslInv OBVIOUS
<1>1. PICK bad \in BadHellos :
        ssl = [events |-> <<>>, pair |-> {"in", "out"}, tripped |-> FALSE,
               is |-> [x \in SslStreams |-> FALSE], os |-> [x \in SslStreams |-> x = "in"],
               started |-> FALSE, complete |-> FALSE, failed |-> FALSE,
               step |-> 0, rx |-> <<>>, rdclosed |-> FALSE, room |-> SendRoom, edge |-> TRUE,
               record |-> 0, flushed |-> 0, wire |-> <<>>, got |-> 0, off |-> 0, avail |-> 0,
               closed |-> FALSE, sent |-> 0, bad |-> bad]
  BY DEF SslInit
<1>2. DOMAIN ssl = SslFields BY <1>1 DEF SslFields, LoopFields
<1>3. LoopOK(ssl, SslStreams, SslMessages)
  <2>1. /\ ssl.events = <<>> /\ ssl.pair = {"in", "out"} /\ ssl.tripped = FALSE
        /\ ssl.is = [x \in SslStreams |-> FALSE] /\ ssl.os = [x \in SslStreams |-> x = "in"]
    BY <1>1
  <2>2. LoopFields \subseteq SslFields /\ {"in", "out"} \subseteq SslStreams BY DEF SslFields, SslStreams
  <2>3. <<>> \in Seq(SslStreams \cup {}) /\ Len(<<>>) = 0 OBVIOUS
  <2>4. Once(ssl.events, SslStreams) /\ Within(ssl.events, SslStreams, ssl.pair) BY <2>1, <2>3 DEF Once, Within
  <2>5. ssl.is \in [SslStreams -> BOOLEAN] /\ ssl.os \in [SslStreams -> BOOLEAN] BY <2>1
  <2> QED BY <1>2, <2>1, <2>2, <2>3, <2>4, <2>5 DEF LoopOK
<1>4. /\ ssl.started = FALSE /\ ssl.complete = FALSE /\ ssl.failed = FALSE
      /\ ssl.pair = {"in", "out"} /\ ssl.step = 0 /\ ssl.room = SendRoom /\ ssl.record = 0 /\ ssl.flushed = 0
      /\ ssl.off = 0 /\ ssl.avail = 0 /\ ssl.wire = <<>>
  BY <1>1
<1>5. HandshakeInv(ssl) BY <1>4 DEF HandshakeInv
<1>6. SendInv(ssl)
  <2>1. <<>> = [i \in 1 .. 0 + 0 |-> i] OBVIOUS
  <2>2. ssl.wire = [i \in 1 .. ssl.off + ssl.flushed |-> i] BY <1>4, <2>1
  <2> QED BY <1>4, <2>2, SslAssumption DEF SendInv
<1>7. ssl.step \in 0 .. Len(Script) BY <1>4, SslAssumption, LenProperties
<1> QED BY <1>2, <1>3, <1>5, <1>6, <1>7 DEF SslInv, SslOK, SslInit

(* The inductive invariant holds of every behaviour of the TLS socket: the *)
(* pair of streams that is connected is the one of the phase, no event of  *)
(* a stream is in the loop twice, and the record that GnuTLS keeps, the    *)
(* offset of the protocol and what is on the wire agree.                   *)
THEOREM SslInvariant == SslSpec => []SslInv
BY SslStarts, StepsKeep, PTL DEF SslSpec

(* One handshake, whose assertion holds, with the streams of the protocol  *)
(* connected again as a pair; and the response is on the wire in order and *)
(* once, however the socket's buffer fills: for every script of the        *)
(* handshake and every size.                                               *)
THEOREM TlsIsSound == SslSpec => []TlsSound
<1>1. SslInv => TlsSound
  <2> SUFFICES ASSUME SslInv PROVE TlsSound OBVIOUS
  <2>1. ssl.tripped = FALSE /\ HandshakeInv(ssl) /\ SendInv(ssl) BY DEF SslInv, SslOK, LoopOK
  <2>2. HandshakeOnce BY <2>1 DEF HandshakeOnce, HandshakeInv
  <2>3. ssl.off + ssl.flushed \in Nat /\ ssl.wire = [i \in 1 .. ssl.off + ssl.flushed |-> i] BY <2>1 DEF SendInv
  <2>4. Len(ssl.wire) = ssl.off + ssl.flushed BY <2>3
  <2>5. RecordsInOrder BY <2>3, <2>4 DEF RecordsInOrder
  <2> QED BY <2>2, <2>5 DEF TlsSound
<1> QED BY <1>1, SslInvariant, PTL
=============================================================================
