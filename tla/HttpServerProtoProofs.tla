------------------------ MODULE HttpServerProtoProofs ------------------------
(***************************************************************************)
(* Proofs about HttpServerProto, for any client, any handlers, any sizes   *)
(* and any limits: what holds between the events of the loop, Connected,   *)
(* is kept by every call that the protocol makes, whichever stream's event *)
(* is being delivered.                                                     *)
(***************************************************************************)
EXTENDS HttpServerProto, EventOpsProofs

(* The fields that no call on a stream or a timer changes.                 *)
KeptHandler(s, t) ==
  /\ t.state = s.state /\ t.nxb = s.nxb /\ t.req = s.req /\ t.sink = s.sink
  /\ t.handler = s.handler /\ t.continue = s.continue
  /\ t.in_worker = s.in_worker /\ t.closing = s.closing /\ t.freed = s.freed
KeptData(s, t) ==
  /\ t.wire = s.wire /\ t.room = s.room /\ t.head = s.head /\ t.chunk = s.chunk
  /\ t.received = s.received /\ t.stored = s.stored /\ t.avail = s.avail
KeptOthers(s, t) ==
  /\ t.headers = s.headers /\ t.has_body = s.has_body /\ t.eof = s.eof /\ t.keep_alive = s.keep_alive
KeptTimers(s, t) == t.timers = s.timers /\ t.expired = s.expired
KeptStreams(s, t) == t.is = s.is /\ t.os = s.os /\ t.pair = s.pair
KeptList(s, t) == \A f : InLoop(t, f) <=> InLoop(s, f)
Kept(s, t) == KeptHandler(s, t) /\ KeptData(s, t) /\ KeptOthers(s, t)

LEMMA KeptByFrame ==
  ASSUME NEW s, NEW t, DOMAIN s = Fields, Frame(s, t)
  PROVE  Kept(s, t) /\ KeptTimers(s, t) /\ DOMAIN t = Fields
<1>1. \A f \in Fields \ LoopFields : t[f] = s[f] BY DEF Frame
<1>2. \A f \in {"timers", "expired", "state", "nxb", "req", "sink", "handler", "continue",
               "in_worker", "closing", "freed", "wire", "room", "head", "chunk", "received",
               "stored", "avail", "headers", "has_body", "eof", "keep_alive"} :
        f \in Fields \ LoopFields
  BY DEF Fields, LoopFields
<1> QED BY <1>1, <1>2 DEF Frame, Kept, KeptHandler, KeptData, KeptOthers, KeptTimers

(* ListInv is what the lemmas on the operators keep.                       *)
LEMMA RankIs ==
  /\ DOMAIN Rank = {"received", "body", "complete"}
  /\ Rank["received"] = 1 /\ Rank["body"] = 2 /\ Rank["complete"] = 3
  /\ DOMAIN Rank \subseteq Messages /\ Streams \cap Messages = {}
  /\ \A f \in DOMAIN Rank : Rank[f] \in Int
BY DEF Rank, Messages, Streams

LEMMA ListIsLoop ==
  ASSUME NEW s
  PROVE  ListInv(s) <=> DOMAIN s = Fields /\ Loop(s, Streams, Messages, Rank)
BY RankIs DEF ListInv, Loop, LoopOK, Once, Within, Fields, LoopFields

(* Nothing depends on the other fields.                                    *)
LEMMA ConnectedDepends ==
  ASSUME NEW s, NEW t, NEW x, Connected(s, x), ListInv(t), DataInv(t),
         KeptHandler(s, t), KeptTimers(s, t), KeptStreams(s, t), KeptList(s, t)
  PROVE  Connected(t, x) /\ (Attended(s) => Attended(t))
<1>1. \A f : InLoop(t, f) <=> InLoop(s, f) BY DEF KeptList
<1>2. Woken(t, x) BY <1>1 DEF Connected, Woken, Flowing, KeptStreams
<1>3. MessagesInv(t) BY <1>1 DEF Connected, MessagesInv, KeptStreams, KeptHandler, HasBody
<1>4. HandlerInv(t) BY DEF Connected, HandlerInv, KeptStreams, KeptHandler
<1>5. TimersFit(t) BY <1>1 DEF Connected, TimersFit, KeptTimers, KeptHandler
<1>6. OutputInv(t) BY <1>1 DEF Connected, OutputInv, KeptStreams, KeptHandler
<1>7. Connected(t, x)
  BY <1>1, <1>2, <1>3, <1>4, <1>5, <1>6 DEF Connected, KeptHandler
<1>8. Attended(s) => Attended(t) BY <1>1 DEF Attended, Failing, KeptHandler, KeptTimers
<1> QED BY <1>7, <1>8

-----------------------------------------------------------------------------
(* The calls, one by one: Connected is kept, and this is what changes.     *)

LEMMA UnsetInput ==
  ASSUME NEW s, NEW x, Connected(s, x), NEW y \in Streams
  PROVE  LET t == nxe_istream_unset_ready(s, y)
         IN  /\ Connected(t, x) /\ Kept(s, t) /\ KeptTimers(s, t) /\ KeptList(s, t)
             /\ t.pair = s.pair /\ t.os = s.os /\ t.is = [s.is EXCEPT ![y] = FALSE]
<1> DEFINE t == nxe_istream_unset_ready(s, y)
<1>1. DOMAIN s = Fields /\ Loop(s, Streams, Messages, Rank) BY ListIsLoop DEF Connected
<1>2. /\ Loop(t, Streams, Messages, Rank) /\ Frame(s, t) /\ t.pair = s.pair /\ t.os = s.os
      /\ t.is = [s.is EXCEPT ![y] = FALSE] /\ \A f : InLoop(t, f) <=> InLoop(s, f)
  BY <1>1, UnsetInputIn
<1> HIDE DEF t
<1>3. Kept(s, t) /\ KeptTimers(s, t) /\ DOMAIN t = Fields BY <1>1, <1>2, KeptByFrame
<1>4. ListInv(t) BY <1>2, <1>3, ListIsLoop
<1>5. DataInv(t) BY <1>3 DEF Connected, DataInv, Kept, KeptHandler, KeptData, KeptTimers
<1>6. \A z \in Streams : t.is[z] => s.is[z] BY <1>2 DEF Connected, ListInv
<1>7. "out" \in Streams BY DEF Streams
<1>8. Woken(t, x) BY <1>2, <1>6 DEF Connected, Woken, Flowing
<1>9. MessagesInv(t) BY <1>2, <1>3, <1>6, <1>7 DEF Connected, MessagesInv, Kept, KeptHandler, HasBody
<1>10. HandlerInv(t) BY <1>2, <1>3 DEF Connected, HandlerInv, Kept, KeptHandler
<1>11. TimersFit(t) BY <1>2, <1>3 DEF Connected, TimersFit, KeptTimers, Kept, KeptHandler
<1>12. OutputInv(t) BY <1>2, <1>3, <1>6, <1>7 DEF Connected, OutputInv, Kept, KeptHandler
<1>13. Connected(t, x)
  BY <1>2, <1>3, <1>4, <1>5, <1>8, <1>9, <1>10, <1>11, <1>12 DEF Connected, Kept, KeptHandler
<1> QED BY <1>2, <1>3, <1>13 DEF t, KeptList

LEMMA UnsetOutput ==
  ASSUME NEW s, NEW x, Connected(s, x), NEW y \in Streams
  PROVE  LET t == nxe_ostream_unset_ready(s, y)
         IN  /\ Connected(t, x) /\ Kept(s, t) /\ KeptTimers(s, t) /\ KeptList(s, t)
             /\ t.pair = s.pair /\ t.is = s.is /\ t.os = [s.os EXCEPT ![y] = FALSE]
<1> DEFINE t == nxe_ostream_unset_ready(s, y)
<1>1. DOMAIN s = Fields /\ Loop(s, Streams, Messages, Rank) BY ListIsLoop DEF Connected
<1>2. /\ Loop(t, Streams, Messages, Rank) /\ Frame(s, t) /\ t.pair = s.pair /\ t.is = s.is
      /\ t.os = [s.os EXCEPT ![y] = FALSE] /\ \A f : InLoop(t, f) <=> InLoop(s, f)
  BY <1>1, UnsetOutputIn
<1> HIDE DEF t
<1>3. Kept(s, t) /\ KeptTimers(s, t) /\ DOMAIN t = Fields BY <1>1, <1>2, KeptByFrame
<1>4. ListInv(t) BY <1>2, <1>3, ListIsLoop
<1>5. DataInv(t) BY <1>3 DEF Connected, DataInv, Kept, KeptHandler, KeptData, KeptTimers
<1>6. \A z \in Streams : t.os[z] => s.os[z] BY <1>2 DEF Connected, ListInv
<1>7. "cb" \in Streams BY DEF Streams
<1>8. Woken(t, x) BY <1>2, <1>6 DEF Connected, Woken, Flowing
<1>9. MessagesInv(t) BY <1>2, <1>3 DEF Connected, MessagesInv, Kept, KeptHandler, HasBody
<1>10. HandlerInv(t) BY <1>2, <1>3 DEF Connected, HandlerInv, Kept, KeptHandler
<1>11. TimersFit(t) BY <1>2, <1>3 DEF Connected, TimersFit, KeptTimers, Kept, KeptHandler
<1>12. OutputInv(t) BY <1>2, <1>3, <1>6, <1>7 DEF Connected, OutputInv, Kept, KeptHandler
<1>13. Connected(t, x)
  BY <1>2, <1>3, <1>4, <1>5, <1>8, <1>9, <1>10, <1>11, <1>12 DEF Connected, Kept, KeptHandler
<1> QED BY <1>2, <1>3, <1>13 DEF t, KeptList

(* Setting the input of y ready: y is not the stream whose event is being  *)
(* delivered, unless that cannot flow; and the output stream has something *)
(* to send.                                                                *)
LEMMA SetInput ==
  ASSUME NEW s, NEW x, Connected(s, x), NEW y \in Streams,
         y = x => s.is[y] \/ ~ s.os[y] \/ y \notin s.pair,
         y = "out" => /\ ~ InLoop(s, "complete") /\ (s.continue \/ s.state \in Sending)
                      /\ ~ (s.state = "SENDING_BODY" /\ "cb" \in s.pair /\ s.os["cb"])
  PROVE  LET t == nxe_istream_set_ready(s, y)
         IN  /\ Connected(t, x) /\ Kept(s, t) /\ KeptTimers(s, t)
             /\ t.pair = s.pair /\ t.os = s.os /\ t.is = [s.is EXCEPT ![y] = TRUE]
             /\ \A f : InLoop(t, f) <=> \/ InLoop(s, f)
                                        \/ f = y /\ ~ s.is[y] /\ s.os[y] /\ y \in s.pair
<1> DEFINE t == nxe_istream_set_ready(s, y)
<1>1. DOMAIN s = Fields /\ Loop(s, Streams, Messages, Rank) BY ListIsLoop DEF Connected
<1>2. /\ Loop(t, Streams, Messages, Rank) /\ Frame(s, t) /\ t.pair = s.pair /\ t.os = s.os
      /\ t.is = [s.is EXCEPT ![y] = TRUE]
      /\ \A f : InLoop(t, f) <=> \/ InLoop(s, f)
                                 \/ f = y /\ ~ s.is[y] /\ s.os[y] /\ y \in s.pair
  BY <1>1, SetInputIn
<1> HIDE DEF t
<1>3. Kept(s, t) /\ KeptTimers(s, t) /\ DOMAIN t = Fields BY <1>1, <1>2, KeptByFrame
<1>4. ListInv(t) BY <1>2, <1>3, ListIsLoop
<1>5. DataInv(t) BY <1>3 DEF Connected, DataInv, Kept, KeptHandler, KeptData, KeptTimers
<1>6. /\ \A z \in Streams : t.is[z] <=> s.is[z] \/ z = y
      /\ \A f \in Messages : InLoop(t, f) <=> InLoop(s, f)
      /\ "out" \in Streams /\ "cb" \in Streams
      /\ {"received", "body", "complete", "error", "data_error"} \subseteq Messages
  BY <1>2 DEF Connected, ListInv, Streams, Messages
<1>8. Woken(t, x) BY <1>2, <1>6 DEF Connected, Woken, Flowing
<1>9. MessagesInv(t) BY <1>2, <1>3, <1>6 DEF Connected, MessagesInv, Kept, KeptHandler, HasBody
<1>10. HandlerInv(t) BY <1>2, <1>3 DEF Connected, HandlerInv, Kept, KeptHandler
<1>11. TimersFit(t) BY <1>2, <1>3, <1>6 DEF Connected, TimersFit, KeptTimers, Kept, KeptHandler
<1>12. OutputInv(t) BY <1>2, <1>3, <1>6 DEF Connected, OutputInv, Kept, KeptHandler
<1>13. Connected(t, x)
  BY <1>2, <1>3, <1>4, <1>5, <1>8, <1>9, <1>10, <1>11, <1>12 DEF Connected, Kept, KeptHandler
<1> QED BY <1>2, <1>3, <1>13 DEF t

(* Setting the output of y ready.                                          *)
LEMMA SetOutput ==
  ASSUME NEW s, NEW x, Connected(s, x), NEW y \in Streams,
         y = x => ~ s.is[y] \/ y \notin s.pair,
         y = "cb" => \/ s.state # "SENDING_BODY" \/ "cb" \notin s.pair
                     \/ ~ s.is["out"] /\ ~ InLoop(s, "out")
  PROVE  LET t == nxe_ostream_set_ready(s, y)
         IN  /\ Connected(t, x) /\ Kept(s, t) /\ KeptTimers(s, t)
             /\ t.pair = s.pair /\ t.is = s.is /\ t.os = [s.os EXCEPT ![y] = TRUE]
             /\ \A f : InLoop(t, f) <=> InLoop(s, f) \/ (f = y /\ s.is[y] /\ y \in s.pair)
<1> DEFINE t == nxe_ostream_set_ready(s, y)
<1>1. DOMAIN s = Fields /\ Loop(s, Streams, Messages, Rank) BY ListIsLoop DEF Connected
<1>2. /\ Loop(t, Streams, Messages, Rank) /\ Frame(s, t) /\ t.pair = s.pair /\ t.is = s.is
      /\ t.os = [s.os EXCEPT ![y] = TRUE]
      /\ \A f : InLoop(t, f) <=> InLoop(s, f) \/ (f = y /\ s.is[y] /\ y \in s.pair)
  BY <1>1, SetOutputIn
<1> HIDE DEF t
<1>3. Kept(s, t) /\ KeptTimers(s, t) /\ DOMAIN t = Fields BY <1>1, <1>2, KeptByFrame
<1>4. ListInv(t) BY <1>2, <1>3, ListIsLoop
<1>5. DataInv(t) BY <1>3 DEF Connected, DataInv, Kept, KeptHandler, KeptData, KeptTimers
<1>6. /\ \A z \in Streams : t.os[z] <=> s.os[z] \/ z = y
      /\ \A f \in Messages : InLoop(t, f) <=> InLoop(s, f)
      /\ "out" \in Streams /\ "cb" \in Streams
      /\ {"received", "body", "complete", "error", "data_error"} \subseteq Messages
  BY <1>2 DEF Connected, ListInv, Streams, Messages
<1>8. Woken(t, x) BY <1>2, <1>6 DEF Connected, Woken, Flowing
<1>9. MessagesInv(t) BY <1>2, <1>3, <1>6 DEF Connected, MessagesInv, Kept, KeptHandler, HasBody
<1>10. HandlerInv(t) BY <1>2, <1>3 DEF Connected, HandlerInv, Kept, KeptHandler
<1>11. TimersFit(t) BY <1>2, <1>3, <1>6 DEF Connected, TimersFit, KeptTimers, Kept, KeptHandler
<1>12. OutputInv(t) BY <1>2, <1>3, <1>6 DEF Connected, OutputInv, Kept, KeptHandler
<1>13. Connected(t, x)
  BY <1>2, <1>3, <1>4, <1>5, <1>8, <1>9, <1>10, <1>11, <1>12 DEF Connected, Kept, KeptHandler
<1> QED BY <1>2, <1>3, <1>13 DEF t

LEMMA Disconnect ==
  ASSUME NEW s, NEW x, Connected(s, x), NEW y \in Streams
  PROVE  LET t == nxe_disconnect_streams(s, y)
         IN  /\ Connected(t, x) /\ Kept(s, t) /\ KeptTimers(s, t)
             /\ t.pair = s.pair \ {y} /\ t.is = s.is /\ t.os = s.os
             /\ \A f : InLoop(t, f) <=> InLoop(s, f) /\ f # y
<1> DEFINE t == nxe_disconnect_streams(s, y)
<1>1. DOMAIN s = Fields /\ Loop(s, Streams, Messages, Rank) BY ListIsLoop DEF Connected
<1>2. /\ Loop(t, Streams, Messages, Rank) /\ Frame(s, t) /\ t.is = s.is /\ t.os = s.os
      /\ t.pair = s.pair \ {y} /\ \A f : InLoop(t, f) <=> InLoop(s, f) /\ f # y
  BY <1>1, DisconnectIn
<1> HIDE DEF t
<1>3. Kept(s, t) /\ KeptTimers(s, t) /\ DOMAIN t = Fields BY <1>1, <1>2, KeptByFrame
<1>4. ListInv(t) BY <1>2, <1>3, ListIsLoop
<1>5. DataInv(t) BY <1>3 DEF Connected, DataInv, Kept, KeptHandler, KeptData, KeptTimers
<1>6. /\ \A f \in Messages : InLoop(t, f) <=> InLoop(s, f)
      /\ {"received", "body", "complete", "error", "data_error"} \subseteq Messages
  BY <1>2 DEF Streams, Messages
<1>8. Woken(t, x) BY <1>2 DEF Connected, Woken, Flowing
<1>9. MessagesInv(t) BY <1>2, <1>3, <1>6 DEF Connected, MessagesInv, Kept, KeptHandler, HasBody
<1>10. HandlerInv(t) BY <1>2, <1>3 DEF Connected, HandlerInv, Kept, KeptHandler
<1>11. TimersFit(t) BY <1>2, <1>3, <1>6 DEF Connected, TimersFit, KeptTimers, Kept, KeptHandler
<1>12. OutputInv(t) BY <1>2, <1>3, <1>6 DEF Connected, OutputInv, Kept, KeptHandler
<1>13. Connected(t, x)
  BY <1>2, <1>3, <1>4, <1>5, <1>8, <1>9, <1>10, <1>11, <1>12 DEF Connected, Kept, KeptHandler
<1> QED BY <1>2, <1>3, <1>13 DEF t

(* The body of the request is connected to a receiver.                     *)
LEMMA ConnectBody ==
  ASSUME NEW s, NEW x, Connected(s, x), "rb" \notin s.pair, x # "rb",
         s.sink # "none", ~ InLoop(s, "complete")
  PROVE  LET t == nxe_connect_streams(s, "rb")
         IN  /\ Connected(t, x) /\ Kept(s, t) /\ KeptTimers(s, t)
             /\ t.pair = s.pair \cup {"rb"} /\ t.is = s.is /\ t.os = s.os
             /\ \A f \in Messages : InLoop(t, f) <=> InLoop(s, f)
<1> DEFINE t == nxe_connect_streams(s, "rb")
<1>1. DOMAIN s = Fields /\ Loop(s, Streams, Messages, Rank) /\ "rb" \in Streams
  BY ListIsLoop DEF Connected, Streams
<1>2. /\ Loop(t, Streams, Messages, Rank) /\ Frame(s, t) /\ t.is = s.is /\ t.os = s.os
      /\ t.pair = s.pair \cup {"rb"}
      /\ \A f : InLoop(t, f) <=> InLoop(s, f) \/ (f = "rb" /\ s.is["rb"] /\ s.os["rb"])
  BY <1>1, ConnectIn
<1> HIDE DEF t
<1>3. Kept(s, t) /\ KeptTimers(s, t) /\ DOMAIN t = Fields BY <1>1, <1>2, KeptByFrame
<1>4. ListInv(t) BY <1>2, <1>3, ListIsLoop
<1>5. DataInv(t) BY <1>3 DEF Connected, DataInv, Kept, KeptHandler, KeptData, KeptTimers
<1>6. /\ \A f \in Messages : InLoop(t, f) <=> InLoop(s, f)
      /\ {"received", "body", "complete", "error", "data_error"} \subseteq Messages
  BY <1>2 DEF Streams, Messages
<1>8. Woken(t, x) BY <1>2 DEF Connected, Woken, Flowing
<1>9. MessagesInv(t) BY <1>2, <1>3, <1>6 DEF Connected, MessagesInv, Kept, KeptHandler, HasBody
<1>10. HandlerInv(t) BY <1>2, <1>3 DEF Connected, HandlerInv, Kept, KeptHandler
<1>11. TimersFit(t) BY <1>2, <1>3, <1>6 DEF Connected, TimersFit, KeptTimers, Kept, KeptHandler
<1>12. OutputInv(t) BY <1>2, <1>3, <1>6 DEF Connected, OutputInv, Kept, KeptHandler
<1>13. Connected(t, x)
  BY <1>2, <1>3, <1>4, <1>5, <1>8, <1>9, <1>10, <1>11, <1>12 DEF Connected, Kept, KeptHandler
<1> QED BY <1>2, <1>3, <1>6, <1>13 DEF t

(* An error may be published at any time.                                  *)
LEMMA PublishError ==
  ASSUME NEW s, NEW x, Connected(s, x), NEW m \in {"error", "data_error"}
  PROVE  LET t == nxe_publish(s, m)
         IN  /\ Connected(t, x) /\ Attended(t) /\ Kept(s, t) /\ KeptTimers(s, t) /\ KeptStreams(s, t)
             /\ \A f : InLoop(t, f) <=> InLoop(s, f) \/ f = m
<1> DEFINE t == nxe_publish(s, m)
<1>1. DOMAIN s = Fields /\ Loop(s, Streams, Messages, Rank) BY ListIsLoop DEF Connected
<1>2. /\ Loop(t, Streams, Messages, Rank) /\ Frame(s, t) /\ t.is = s.is /\ t.os = s.os
      /\ t.pair = s.pair /\ \A f : InLoop(t, f) <=> InLoop(s, f) \/ f = m
  <2>1. m \in Messages /\ m \notin DOMAIN Rank BY RankIs DEF Messages
  <2> QED BY <1>1, <2>1, PublishIn
<1> HIDE DEF t
<1>3. Kept(s, t) /\ KeptTimers(s, t) /\ DOMAIN t = Fields BY <1>1, <1>2, KeptByFrame
<1>4. ListInv(t) BY <1>2, <1>3, ListIsLoop
<1>5. DataInv(t) BY <1>3 DEF Connected, DataInv, Kept, KeptHandler, KeptData, KeptTimers
<1>6. \A f \in Streams \cup {"received", "body", "complete"} : InLoop(t, f) <=> InLoop(s, f)
  BY <1>2 DEF Streams
<1>7. "out" \in Streams BY DEF Streams
<1>8. Woken(t, x) BY <1>2 DEF Connected, Woken, Flowing
<1>9. MessagesInv(t) BY <1>2, <1>3, <1>6, <1>7 DEF Connected, MessagesInv, Kept, KeptHandler, HasBody
<1>10. HandlerInv(t) BY <1>2, <1>3 DEF Connected, HandlerInv, Kept, KeptHandler
<1>11. TimersFit(t) BY <1>2, <1>3, <1>6 DEF Connected, TimersFit, KeptTimers, Kept, KeptHandler
<1>12. OutputInv(t) BY <1>2, <1>3, <1>6, <1>7 DEF Connected, OutputInv, Kept, KeptHandler
<1>13. Connected(t, x)
  BY <1>2, <1>3, <1>4, <1>5, <1>6, <1>8, <1>9, <1>10, <1>11, <1>12 DEF Connected, Kept, KeptHandler
<1>14. Attended(t) BY <1>2 DEF Attended, Failing
<1> QED BY <1>2, <1>3, <1>13, <1>14 DEF t, KeptStreams

LEMMA UnsetTimer ==
  ASSUME NEW s, NEW x, Connected(s, x), NEW m \in Timers
  PROVE  LET t == nxe_unset_timer(s, m)
         IN  /\ Connected(t, x) /\ Kept(s, t) /\ KeptStreams(s, t) /\ KeptList(s, t)
             /\ t.timers = s.timers \ {m} /\ t.expired = s.expired \ {m}
<1> DEFINE t == nxe_unset_timer(s, m)
<1>1. DOMAIN s = Fields BY DEF Connected, ListInv
<1>2. /\ DOMAIN t = Fields /\ Kept(s, t) /\ KeptStreams(s, t)
      /\ t.timers = s.timers \ {m} /\ t.expired = s.expired \ {m}
      /\ t.events = s.events /\ t.tripped = s.tripped
  BY <1>1 DEF nxe_unset_timer, Fields, Kept, KeptHandler, KeptData, KeptOthers, KeptStreams
<1> HIDE DEF t
<1>3. \A f : InLoop(t, f) <=> InLoop(s, f) BY <1>2 DEF InLoop
<1>4. ListInv(t) BY <1>2 DEF Connected, ListInv, KeptStreams
<1>5. DataInv(t) BY <1>2 DEF Connected, DataInv, Kept, KeptHandler, KeptData
<1>8. Woken(t, x) BY <1>2, <1>3 DEF Connected, Woken, Flowing, KeptStreams
<1>9. MessagesInv(t)
  BY <1>2, <1>3 DEF Connected, MessagesInv, Kept, KeptHandler, HasBody, KeptStreams
<1>10. HandlerInv(t) BY <1>2 DEF Connected, HandlerInv, Kept, KeptHandler, KeptStreams
<1>11. TimersFit(t) BY <1>2, <1>3 DEF Connected, TimersFit, Kept, KeptHandler
<1>12. OutputInv(t) BY <1>2, <1>3 DEF Connected, OutputInv, Kept, KeptHandler, KeptStreams
<1>13. Connected(t, x)
  BY <1>2, <1>3, <1>4, <1>5, <1>8, <1>9, <1>10, <1>11, <1>12 DEF Connected, Kept, KeptHandler
<1> QED BY <1>2, <1>3, <1>13 DEF t, KeptList

(* A timer is set that is not set, and that belongs to the state.          *)
LEMMA SetTimer ==
  ASSUME NEW s, NEW x, Connected(s, x), NEW m \in Timers, m \notin s.timers,
         m = "keep_alive" => s.state = "WAITING_FOR_REQUEST",
         m = "read" => s.state \in Receiving,
         m = "write" => s.state \in Sending /\ ~ InLoop(s, "complete")
  PROVE  LET t == nxe_set_timer(s, m)
         IN  /\ Connected(t, x) /\ Attended(t) /\ Kept(s, t) /\ KeptStreams(s, t) /\ KeptList(s, t)
             /\ t.timers = s.timers \cup {m} /\ t.expired = s.expired
<1> DEFINE t == nxe_set_timer(s, m)
<1>1. DOMAIN s = Fields BY DEF Connected, ListInv
<1>2. /\ DOMAIN t = Fields /\ Kept(s, t) /\ KeptStreams(s, t)
      /\ t.timers = s.timers \cup {m} /\ t.expired = s.expired
      /\ t.events = s.events /\ t.tripped = s.tripped
  BY <1>1 DEF nxe_set_timer, Fields, Kept, KeptHandler, KeptData, KeptOthers, KeptStreams,
              Connected, ListInv
<1> HIDE DEF t
<1>3. \A f : InLoop(t, f) <=> InLoop(s, f) BY <1>2 DEF InLoop
<1>4. ListInv(t) BY <1>2 DEF Connected, ListInv, KeptStreams
<1>5. DataInv(t) BY <1>2 DEF Connected, DataInv, Kept, KeptHandler, KeptData
<1>8. Woken(t, x) BY <1>2, <1>3 DEF Connected, Woken, Flowing, KeptStreams
<1>9. MessagesInv(t)
  BY <1>2, <1>3 DEF Connected, MessagesInv, Kept, KeptHandler, HasBody, KeptStreams
<1>10. HandlerInv(t) BY <1>2 DEF Connected, HandlerInv, Kept, KeptHandler, KeptStreams
<1>11. TimersFit(t) BY <1>2, <1>3 DEF Connected, TimersFit, Kept, KeptHandler
<1>12. OutputInv(t) BY <1>2, <1>3 DEF Connected, OutputInv, Kept, KeptHandler, KeptStreams
<1>13. Connected(t, x)
  BY <1>2, <1>3, <1>4, <1>5, <1>8, <1>9, <1>10, <1>11, <1>12 DEF Connected, Kept, KeptHandler
<1>14. Attended(t) BY <1>2, <1>3 DEF Attended, Kept, KeptHandler, Timers
<1> QED BY <1>2, <1>3, <1>13, <1>14 DEF t, KeptList

-----------------------------------------------------------------------------
(* Data, and the socket.                                                   *)

(* A change of data only.                                                  *)
LEMMA DataChanges ==
  ASSUME NEW s, NEW t, NEW x, Connected(s, x), DOMAIN t = Fields,
         t.events = s.events, t.tripped = s.tripped, KeptHandler(s, t), KeptTimers(s, t),
         KeptStreams(s, t), DataInv(t)
  PROVE  Connected(t, x) /\ KeptList(s, t) /\ (Attended(s) => Attended(t))
<1>1. KeptList(s, t) BY DEF KeptList, InLoop
<1>2. ListInv(t) BY DEF Connected, ListInv, KeptStreams
<1> QED BY <1>1, <1>2, ConnectedDepends

LEMMA MinimumIs ==
  ASSUME NEW m \in Nat, NEW n \in Nat
  PROVE  Minimum(m, n) \in Nat /\ Minimum(m, n) <= m /\ Minimum(m, n) <= n
BY DEF Minimum

LEMMA SentIs ==
  ASSUME NEW s, NEW x, Connected(s, x), NEW n \in Nat
  PROVE  Sent(s, n) \in Nat /\ Sent(s, n) <= n /\ Sent(s, n) <= s.room /\ (~ s.os["out"] => Sent(s, n) = 0)
<1>1. s.room \in Nat BY DEF Connected, DataInv
<1> QED BY <1>1 DEF Sent, Minimum

LEMMA Write ==
  ASSUME NEW s, NEW x, Connected(s, x), NEW n \in Nat
  PROVE  LET t == sock_data_send_write(s, n)
         IN  /\ Connected(t, x) /\ (Attended(s) => Attended(t))
             /\ KeptHandler(s, t) /\ KeptOthers(s, t) /\ KeptTimers(s, t) /\ KeptList(s, t)
             /\ t.avail = s.avail /\ t.is = s.is /\ t.pair = s.pair
             /\ t.os = [s.os EXCEPT !["out"] = s.os["out"] /\ Sent(s, n) = n]
<1> DEFINE t == sock_data_send_write(s, n)
           flag == s.os["out"] /\ Sent(s, n) = n
<1>1. DOMAIN s = Fields BY DEF Connected, ListInv
<1>2. Sent(s, n) \in Nat /\ Sent(s, n) <= s.room /\ s.room \in Nat
  BY SentIs DEF Connected, DataInv
<1>3. /\ DOMAIN t = Fields /\ KeptHandler(s, t) /\ KeptOthers(s, t) /\ KeptTimers(s, t)
      /\ t.events = s.events /\ t.tripped = s.tripped /\ t.is = s.is /\ t.pair = s.pair
      /\ t.wire = s.wire /\ t.head = s.head /\ t.chunk = s.chunk
      /\ t.received = s.received /\ t.stored = s.stored /\ t.avail = s.avail
      /\ t.room = s.room - Sent(s, n)
      /\ t.os = [s.os EXCEPT !["out"] = flag]
  BY <1>1 DEF sock_data_send_write, Fields, KeptHandler, KeptOthers, KeptTimers
<1> HIDE DEF t
<1>4. s.os \in [Streams -> BOOLEAN] /\ "out" \in Streams /\ "cb" \in Streams
  BY DEF Connected, ListInv, Streams
<1>5. flag \in BOOLEAN OBVIOUS
<1>6. t.os \in [Streams -> BOOLEAN] /\ (\A y \in Streams : t.os[y] => s.os[y]) /\ t.os["cb"] = s.os["cb"]
  BY <1>3, <1>4, <1>5
<1> HIDE DEF flag
<1>7. \A f : InLoop(t, f) <=> InLoop(s, f) BY <1>3 DEF InLoop
<1>8. ListInv(t) BY <1>3, <1>6 DEF Connected, ListInv
<1>9. DataInv(t) BY <1>2, <1>3 DEF Connected, DataInv, KeptHandler, KeptTimers
<1>10. Woken(t, x) BY <1>3, <1>6, <1>7 DEF Connected, Woken, Flowing
<1>11. MessagesInv(t) BY <1>3, <1>7 DEF Connected, MessagesInv, KeptHandler, HasBody
<1>12. HandlerInv(t) BY <1>3 DEF Connected, HandlerInv, KeptHandler
<1>13. TimersFit(t) BY <1>3, <1>7 DEF Connected, TimersFit, KeptHandler, KeptTimers
<1>14. OutputInv(t) BY <1>3, <1>6, <1>7 DEF Connected, OutputInv, KeptHandler
<1>15. Connected(t, x)
  BY <1>3, <1>7, <1>8, <1>9, <1>10, <1>11, <1>12, <1>13, <1>14 DEF Connected, KeptHandler
<1>16. Attended(s) => Attended(t) BY <1>3, <1>7 DEF Attended, Failing, KeptHandler, KeptTimers
<1> QED BY <1>3, <1>7, <1>15, <1>16 DEF t, flag, KeptList

LEMMA SubSeqKeeps ==
  ASSUME NEW E, NEW q \in Seq(E), NEW n \in Nat, n <= Len(q)
  PROVE  /\ SubSeq(q, n + 1, Len(q)) \in Seq(E) /\ Len(SubSeq(q, n + 1, Len(q))) = Len(q) - n
         /\ SubSeq(q, 1, n) \in Seq(E) /\ Len(SubSeq(q, 1, n)) = n
<1>1. Len(q) \in Nat /\ \A i \in 1 .. Len(q) : q[i] \in E BY LenProperties, ElementOfSeq
<1>2. /\ SubSeq(q, n + 1, Len(q)) \in Seq(E)
      /\ Len(SubSeq(q, n + 1, Len(q))) = IF n + 1 <= Len(q) THEN Len(q) - (n + 1) + 1 ELSE 0
  <2>1. n + 1 \in Int /\ Len(q) \in Int /\ \A i \in n + 1 .. Len(q) : q[i] \in E BY <1>1
  <2> QED BY <2>1, SubSeqProperties
<1>3. /\ SubSeq(q, 1, n) \in Seq(E)
      /\ Len(SubSeq(q, 1, n)) = IF 1 <= n THEN n - 1 + 1 ELSE 0
  <2>1. 1 \in Int /\ n \in Int /\ \A i \in 1 .. n : q[i] \in E BY <1>1
  <2> QED BY <2>1, SubSeqProperties
<1> QED BY <1>1, <1>2, <1>3

(* A read takes at most size pieces from the wire, and may find the error. *)
LEMMA Receive ==
  ASSUME NEW s, NEW x, Connected(s, x), NEW size \in Nat
  PROVE  LET t == sock_data_recv_read(s, size)
         IN  /\ Connected(t, x) /\ (Attended(s) => Attended(t))
             /\ KeptHandler(s, t) /\ KeptOthers(s, t) /\ KeptTimers(s, t)
             /\ t.head = s.head /\ t.chunk = s.chunk /\ t.received = s.received
             /\ t.stored = s.stored /\ t.room = s.room /\ t.avail = s.avail
             /\ t.os = s.os /\ t.pair = s.pair
             /\ (\A y \in Streams \ {"in"} : t.is[y] = s.is[y]) /\ (t.is["in"] => s.is["in"])
             /\ (\A f \in (Streams \cup Messages) \ {"data_error"} : InLoop(t, f) <=> InLoop(s, f))
             /\ (\A f : InLoop(s, f) => InLoop(t, f))
             /\ Len(s.wire) - Len(t.wire) \in 0 .. size /\ Len(s.wire) - Len(t.wire) <= Len(s.wire)
             /\ Len(s.wire) \in Nat
<1> DEFINE n == IF s.is["in"] THEN Minimum(Len(s.wire), size) ELSE 0
           short == s.is["in"] /\ n < size
           u == [s EXCEPT !.wire = SubSeq(@, n + 1, Len(@)), !.is["in"] = @ /\ ~ short]
           t == sock_data_recv_read(s, size)
<1>1. DOMAIN s = Fields /\ s.wire \in Seq(Pieces) /\ Len(s.wire) \in Nat
  BY LenProperties DEF Connected, ListInv, DataInv
<1>2. n \in Nat /\ n <= Len(s.wire) /\ n <= size
  <2> DEFINE l == Len(s.wire)
  <2>1. l \in Nat BY <1>1
  <2> HIDE DEF l
  <2>2. Minimum(l, size) \in Nat /\ Minimum(l, size) <= l /\ Minimum(l, size) <= size
    BY <2>1, MinimumIs
  <2> QED BY <2>1, <2>2 DEF l
<1>3. t = IF short /\ n = 0 /\ s.rdclosed THEN nxe_publish(u, "data_error") ELSE u
  BY DEF sock_data_recv_read
<1> DEFINE flag == s.is["in"] /\ ~ short
<1> HIDE DEF n
<1>4. /\ DOMAIN u = Fields /\ KeptHandler(s, u) /\ KeptOthers(s, u) /\ KeptTimers(s, u)
      /\ u.events = s.events /\ u.tripped = s.tripped /\ u.os = s.os /\ u.pair = s.pair
      /\ u.head = s.head /\ u.chunk = s.chunk /\ u.room = s.room
      /\ u.received = s.received /\ u.stored = s.stored /\ u.avail = s.avail
      /\ u.wire = SubSeq(s.wire, n + 1, Len(s.wire))
      /\ u.is = [s.is EXCEPT !["in"] = flag]
  BY <1>1 DEF Fields, KeptHandler, KeptOthers, KeptTimers
<1>5. flag \in BOOLEAN /\ (flag => s.is["in"]) OBVIOUS
<1> HIDE DEF t, u, flag, short
<1>6. s.is \in [Streams -> BOOLEAN] /\ "out" \in Streams /\ "in" \in Streams
  BY DEF Connected, ListInv, Streams
<1>7. /\ u.is \in [Streams -> BOOLEAN] /\ (\A y \in Streams : u.is[y] => s.is[y])
      /\ (\A y \in Streams \ {"in"} : u.is[y] = s.is[y]) /\ (u.is["in"] => s.is["in"])
  BY <1>4, <1>5, <1>6
<1>8. u.wire \in Seq(Pieces) /\ Len(u.wire) = Len(s.wire) - n BY <1>1, <1>2, <1>4, SubSeqKeeps
<1>9. \A f : InLoop(u, f) <=> InLoop(s, f) BY <1>4 DEF InLoop
<1>10. ListInv(u) BY <1>4, <1>7 DEF Connected, ListInv
<1>11. DataInv(u) BY <1>4, <1>8 DEF Connected, DataInv, KeptHandler, KeptTimers
<1>12. Woken(u, x) BY <1>4, <1>7, <1>9 DEF Connected, Woken, Flowing
<1>13. MessagesInv(u) BY <1>4, <1>6, <1>7, <1>9 DEF Connected, MessagesInv, KeptHandler, HasBody
<1>14. HandlerInv(u) BY <1>4 DEF Connected, HandlerInv, KeptHandler
<1>15. TimersFit(u) BY <1>4, <1>9 DEF Connected, TimersFit, KeptHandler, KeptTimers
<1>16. OutputInv(u) BY <1>4, <1>6, <1>7, <1>9 DEF Connected, OutputInv, KeptHandler
<1>17. Connected(u, x)
  BY <1>4, <1>9, <1>10, <1>11, <1>12, <1>13, <1>14, <1>15, <1>16 DEF Connected, KeptHandler
<1>18. Attended(s) => Attended(u) BY <1>4, <1>9 DEF Attended, Failing, KeptHandler, KeptTimers
<1>19. /\ Connected(t, x) /\ (Attended(s) => Attended(t))
       /\ KeptHandler(u, t) /\ KeptData(u, t) /\ KeptOthers(u, t) /\ KeptTimers(u, t) /\ KeptStreams(u, t)
       /\ (\A f \in (Streams \cup Messages) \ {"data_error"} : InLoop(t, f) <=> InLoop(u, f))
       /\ (\A f : InLoop(u, f) => InLoop(t, f))
  <2>1. CASE short /\ n = 0 /\ s.rdclosed
    <3>1. t = nxe_publish(u, "data_error") BY <1>3, <2>1
    <3>2. /\ Connected(t, x) /\ Attended(t) /\ Kept(u, t) /\ KeptTimers(u, t) /\ KeptStreams(u, t)
          /\ \A f : InLoop(t, f) <=> InLoop(u, f) \/ f = "data_error"
      BY <1>17, <3>1, PublishError
    <3> QED BY <3>2 DEF Kept
  <2>2. CASE ~ (short /\ n = 0 /\ s.rdclosed)
    <3>1. t = u BY <1>3, <2>2
    <3> QED BY <1>17, <1>18, <3>1 DEF KeptHandler, KeptData, KeptOthers, KeptTimers, KeptStreams
  <2> QED BY <2>1, <2>2
<1>20. Len(t.wire) = Len(s.wire) - n BY <1>8, <1>19 DEF KeptData
<1>21. Len(s.wire) - Len(t.wire) = n /\ n \in 0 .. size BY <1>1, <1>2, <1>20
<1>22. KeptHandler(s, t) /\ KeptOthers(s, t) /\ KeptTimers(s, t)
  BY <1>4, <1>19 DEF KeptHandler, KeptOthers, KeptTimers
<1>23. /\ t.head = s.head /\ t.chunk = s.chunk /\ t.received = s.received
       /\ t.stored = s.stored /\ t.room = s.room /\ t.avail = s.avail
       /\ t.os = s.os /\ t.pair = s.pair
       /\ (\A y \in Streams \ {"in"} : t.is[y] = s.is[y]) /\ (t.is["in"] => s.is["in"])
  BY <1>4, <1>7, <1>19 DEF KeptData, KeptStreams
<1>24. /\ (\A f \in (Streams \cup Messages) \ {"data_error"} : InLoop(t, f) <=> InLoop(s, f))
       /\ (\A f : InLoop(s, f) => InLoop(t, f))
  BY <1>9, <1>19
<1> QED BY <1>1, <1>2, <1>19, <1>21, <1>22, <1>23, <1>24 DEF t

-----------------------------------------------------------------------------
(* The list: taking the oldest event, and the timers' messages.            *)

LEMMA Pop ==
  ASSUME NEW s, Connected(s, "none"), s.events # <<>>
  PROVE  LET h == Head(s.events)
             t == [s EXCEPT !.events = Tail(@)]
         IN  /\ h \in Messages => Connected(t, "none")
             /\ h \in Streams => Connected(t, h) /\ (Attended(s) => Attended(t))
             /\ Kept(s, t) /\ KeptTimers(s, t) /\ KeptStreams(s, t)
             /\ InLoop(s, h)
             /\ \A f : InLoop(t, f) => InLoop(s, f)
             /\ \A f : InLoop(s, f) => f = h \/ InLoop(t, f)
             /\ h = "received" => ~ InLoop(t, "received")
             /\ h = "body" => ~ InLoop(t, "received") /\ ~ InLoop(t, "body")
             /\ h = "complete" => /\ ~ InLoop(t, "received") /\ ~ InLoop(t, "body")
                                  /\ ~ InLoop(t, "complete")
<1> DEFINE h == Head(s.events)
           t == [s EXCEPT !.events = Tail(@)]
<1>1. DOMAIN s = Fields /\ Loop(s, Streams, Messages, Rank) BY ListIsLoop DEF Connected
<1>2. /\ Loop(t, Streams, Messages, Rank) /\ Frame(s, t) /\ t.is = s.is /\ t.os = s.os /\ t.pair = s.pair
      /\ InLoop(s, h)
      /\ \A f : InLoop(t, f) => InLoop(s, f)
      /\ \A f : InLoop(s, f) => f = h \/ InLoop(t, f)
      /\ h \in Streams => ~ InLoop(t, h)
      /\ h \in DOMAIN Rank => \A f \in DOMAIN Rank : InLoop(t, f) => Rank[h] < Rank[f]
  BY <1>1, PopIn
<1> HIDE DEF t, h
<1>3. Kept(s, t) /\ KeptTimers(s, t) /\ DOMAIN t = Fields BY <1>1, <1>2, KeptByFrame
<1>4. ListInv(t) BY <1>2, <1>3, ListIsLoop
<1>5. DataInv(t) BY <1>3 DEF Connected, DataInv, Kept, KeptHandler, KeptData, KeptTimers
<1>6. Streams \cap Messages = {} /\ "none" \notin Streams BY DEF Streams, Messages
<1>7. h \in Messages => Woken(t, "none") BY <1>2, <1>6 DEF Connected, Woken, Flowing
<1>8. h \in Streams => Woken(t, h) BY <1>2, <1>6 DEF Connected, Woken, Flowing
<1>9. MessagesInv(t) BY <1>2, <1>3 DEF Connected, MessagesInv, Kept, KeptHandler, HasBody
<1>10. HandlerInv(t) BY <1>2, <1>3 DEF Connected, HandlerInv, Kept, KeptHandler
<1>11. TimersFit(t) BY <1>2, <1>3 DEF Connected, TimersFit, KeptTimers, Kept, KeptHandler
<1>12. OutputInv(t) BY <1>2, <1>3 DEF Connected, OutputInv, Kept, KeptHandler
<1>13. /\ h \in Messages => Connected(t, "none")
       /\ h \in Streams => Connected(t, h)
  BY <1>2, <1>3, <1>4, <1>5, <1>6, <1>7, <1>8, <1>9, <1>10, <1>11, <1>12
     DEF Connected, Kept, KeptHandler
<1>14. h \in Streams => (Attended(s) => Attended(t))
  <2> SUFFICES ASSUME h \in Streams, Attended(s) PROVE Attended(t) OBVIOUS
  <2>1. \A f \in Messages : InLoop(s, f) => InLoop(t, f) BY <1>2, <1>6
  <2>2. {"received", "body", "complete", "error", "data_error"} \subseteq Messages BY DEF Messages
  <2> QED BY <1>3, <2>1, <2>2 DEF Attended, Failing, Kept, KeptHandler, KeptTimers
<1>15. /\ h = "received" => ~ InLoop(t, "received")
       /\ h = "body" => ~ InLoop(t, "received") /\ ~ InLoop(t, "body")
       /\ h = "complete" => /\ ~ InLoop(t, "received") /\ ~ InLoop(t, "body")
                            /\ ~ InLoop(t, "complete")
  BY <1>2, RankIs
<1> QED BY <1>2, <1>3, <1>13, <1>14, <1>15 DEF t, h, KeptStreams

LEMMA TimersExpire ==
  ASSUME NEW s, Connected(s, "none"), Attended(s)
  PROVE  LET t == nxe_process_timers(s, "error")
         IN  Connected(t, "none") /\ Attended(t)
<1> DEFINE t == nxe_process_timers(s, "error")
<1>1. DOMAIN s = Fields /\ Loop(s, Streams, Messages, Rank) BY ListIsLoop DEF Connected
<1>2. /\ Loop(t, Streams, Messages, Rank) /\ t.is = s.is /\ t.os = s.os /\ t.pair = s.pair
      /\ DOMAIN t = DOMAIN s /\ t.timers = s.timers \ s.expired /\ t.expired = {}
      /\ \A f \in DOMAIN s \ (LoopFields \cup {"timers", "expired"}) : t[f] = s[f]
      /\ \A f : InLoop(t, f) <=> InLoop(s, f) \/ (f = "error" /\ s.expired # {})
  <2>1. "error" \in Messages /\ "error" \notin DOMAIN Rank BY RankIs DEF Messages
  <2>2. IsFiniteSet(s.expired)
    <3>1. IsFiniteSet(Timers)
      <4>1. IsFiniteSet({}) BY FS_EmptySet
      <4>2. IsFiniteSet({} \cup {"keep_alive"}) BY <4>1, FS_AddElement
      <4>3. IsFiniteSet(({} \cup {"keep_alive"}) \cup {"read"}) BY <4>2, FS_AddElement
      <4>4. IsFiniteSet((({} \cup {"keep_alive"}) \cup {"read"}) \cup {"write"}) BY <4>3, FS_AddElement
      <4>5. Timers = (({} \cup {"keep_alive"}) \cup {"read"}) \cup {"write"} BY DEF Timers
      <4> QED BY <4>4, <4>5
    <3>2. s.expired \subseteq Timers BY DEF Connected, DataInv
    <3> QED BY <3>1, <3>2, FS_Subset
  <2>3. {"timers", "expired"} \subseteq DOMAIN s BY <1>1 DEF Fields
  <2> QED BY <1>1, <2>1, <2>2, <2>3, ProcessTimersIn
<1> HIDE DEF t
<1>3. Kept(s, t)
  <2>1. \A f \in Fields \ (LoopFields \cup {"timers", "expired"}) : t[f] = s[f] BY <1>1, <1>2
  <2>2. \A f \in {"state", "nxb", "req", "sink", "handler", "continue",
                 "in_worker", "closing", "freed", "wire", "room", "head", "chunk", "received",
                 "stored", "avail", "headers", "has_body", "eof", "keep_alive"} :
          f \in Fields \ (LoopFields \cup {"timers", "expired"})
    BY DEF Fields, LoopFields
  <2> QED BY <2>1, <2>2 DEF Kept, KeptHandler, KeptData, KeptOthers
<1>4. ListInv(t) BY <1>1, <1>2, ListIsLoop
<1>5. DataInv(t) BY <1>2, <1>3 DEF Connected, DataInv, Kept, KeptHandler, KeptData
<1>6. \A f \in Streams \cup {"received", "body", "complete"} : InLoop(t, f) <=> InLoop(s, f)
  BY <1>2 DEF Streams
<1>7. "out" \in Streams /\ "none" \notin Streams BY DEF Streams
<1>8. Woken(t, "none") BY <1>2, <1>6 DEF Connected, Woken, Flowing
<1>9. MessagesInv(t) BY <1>2, <1>3, <1>6, <1>7 DEF Connected, MessagesInv, Kept, KeptHandler, HasBody
<1>10. HandlerInv(t) BY <1>2, <1>3 DEF Connected, HandlerInv, Kept, KeptHandler
<1>11. TimersFit(t) BY <1>2, <1>3, <1>6 DEF Connected, TimersFit, Kept, KeptHandler
<1>12. OutputInv(t) BY <1>2, <1>3, <1>6, <1>7 DEF Connected, OutputInv, Kept, KeptHandler
<1>13. Connected(t, "none")
  BY <1>3, <1>4, <1>5, <1>7, <1>8, <1>9, <1>10, <1>11, <1>12 DEF Connected, Kept, KeptHandler
<1>14. Attended(t)
  <2>1. CASE s.expired = {}
    <3>1. t.timers = s.timers BY <1>2, <2>1
    <3> QED BY <1>2, <1>3, <3>1 DEF Attended, Failing, Kept, KeptHandler
  <2>2. CASE s.expired # {} BY <1>2, <2>2 DEF Attended, Failing
  <2> QED BY <2>1, <2>2
<1> QED BY <1>13, <1>14 DEF t

-----------------------------------------------------------------------------
(* The calls in the middle of a handler, where what fits together at its   *)
(* ends does not: the list and the data are sound, and this is what        *)
(* changes.                                                                *)
Sound(s) == ListInv(s) /\ DataInv(s)

LEMMA InputUnset ==
  ASSUME NEW s, Sound(s), NEW y \in Streams
  PROVE  LET t == nxe_istream_unset_ready(s, y)
         IN  /\ Sound(t) /\ Kept(s, t) /\ KeptTimers(s, t)
             /\ t.pair = s.pair /\ t.os = s.os
             /\ t.is = [s.is EXCEPT ![y] = FALSE]
             /\ \A f : InLoop(t, f) <=> InLoop(s, f)
<1> DEFINE t == nxe_istream_unset_ready(s, y)
<1>1. DOMAIN s = Fields /\ Loop(s, Streams, Messages, Rank) BY ListIsLoop DEF Sound
<1>2. /\ Loop(t, Streams, Messages, Rank) /\ Frame(s, t) /\ t.pair = s.pair /\ t.os = s.os
      /\ t.is = [s.is EXCEPT ![y] = FALSE]
      /\ \A f : InLoop(t, f) <=> InLoop(s, f)
  BY <1>1, UnsetInputIn
<1> HIDE DEF t
<1>3. Kept(s, t) /\ KeptTimers(s, t) /\ DOMAIN t = Fields BY <1>1, <1>2, KeptByFrame
<1>4. ListInv(t) BY <1>2, <1>3, ListIsLoop
<1>5. DataInv(t) BY <1>3 DEF Sound, DataInv, Kept, KeptHandler, KeptData, KeptTimers
<1> QED BY <1>2, <1>3, <1>4, <1>5 DEF t, Sound

LEMMA OutputUnset ==
  ASSUME NEW s, Sound(s), NEW y \in Streams
  PROVE  LET t == nxe_ostream_unset_ready(s, y)
         IN  /\ Sound(t) /\ Kept(s, t) /\ KeptTimers(s, t)
             /\ t.pair = s.pair /\ t.is = s.is
             /\ t.os = [s.os EXCEPT ![y] = FALSE]
             /\ \A f : InLoop(t, f) <=> InLoop(s, f)
<1> DEFINE t == nxe_ostream_unset_ready(s, y)
<1>1. DOMAIN s = Fields /\ Loop(s, Streams, Messages, Rank) BY ListIsLoop DEF Sound
<1>2. /\ Loop(t, Streams, Messages, Rank) /\ Frame(s, t) /\ t.pair = s.pair /\ t.is = s.is
      /\ t.os = [s.os EXCEPT ![y] = FALSE]
      /\ \A f : InLoop(t, f) <=> InLoop(s, f)
  BY <1>1, UnsetOutputIn
<1> HIDE DEF t
<1>3. Kept(s, t) /\ KeptTimers(s, t) /\ DOMAIN t = Fields BY <1>1, <1>2, KeptByFrame
<1>4. ListInv(t) BY <1>2, <1>3, ListIsLoop
<1>5. DataInv(t) BY <1>3 DEF Sound, DataInv, Kept, KeptHandler, KeptData, KeptTimers
<1> QED BY <1>2, <1>3, <1>4, <1>5 DEF t, Sound

LEMMA InputSet ==
  ASSUME NEW s, Sound(s), NEW y \in Streams
  PROVE  LET t == nxe_istream_set_ready(s, y)
         IN  /\ Sound(t) /\ Kept(s, t) /\ KeptTimers(s, t)
             /\ t.pair = s.pair /\ t.os = s.os
             /\ t.is = [s.is EXCEPT ![y] = TRUE]
             /\ \A f : InLoop(t, f) <=> InLoop(s, f) \/ (f = y /\ ~ s.is[y] /\ s.os[y] /\ y \in s.pair)
<1> DEFINE t == nxe_istream_set_ready(s, y)
<1>1. DOMAIN s = Fields /\ Loop(s, Streams, Messages, Rank) BY ListIsLoop DEF Sound
<1>2. /\ Loop(t, Streams, Messages, Rank) /\ Frame(s, t) /\ t.pair = s.pair /\ t.os = s.os
      /\ t.is = [s.is EXCEPT ![y] = TRUE]
      /\ \A f : InLoop(t, f) <=> InLoop(s, f) \/ (f = y /\ ~ s.is[y] /\ s.os[y] /\ y \in s.pair)
  BY <1>1, SetInputIn
<1> HIDE DEF t
<1>3. Kept(s, t) /\ KeptTimers(s, t) /\ DOMAIN t = Fields BY <1>1, <1>2, KeptByFrame
<1>4. ListInv(t) BY <1>2, <1>3, ListIsLoop
<1>5. DataInv(t) BY <1>3 DEF Sound, DataInv, Kept, KeptHandler, KeptData, KeptTimers
<1> QED BY <1>2, <1>3, <1>4, <1>5 DEF t, Sound

LEMMA OutputSet ==
  ASSUME NEW s, Sound(s), NEW y \in Streams
  PROVE  LET t == nxe_ostream_set_ready(s, y)
         IN  /\ Sound(t) /\ Kept(s, t) /\ KeptTimers(s, t)
             /\ t.pair = s.pair /\ t.is = s.is
             /\ t.os = [s.os EXCEPT ![y] = TRUE]
             /\ \A f : InLoop(t, f) <=> InLoop(s, f) \/ (f = y /\ s.is[y] /\ y \in s.pair)
<1> DEFINE t == nxe_ostream_set_ready(s, y)
<1>1. DOMAIN s = Fields /\ Loop(s, Streams, Messages, Rank) BY ListIsLoop DEF Sound
<1>2. /\ Loop(t, Streams, Messages, Rank) /\ Frame(s, t) /\ t.pair = s.pair /\ t.is = s.is
      /\ t.os = [s.os EXCEPT ![y] = TRUE]
      /\ \A f : InLoop(t, f) <=> InLoop(s, f) \/ (f = y /\ s.is[y] /\ y \in s.pair)
  BY <1>1, SetOutputIn
<1> HIDE DEF t
<1>3. Kept(s, t) /\ KeptTimers(s, t) /\ DOMAIN t = Fields BY <1>1, <1>2, KeptByFrame
<1>4. ListInv(t) BY <1>2, <1>3, ListIsLoop
<1>5. DataInv(t) BY <1>3 DEF Sound, DataInv, Kept, KeptHandler, KeptData, KeptTimers
<1> QED BY <1>2, <1>3, <1>4, <1>5 DEF t, Sound

LEMMA StreamsConnected ==
  ASSUME NEW s, Sound(s), NEW y \in Streams, y \notin s.pair
  PROVE  LET t == nxe_connect_streams(s, y)
         IN  /\ Sound(t) /\ Kept(s, t) /\ KeptTimers(s, t)
             /\ t.is = s.is /\ t.os = s.os
             /\ t.pair = s.pair \cup {y}
             /\ \A f : InLoop(t, f) <=> InLoop(s, f) \/ (f = y /\ s.is[y] /\ s.os[y])
<1> DEFINE t == nxe_connect_streams(s, y)
<1>1. DOMAIN s = Fields /\ Loop(s, Streams, Messages, Rank) BY ListIsLoop DEF Sound
<1>2. /\ Loop(t, Streams, Messages, Rank) /\ Frame(s, t) /\ t.is = s.is /\ t.os = s.os
      /\ t.pair = s.pair \cup {y}
      /\ \A f : InLoop(t, f) <=> InLoop(s, f) \/ (f = y /\ s.is[y] /\ s.os[y])
  BY <1>1, ConnectIn
<1> HIDE DEF t
<1>3. Kept(s, t) /\ KeptTimers(s, t) /\ DOMAIN t = Fields BY <1>1, <1>2, KeptByFrame
<1>4. ListInv(t) BY <1>2, <1>3, ListIsLoop
<1>5. DataInv(t) BY <1>3 DEF Sound, DataInv, Kept, KeptHandler, KeptData, KeptTimers
<1> QED BY <1>2, <1>3, <1>4, <1>5 DEF t, Sound

LEMMA StreamsDisconnected ==
  ASSUME NEW s, Sound(s), NEW y \in Streams
  PROVE  LET t == nxe_disconnect_streams(s, y)
         IN  /\ Sound(t) /\ Kept(s, t) /\ KeptTimers(s, t)
             /\ t.is = s.is /\ t.os = s.os
             /\ t.pair = s.pair \ {y}
             /\ \A f : InLoop(t, f) <=> InLoop(s, f) /\ f # y
<1> DEFINE t == nxe_disconnect_streams(s, y)
<1>1. DOMAIN s = Fields /\ Loop(s, Streams, Messages, Rank) BY ListIsLoop DEF Sound
<1>2. /\ Loop(t, Streams, Messages, Rank) /\ Frame(s, t) /\ t.is = s.is /\ t.os = s.os
      /\ t.pair = s.pair \ {y}
      /\ \A f : InLoop(t, f) <=> InLoop(s, f) /\ f # y
  BY <1>1, DisconnectIn
<1> HIDE DEF t
<1>3. Kept(s, t) /\ KeptTimers(s, t) /\ DOMAIN t = Fields BY <1>1, <1>2, KeptByFrame
<1>4. ListInv(t) BY <1>2, <1>3, ListIsLoop
<1>5. DataInv(t) BY <1>3 DEF Sound, DataInv, Kept, KeptHandler, KeptData, KeptTimers
<1> QED BY <1>2, <1>3, <1>4, <1>5 DEF t, Sound

LEMMA MessagePublished ==
  ASSUME NEW s, Sound(s), NEW m \in Messages,
         m \in DOMAIN Rank => \A f \in DOMAIN Rank : InLoop(s, f) => Rank[f] < Rank[m]
  PROVE  LET t == nxe_publish(s, m)
         IN  /\ Sound(t) /\ Kept(s, t) /\ KeptTimers(s, t) /\ KeptStreams(s, t)
             /\ \A f : InLoop(t, f) <=> InLoop(s, f) \/ f = m
<1> DEFINE t == nxe_publish(s, m)
<1>1. DOMAIN s = Fields /\ Loop(s, Streams, Messages, Rank) BY ListIsLoop DEF Sound
<1>2. /\ Loop(t, Streams, Messages, Rank) /\ Frame(s, t) /\ t.is = s.is /\ t.os = s.os
      /\ t.pair = s.pair /\ \A f : InLoop(t, f) <=> InLoop(s, f) \/ f = m
  BY <1>1, PublishIn
<1> HIDE DEF t
<1>3. Kept(s, t) /\ KeptTimers(s, t) /\ DOMAIN t = Fields BY <1>1, <1>2, KeptByFrame
<1>4. ListInv(t) BY <1>2, <1>3, ListIsLoop
<1>5. DataInv(t) BY <1>3 DEF Sound, DataInv, Kept, KeptHandler, KeptData, KeptTimers
<1> QED BY <1>2, <1>3, <1>4, <1>5 DEF t, Sound, KeptStreams

LEMMA TimerUnset ==
  ASSUME NEW s, Sound(s), NEW m \in Timers
  PROVE  LET t == nxe_unset_timer(s, m)
         IN  /\ Sound(t) /\ Kept(s, t) /\ KeptStreams(s, t) /\ KeptList(s, t)
             /\ t.timers = s.timers \ {m}
<1> DEFINE t == nxe_unset_timer(s, m)
<1>1. DOMAIN s = Fields BY DEF Sound, ListInv
<1>2. /\ DOMAIN t = Fields /\ Kept(s, t) /\ KeptStreams(s, t)
      /\ t.timers = s.timers \ {m} /\ t.expired = s.expired \ {m}
      /\ t.events = s.events /\ t.tripped = s.tripped
  BY <1>1 DEF nxe_unset_timer, Fields, Kept, KeptHandler, KeptData, KeptOthers, KeptStreams
<1> HIDE DEF t
<1>3. \A f : InLoop(t, f) <=> InLoop(s, f) BY <1>2 DEF InLoop
<1>4. ListInv(t) BY <1>2 DEF Sound, ListInv, KeptStreams
<1>5. DataInv(t) BY <1>2 DEF Sound, DataInv, Kept, KeptHandler, KeptData
<1> QED BY <1>2, <1>3, <1>4, <1>5 DEF t, KeptList, Sound

LEMMA TimerSet ==
  ASSUME NEW s, Sound(s), NEW m \in Timers, m \notin s.timers
  PROVE  LET t == nxe_set_timer(s, m)
         IN  /\ Sound(t) /\ Kept(s, t) /\ KeptStreams(s, t) /\ KeptList(s, t)
             /\ t.timers = s.timers \cup {m}
<1> DEFINE t == nxe_set_timer(s, m)
<1>1. DOMAIN s = Fields BY DEF Sound, ListInv
<1>2. /\ DOMAIN t = Fields /\ Kept(s, t) /\ KeptStreams(s, t)
      /\ t.timers = s.timers \cup {m} /\ t.expired = s.expired
      /\ t.events = s.events /\ t.tripped = s.tripped
  BY <1>1 DEF nxe_set_timer, Fields, Kept, KeptHandler, KeptData, KeptOthers, KeptStreams,
              Sound, ListInv
<1> HIDE DEF t
<1>3. \A f : InLoop(t, f) <=> InLoop(s, f) BY <1>2 DEF InLoop
<1>4. ListInv(t) BY <1>2 DEF Sound, ListInv, KeptStreams
<1>5. DataInv(t) BY <1>2 DEF Sound, DataInv, Kept, KeptHandler, KeptData
<1> QED BY <1>2, <1>3, <1>4, <1>5 DEF t, KeptList, Sound

-----------------------------------------------------------------------------
(* Sending the response.                                                   *)

(* A change of data, of timers, of flags: the list stays as it is.         *)
LEMMA ListStays ==
  ASSUME NEW s, NEW t, ListInv(s), DOMAIN t = Fields, t.events = s.events, t.tripped = FALSE,
         t.pair = s.pair, t.is \in [Streams -> BOOLEAN], t.os \in [Streams -> BOOLEAN]
  PROVE  ListInv(t) /\ KeptList(s, t)
BY DEF ListInv, KeptList, InLoop

LEMMA RequestComplete ==
  ASSUME NEW s, Sound(s), ~ InLoop(s, "complete")
  PROVE  LET t == request_complete(s)
         IN  /\ Sound(t) /\ KeptHandler(s, t) /\ KeptData(s, t) /\ KeptOthers(s, t)
             /\ t.is = [s.is EXCEPT !["out"] = FALSE] /\ t.os = s.os /\ t.pair = s.pair \ {"cb", "rb"}
             /\ t.timers = s.timers \ {"write"}
             /\ \A f : InLoop(t, f) <=> (InLoop(s, f) /\ f \notin {"cb", "rb"}) \/ f = "complete"
<1>1. "out" \in Streams /\ "cb" \in Streams /\ "rb" \in Streams /\ "write" \in Timers
  BY DEF Streams, Timers
<1> DEFINE a == nxe_istream_unset_ready(s, "out")
           b == nxe_unset_timer(a, "write")
           d == nxe_disconnect_streams(b, "cb")
           e == nxe_disconnect_streams(d, "rb")
           g == [e EXCEPT !.answered = @ + 1]
           t == nxe_publish(g, "complete")
<1>2. request_complete(s) = t BY DEF request_complete
<1>3. /\ Sound(a) /\ Kept(s, a) /\ KeptTimers(s, a) /\ a.pair = s.pair /\ a.os = s.os
      /\ a.is = [s.is EXCEPT !["out"] = FALSE] /\ \A f : InLoop(a, f) <=> InLoop(s, f)
  BY <1>1, InputUnset
<1> HIDE DEF a
<1>4. /\ Sound(b) /\ Kept(a, b) /\ KeptStreams(a, b) /\ KeptList(a, b)
      /\ b.timers = a.timers \ {"write"}
  BY <1>1, <1>3, TimerUnset
<1> HIDE DEF b
<1>5. /\ Sound(d) /\ Kept(b, d) /\ KeptTimers(b, d) /\ d.is = b.is /\ d.os = b.os
      /\ d.pair = b.pair \ {"cb"} /\ \A f : InLoop(d, f) <=> InLoop(b, f) /\ f # "cb"
  BY <1>1, <1>4, StreamsDisconnected
<1> HIDE DEF d
<1>6. /\ Sound(e) /\ Kept(d, e) /\ KeptTimers(d, e) /\ e.is = d.is /\ e.os = d.os
      /\ e.pair = d.pair \ {"rb"} /\ \A f : InLoop(e, f) <=> InLoop(d, f) /\ f # "rb"
  BY <1>1, <1>5, StreamsDisconnected
<1> HIDE DEF e
<1>7. DOMAIN e = Fields /\ e.tripped = FALSE /\ e.is \in [Streams -> BOOLEAN] /\ e.os \in [Streams -> BOOLEAN]
  BY <1>6 DEF Sound, ListInv
<1>8. /\ DOMAIN g = Fields /\ g.events = e.events /\ g.tripped = FALSE
      /\ Kept(e, g) /\ KeptTimers(e, g) /\ KeptStreams(e, g)
  BY <1>7 DEF Fields, Kept, KeptHandler, KeptData, KeptOthers, KeptTimers, KeptStreams
<1> HIDE DEF g
<1>9. Sound(g) /\ KeptList(e, g)
  <2>1. g.pair = e.pair /\ g.is \in [Streams -> BOOLEAN] /\ g.os \in [Streams -> BOOLEAN]
    BY <1>7, <1>8 DEF KeptStreams
  <2>2. ListInv(g) /\ KeptList(e, g) BY <1>6, <1>8, <2>1, ListStays DEF Sound
  <2>3. DataInv(g) BY <1>6, <1>8 DEF Sound, DataInv, Kept, KeptHandler, KeptData, KeptTimers
  <2> QED BY <2>2, <2>3 DEF Sound
<1>10. \A f : InLoop(g, f) <=> InLoop(s, f) /\ f \notin {"cb", "rb"}
  BY <1>3, <1>4, <1>5, <1>6, <1>9 DEF KeptList
<1>11. /\ Sound(t) /\ Kept(g, t) /\ KeptTimers(g, t) /\ KeptStreams(g, t)
       /\ \A f : InLoop(t, f) <=> InLoop(g, f) \/ f = "complete"
  <2>1. "complete" \in Messages BY DEF Messages
  <2>2. ~ InLoop(g, "complete") BY <1>10
  <2>3. \A f \in DOMAIN Rank : InLoop(g, f) => Rank[f] < Rank["complete"] BY <2>2, RankIs
  <2> QED BY <1>9, <2>1, <2>3, MessagePublished
<1> HIDE DEF t
<1>12. KeptHandler(s, t) /\ KeptData(s, t) /\ KeptOthers(s, t)
  BY <1>3, <1>4, <1>5, <1>6, <1>8, <1>11 DEF Kept, KeptHandler, KeptData, KeptOthers
<1>13. t.timers = s.timers \ {"write"}
  BY <1>3, <1>4, <1>5, <1>6, <1>8, <1>11 DEF KeptTimers
<1>14. /\ t.is = [s.is EXCEPT !["out"] = FALSE] /\ t.os = s.os
       /\ t.pair = s.pair \ {"cb", "rb"}
  BY <1>3, <1>4, <1>5, <1>6, <1>8, <1>11 DEF KeptStreams
<1>15. \A f : InLoop(t, f) <=> (InLoop(s, f) /\ f \notin {"cb", "rb"}) \/ f = "complete"
  BY <1>10, <1>11
<1> QED BY <1>2, <1>11, <1>12, <1>13, <1>14, <1>15

(* Connected, but for the order of the output's two ends.                  *)
Nearly(s, x) ==
  /\ ListInv(s) /\ DataInv(s) /\ MessagesInv(s) /\ HandlerInv(s)
  /\ TimersFit(s) /\ Woken(s, x)
  /\ x \in Streams => ~ InLoop(s, x)
  /\ s.freed = FALSE

LEMMA ConnectedIsNearly ==
  ASSUME NEW s, NEW x PROVE Connected(s, x) <=> Nearly(s, x) /\ OutputInv(s)
BY DEF Connected, Nearly

(* The response is finished: what is left waits for request_cleanup.       *)
LEMMA Finished ==
  ASSUME NEW s, NEW x, Nearly(s, x), s.state \in Sending, ~ InLoop(s, "complete"),
         ~ InLoop(s, "out"),
         NEW t, Sound(t), KeptHandler(s, t), ~ t.is["out"],
         t.is["in"] = s.is["in"], t.os["in"] = s.os["in"], t.pair = s.pair \ {"cb", "rb"},
         t.timers = s.timers \ {"write"},
         \A f : InLoop(t, f) <=> (InLoop(s, f) /\ f \notin {"cb", "rb"}) \/ f = "complete"
  PROVE  Connected(t, x) /\ Attended(t)
<1>1. \A f \in {"in", "out", "received", "body"} : InLoop(t, f) <=> InLoop(s, f) OBVIOUS
<1>2. InLoop(t, "complete") OBVIOUS
<1>3. Streams = {"in", "out", "cb", "rb"} BY DEF Streams
<1>4. Woken(t, x) BY <1>1, <1>3 DEF Nearly, Woken, Flowing
<1>5. MessagesInv(t) BY <1>1 DEF Nearly, MessagesInv, KeptHandler, HasBody
<1>6. HandlerInv(t) BY DEF Nearly, HandlerInv, KeptHandler
<1>7. TimersFit(t) BY DEF Nearly, TimersFit, KeptHandler
<1>8. OutputInv(t) BY DEF Nearly, OutputInv, KeptHandler
<1>9. x \in Streams => ~ InLoop(t, x) BY <1>3 DEF Nearly
<1>10. Connected(t, x)
  BY <1>4, <1>5, <1>6, <1>7, <1>8, <1>9 DEF Connected, Nearly, KeptHandler, Sound
<1>11. Attended(t) BY <1>2 DEF Attended, KeptHandler
<1> QED BY <1>10, <1>11

(* What a write of content leaves: it was blocked by the socket, it has    *)
(* drained the source, or it has finished the response.                    *)
Blocked(s, t) ==
  /\ ~ t.os["cb"] /\ ~ t.os["out"] /\ t.is["out"] /\ t.pair = s.pair
  /\ t.timers = s.timers \cup {"write"} /\ KeptList(s, t)
Drained(s, t) ==
  /\ ~ t.is["cb"] /\ t.os["cb"] = s.os["cb"] /\ t.is["out"] = s.is["out"]
  /\ (t.os["out"] => s.os["out"]) /\ t.pair = s.pair
  /\ t.timers = s.timers \cup {"write"} /\ KeptList(s, t)
Ended(s, t) ==
  /\ ~ t.is["out"] /\ t.is["cb"] = s.is["cb"] /\ t.pair = s.pair \ {"cb", "rb"}
  /\ t.timers = s.timers \ {"write"}
  /\ \A f : InLoop(t, f) <=> (InLoop(s, f) /\ f \notin {"cb", "rb"}) \/ f = "complete"

LEMMA WriteLeavesSound ==
  ASSUME NEW s, Sound(s), NEW n \in Nat
  PROVE  LET t == sock_data_send_write(s, n)
         IN  /\ Sound(t) /\ KeptHandler(s, t) /\ KeptTimers(s, t) /\ KeptList(s, t)
             /\ t.avail = s.avail /\ t.eof = s.eof /\ t.is = s.is /\ t.pair = s.pair
             /\ t.os = [s.os EXCEPT !["out"] = s.os["out"] /\ Sent(s, n) = n]
             /\ Sent(s, n) \in Nat /\ Sent(s, n) <= n /\ (~ s.os["out"] => Sent(s, n) = 0)
<1> DEFINE t == sock_data_send_write(s, n)
           m == Sent(s, n)
           flag == s.os["out"] /\ m = n
<1>1. DOMAIN s = Fields /\ s.room \in Nat /\ s.os \in [Streams -> BOOLEAN] BY DEF Sound, ListInv, DataInv
<1>2. m \in Nat /\ m <= n /\ m <= s.room /\ (~ s.os["out"] => m = 0) BY <1>1 DEF Sent, Minimum
<1> HIDE DEF m
<1>3. /\ DOMAIN t = Fields /\ KeptHandler(s, t) /\ KeptOthers(s, t) /\ KeptTimers(s, t)
      /\ t.events = s.events /\ t.tripped = s.tripped /\ t.is = s.is /\ t.pair = s.pair
      /\ t.wire = s.wire /\ t.head = s.head /\ t.chunk = s.chunk
      /\ t.received = s.received /\ t.stored = s.stored /\ t.avail = s.avail
      /\ t.room = s.room - m
      /\ t.os = [s.os EXCEPT !["out"] = flag]
  BY <1>1 DEF sock_data_send_write, Fields, KeptHandler, KeptOthers, KeptTimers, m
<1> HIDE DEF t
<1>4. flag \in BOOLEAN OBVIOUS
<1>5. t.os \in [Streams -> BOOLEAN] BY <1>1, <1>3, <1>4
<1>6. ListInv(t) /\ KeptList(s, t)
  <2>1. t.tripped = FALSE /\ t.is \in [Streams -> BOOLEAN] BY <1>3 DEF Sound, ListInv
  <2> QED BY <1>3, <1>5, <2>1, ListStays DEF Sound
<1>7. DataInv(t) BY <1>1, <1>2, <1>3 DEF Sound, DataInv, KeptHandler, KeptTimers
<1> QED BY <1>2, <1>3, <1>6, <1>7 DEF t, m, flag, Sound, KeptOthers

(* The source accounts for n pieces; its ready flag stays if more.         *)
Account(s, n, more) == [s EXCEPT !.avail = @ - n, !.is["cb"] = @ /\ more]
LEMMA Accounted ==
  ASSUME NEW s, Sound(s), NEW n \in Nat, n <= s.avail, NEW more \in BOOLEAN
  PROVE  LET t == Account(s, n, more)
         IN  /\ Sound(t) /\ KeptHandler(s, t) /\ KeptTimers(s, t) /\ KeptList(s, t)
             /\ t.os = s.os /\ t.pair = s.pair
             /\ (t.is["cb"] <=> s.is["cb"] /\ more) /\ \A y \in Streams \ {"cb"} : t.is[y] = s.is[y]
<1> DEFINE flag == s.is["cb"] /\ more
           t == Account(s, n, more)
<1>1. /\ DOMAIN s = Fields /\ s.is \in [Streams -> BOOLEAN] /\ s.os \in [Streams -> BOOLEAN]
      /\ s.avail \in Nat /\ s.tripped = FALSE /\ "cb" \in Streams
  BY DEF Sound, ListInv, DataInv, Streams
<1>2. /\ DOMAIN t = Fields /\ t.events = s.events /\ t.tripped = FALSE /\ KeptHandler(s, t)
      /\ KeptTimers(s, t) /\ t.pair = s.pair /\ t.os = s.os /\ t.is = [s.is EXCEPT !["cb"] = flag]
      /\ t.avail = s.avail - n /\ t.room = s.room /\ t.wire = s.wire /\ t.head = s.head
      /\ t.chunk = s.chunk /\ t.received = s.received /\ t.stored = s.stored
  BY <1>1 DEF Account, Fields, KeptHandler, KeptTimers
<1>3. flag \in BOOLEAN OBVIOUS
<1> HIDE DEF t, flag
<1>4. /\ t.is \in [Streams -> BOOLEAN] /\ t.is["cb"] = flag
      /\ \A y \in Streams \ {"cb"} : t.is[y] = s.is[y]
  BY <1>1, <1>2, <1>3
<1>5. ListInv(t) /\ KeptList(s, t) BY <1>1, <1>2, <1>4, ListStays DEF Sound
<1>6. t.avail \in Nat BY <1>1, <1>2
<1>7. DataInv(t) BY <1>2, <1>6 DEF Sound, DataInv, KeptHandler, KeptTimers
<1> QED BY <1>2, <1>4, <1>5, <1>7 DEF t, flag, Sound

LEMMA ContentWritten ==
  ASSUME NEW s, Sound(s), s.state = "SENDING_BODY", ~ InLoop(s, "complete")
  PROVE  LET t == resp_body_in_write(s)
         IN  /\ Sound(t) /\ KeptHandler(s, t)
             /\ \A y \in {"in", "rb"} : t.is[y] = s.is[y] /\ t.os[y] = s.os[y]
             /\ Blocked(s, t) \/ Drained(s, t) \/ Ended(s, t)
<1> DEFINE n == Sent(s, s.avail)
           a == nxe_unset_timer(s, "write")
           b == sock_data_send_write(a, s.avail)
           d == nxe_ostream_unset_ready(b, "cb")
           w == nxe_istream_set_ready(d, "out")
           u == IF s.avail > 0 /\ ~ b.os["out"] THEN w ELSE b
           v == IF s.eof /\ n = s.avail THEN request_complete(u) ELSE nxe_set_timer(u, "write")
           more == s.avail > n \/ s.eof
           t == Account(v, n, more)
<1>1. resp_body_in_write(s) = t BY DEF resp_body_in_write, Account
<1>2. /\ s.is \in [Streams -> BOOLEAN] /\ s.os \in [Streams -> BOOLEAN] /\ s.avail \in Nat
      /\ "out" \in Streams /\ "cb" \in Streams /\ "in" \in Streams /\ "rb" \in Streams
      /\ "write" \in Timers
  BY DEF Sound, ListInv, DataInv, Streams, Timers
<1>3. Sound(a) /\ Kept(s, a) /\ KeptStreams(s, a) /\ KeptList(s, a) /\ a.timers = s.timers \ {"write"}
  BY <1>2, TimerUnset
<1> HIDE DEF a
<1>4. Sent(a, s.avail) = n BY <1>3 DEF Sent, Kept, KeptData, KeptStreams
<1> HIDE DEF n
<1>5. /\ Sound(b) /\ KeptHandler(a, b) /\ KeptTimers(a, b) /\ KeptList(a, b)
      /\ b.avail = a.avail /\ b.is = a.is /\ b.pair = a.pair
      /\ b.os = [a.os EXCEPT !["out"] = a.os["out"] /\ n = s.avail]
      /\ n \in Nat /\ n <= s.avail /\ (~ a.os["out"] => n = 0)
  BY <1>2, <1>3, <1>4, WriteLeavesSound
<1> HIDE DEF b
<1>6. /\ KeptHandler(s, b) /\ KeptList(s, b) /\ b.avail = s.avail /\ b.is = s.is /\ b.pair = s.pair
      /\ b.timers = s.timers \ {"write"} /\ "write" \notin b.timers
      /\ (b.os["out"] <=> s.os["out"] /\ n = s.avail)
      /\ \A y \in Streams \ {"out"} : b.os[y] = s.os[y]
  BY <1>2, <1>3, <1>5 DEF Kept, KeptHandler, KeptData, KeptTimers, KeptStreams, KeptList
<1>7. CASE s.avail > 0 /\ ~ b.os["out"]
  <2>1. ~ (s.eof /\ n = s.avail) BY <1>2, <1>3, <1>5, <1>6, <1>7 DEF KeptStreams
  <2>2. /\ Sound(d) /\ Kept(b, d) /\ KeptTimers(b, d) /\ d.pair = b.pair /\ d.is = b.is
        /\ d.os = [b.os EXCEPT !["cb"] = FALSE] /\ \A f : InLoop(d, f) <=> InLoop(b, f)
    BY <1>2, <1>5, OutputUnset
  <2>3. u = w BY <1>7
  <2> HIDE DEF d
  <2>4. /\ Sound(w) /\ Kept(d, w) /\ KeptTimers(d, w) /\ w.pair = d.pair /\ w.os = d.os
        /\ w.is = [d.is EXCEPT !["out"] = TRUE]
        /\ \A f : InLoop(w, f) <=> InLoop(d, f) \/ (f = "out" /\ ~ d.is["out"] /\ d.os["out"] /\ "out" \in d.pair)
    BY <1>2, <2>2, InputSet
  <2>5. v = nxe_set_timer(w, "write") BY <2>1, <2>3
  <2> HIDE DEF w, u
  <2>6. "write" \notin w.timers BY <1>6, <2>2, <2>4 DEF KeptTimers
  <2>7. Sound(v) /\ Kept(w, v) /\ KeptStreams(w, v) /\ KeptList(w, v) /\ v.timers = w.timers \cup {"write"}
    BY <1>2, <2>4, <2>5, <2>6, TimerSet
  <2> HIDE DEF v
  <2>8. v.avail = s.avail BY <1>6, <2>2, <2>4, <2>7 DEF Kept, KeptData
  <2>9. /\ Sound(t) /\ KeptHandler(v, t) /\ KeptTimers(v, t) /\ KeptList(v, t)
        /\ t.os = v.os /\ t.pair = v.pair
        /\ \A y \in Streams \ {"cb"} : t.is[y] = v.is[y]
    <3>1. n \in Nat /\ n <= v.avail BY <1>5, <2>8
    <3>2. more \in BOOLEAN OBVIOUS
    <3> HIDE DEF more
    <3> QED BY <2>7, <3>1, <3>2, Accounted
  <2> HIDE DEF t
  <2>10. KeptHandler(s, t) BY <1>6, <2>2, <2>4, <2>7, <2>9 DEF Kept, KeptHandler
  <2>11. b.os \in [Streams -> BOOLEAN] /\ b.is \in [Streams -> BOOLEAN] BY <1>5 DEF Sound, ListInv
  <2>12. /\ d.is = s.is /\ ~ d.os["cb"] /\ ~ d.os["out"] /\ (\A y \in {"in", "rb"} : d.os[y] = s.os[y])
    BY <1>2, <1>6, <1>7, <2>2, <2>11
  <2>13. w.is["out"] /\ \A y \in {"in", "rb"} : w.is[y] = s.is[y] BY <1>2, <2>4, <2>12
  <2>14. \A y \in {"in", "rb"} : t.is[y] = s.is[y] /\ t.os[y] = s.os[y]
    <3>1. t.os = d.os BY <2>4, <2>7, <2>9 DEF KeptStreams
    <3>2. \A y \in {"in", "rb"} : t.is[y] = w.is[y] BY <1>2, <2>7, <2>9 DEF KeptStreams
    <3> QED BY <2>12, <2>13, <3>1, <3>2
  <2>15. ~ t.os["cb"] /\ ~ t.os["out"] /\ t.is["out"] /\ t.pair = s.pair
    <3>1. t.os = d.os /\ t.pair = s.pair BY <1>6, <2>2, <2>4, <2>7, <2>9 DEF KeptStreams
    <3>2. t.is["out"] = w.is["out"] BY <1>2, <2>7, <2>9 DEF KeptStreams
    <3> QED BY <2>12, <2>13, <3>1, <3>2
  <2>16. t.timers = s.timers \cup {"write"} BY <1>6, <2>2, <2>4, <2>7, <2>9 DEF KeptTimers
  <2>17. KeptList(s, t) BY <1>6, <2>2, <2>4, <2>7, <2>9, <2>12 DEF KeptList
  <2>18. Blocked(s, t) BY <2>15, <2>16, <2>17 DEF Blocked
  <2> QED BY <1>1, <2>9, <2>10, <2>14, <2>18
<1>8. CASE ~ (s.avail > 0 /\ ~ b.os["out"])
  <2>1. u = b BY <1>8
  <2>2. n = s.avail BY <1>2, <1>5, <1>6, <1>8
  <2> HIDE DEF u
  <2>3. CASE s.eof
    <3>1. v = request_complete(b) BY <2>1, <2>2, <2>3
    <3>2. ~ InLoop(b, "complete") BY <1>6 DEF KeptList
    <3>3. /\ Sound(v) /\ KeptHandler(b, v) /\ KeptData(b, v)
          /\ v.is = [b.is EXCEPT !["out"] = FALSE] /\ v.os = b.os /\ v.pair = b.pair \ {"cb", "rb"}
          /\ v.timers = b.timers \ {"write"}
          /\ \A f : InLoop(v, f) <=> (InLoop(b, f) /\ f \notin {"cb", "rb"}) \/ f = "complete"
      BY <1>5, <3>1, <3>2, RequestComplete
    <3> HIDE DEF v
    <3>4. /\ Sound(t) /\ KeptHandler(v, t) /\ KeptTimers(v, t) /\ KeptList(v, t)
          /\ t.os = v.os /\ t.pair = v.pair
          /\ (t.is["cb"] <=> v.is["cb"] /\ more)
          /\ \A y \in Streams \ {"cb"} : t.is[y] = v.is[y]
      <4>1. n \in Nat /\ n <= v.avail BY <1>5, <1>6, <3>3 DEF KeptData
      <4>2. more \in BOOLEAN OBVIOUS
      <4> HIDE DEF more
      <4>3. Sound(v) BY <3>3
      <4> QED BY <4>1, <4>2, <4>3, Accounted
    <3> HIDE DEF t
    <3>5. t.is \in [Streams -> BOOLEAN] BY <3>4 DEF Sound, ListInv
    <3>6. KeptHandler(s, t) BY <1>6, <3>3, <3>4 DEF KeptHandler
    <3>12. ~ v.is["out"] /\ \A y \in {"in", "rb", "cb"} : v.is[y] = s.is[y] BY <1>2, <1>6, <3>3
    <3>7. \A y \in {"in", "rb"} : t.is[y] = s.is[y] /\ t.os[y] = s.os[y]
      <4>1. \A y \in {"in", "rb"} : t.is[y] = s.is[y] BY <1>2, <3>4, <3>12
      <4>2. \A y \in {"in", "rb"} : t.os[y] = s.os[y] BY <1>2, <1>6, <3>3, <3>4
      <4> QED BY <4>1, <4>2
    <3>8. ~ t.is["out"] /\ t.is["cb"] = s.is["cb"] BY <1>2, <2>3, <3>4, <3>5, <3>12
    <3>9. t.timers = s.timers \ {"write"} /\ t.pair = s.pair \ {"cb", "rb"}
      BY <1>6, <3>3, <3>4 DEF KeptTimers
    <3>10. \A f : InLoop(t, f) <=> (InLoop(s, f) /\ f \notin {"cb", "rb"}) \/ f = "complete"
      BY <1>6, <3>3, <3>4 DEF KeptList
    <3>11. Ended(s, t) BY <3>8, <3>9, <3>10 DEF Ended
    <3> QED BY <1>1, <3>4, <3>6, <3>7, <3>11
  <2>4. CASE ~ s.eof
    <3>1. v = nxe_set_timer(b, "write") BY <2>1, <2>4
    <3>2. Sound(v) /\ Kept(b, v) /\ KeptStreams(b, v) /\ KeptList(b, v) /\ v.timers = b.timers \cup {"write"}
      BY <1>2, <1>5, <1>6, <3>1, TimerSet
    <3> HIDE DEF v
    <3>3. /\ Sound(t) /\ KeptHandler(v, t) /\ KeptTimers(v, t) /\ KeptList(v, t)
          /\ t.os = v.os /\ t.pair = v.pair
          /\ (t.is["cb"] <=> v.is["cb"] /\ more)
          /\ \A y \in Streams \ {"cb"} : t.is[y] = v.is[y]
      <4>1. n \in Nat /\ n <= v.avail BY <1>5, <1>6, <3>2 DEF Kept, KeptData
      <4>2. more \in BOOLEAN OBVIOUS
      <4> HIDE DEF more
      <4> QED BY <3>2, <4>1, <4>2, Accounted
    <3> HIDE DEF t
    <3>4. KeptHandler(s, t) BY <1>6, <3>2, <3>3 DEF Kept, KeptHandler
    <3>5. t.pair = s.pair /\ t.timers = s.timers \cup {"write"} /\ KeptList(s, t)
      BY <1>6, <3>2, <3>3 DEF KeptStreams, KeptTimers, KeptList
    <3>6. \A y \in {"in", "rb"} : t.is[y] = s.is[y] /\ t.os[y] = s.os[y]
      BY <1>2, <1>6, <3>2, <3>3 DEF KeptStreams
    <3>7. ~ t.is["cb"] BY <1>2, <2>2, <2>4, <3>3
    <3>8. t.os["cb"] = s.os["cb"] /\ t.is["out"] = s.is["out"] /\ (t.os["out"] => s.os["out"])
      BY <1>2, <1>6, <3>2, <3>3 DEF KeptStreams
    <3>9. Drained(s, t) BY <3>5, <3>7, <3>8 DEF Drained
    <3> QED BY <1>1, <3>3, <3>4, <3>6, <3>9
  <2> QED BY <2>3, <2>4
<1> QED BY <1>7, <1>8

LEMMA AttendedStays ==
  ASSUME NEW s, NEW t, Attended(s), KeptHandler(s, t), s.timers \subseteq t.timers,
         \A f \in Messages : InLoop(s, f) => InLoop(t, f)
  PROVE  Attended(t)
<1>1. {"error", "data_error", "received", "body", "complete"} \subseteq Messages BY DEF Messages
<1> QED BY <1>1 DEF Attended, Failing, KeptHandler

(* After the write: the output waits for the socket; or it has nothing to  *)
(* send.                                                                   *)
LEMMA BlockedKeeps ==
  ASSUME NEW s, NEW x, Nearly(s, x), s.state = "SENDING_BODY", ~ InLoop(s, "complete"),
         NEW t, Sound(t), KeptHandler(s, t), Blocked(s, t),
         \A y \in {"in", "rb"} : t.is[y] = s.is[y] /\ t.os[y] = s.os[y]
  PROVE  Connected(t, x) /\ Attended(t)
<1>1. \A f : InLoop(t, f) <=> InLoop(s, f) BY DEF Blocked, KeptList
<1>2. Streams = {"in", "out", "cb", "rb"} BY DEF Streams
<1>3. Woken(t, x) BY <1>1, <1>2 DEF Nearly, Woken, Flowing, Blocked
<1>4. MessagesInv(t) BY <1>1 DEF Nearly, MessagesInv, KeptHandler, HasBody, Blocked
<1>5. HandlerInv(t) BY DEF Nearly, HandlerInv, KeptHandler, Blocked
<1>6. TimersFit(t) BY <1>1 DEF Nearly, TimersFit, KeptHandler, Blocked, Sending
<1>7. OutputInv(t) BY DEF OutputInv, KeptHandler, Blocked, Sending
<1>8. Connected(t, x) BY <1>1, <1>3, <1>4, <1>5, <1>6, <1>7 DEF Connected, Nearly, KeptHandler, Sound
<1>9. Attended(t) BY DEF Attended, KeptHandler, Blocked, Sending
<1> QED BY <1>8, <1>9

LEMMA EndedKeeps ==
  ASSUME NEW s, NEW x, Nearly(s, x), s.state \in Sending, ~ InLoop(s, "complete"), ~ InLoop(s, "out"),
         NEW t, Sound(t), KeptHandler(s, t), Ended(s, t), t.is["in"] = s.is["in"], t.os["in"] = s.os["in"]
  PROVE  Connected(t, x) /\ Attended(t)
BY Finished DEF Ended

(* The source has nothing left, and the output nothing to send.            *)
LEMMA DrainedKeeps ==
  ASSUME NEW s, NEW x, Nearly(s, x), s.state = "SENDING_BODY", ~ InLoop(s, "complete"),
         ~ InLoop(s, "out"),
         NEW t, Sound(t), KeptHandler(s, t), ~ t.is["cb"], ~ t.is["out"], t.pair = s.pair,
         t.timers = s.timers \cup {"write"}, KeptList(s, t),
         \A y \in {"in", "rb"} : t.is[y] = s.is[y] /\ t.os[y] = s.os[y]
  PROVE  Connected(t, x) /\ Attended(t)
<1>1. \A f : InLoop(t, f) <=> InLoop(s, f) BY DEF KeptList
<1>2. Streams = {"in", "out", "cb", "rb"} BY DEF Streams
<1>3. Woken(t, x) BY <1>1, <1>2 DEF Nearly, Woken, Flowing
<1>4. MessagesInv(t) BY <1>1 DEF Nearly, MessagesInv, KeptHandler, HasBody
<1>5. HandlerInv(t) BY DEF Nearly, HandlerInv, KeptHandler
<1>6. TimersFit(t) BY <1>1 DEF Nearly, TimersFit, KeptHandler, Sending
<1>7. OutputInv(t) BY <1>1 DEF OutputInv, KeptHandler, Sending
<1>8. Connected(t, x) BY <1>1, <1>3, <1>4, <1>5, <1>6, <1>7 DEF Connected, Nearly, KeptHandler, Sound
<1>9. Attended(t) BY DEF Attended, KeptHandler, Sending
<1> QED BY <1>8, <1>9

(* A round of the content's stream.                                        *)
LEMMA ContentRound ==
  ASSUME NEW s, Connected(s, "cb"), Attended(s), Flowing(s, "cb")
  PROVE  Connected(resp_body_in_write(s), "cb") /\ Attended(resp_body_in_write(s))
<1> DEFINE t == resp_body_in_write(s)
<1>1. s.is["cb"] /\ s.os["cb"] /\ "cb" \in s.pair BY DEF Flowing
<1>2. s.state \in Sending /\ ~ InLoop(s, "complete") BY <1>1 DEF Connected, HandlerInv, MessagesInv
<1>3. CASE s.state # "SENDING_BODY"
  <2> DEFINE u == nxe_ostream_unset_ready(s, "cb")
             w == nxe_istream_set_ready(u, "out")
  <2>1. t = w BY <1>3 DEF resp_body_in_write
  <2>2. "cb" \in Streams /\ "out" \in Streams BY DEF Streams
  <2>3. /\ Connected(u, "cb") /\ Kept(s, u) /\ KeptTimers(s, u) /\ KeptList(s, u)
    BY <2>2, UnsetOutput
  <2> HIDE DEF u
  <2>4. ~ InLoop(u, "complete") /\ u.state \in Sending /\ u.state # "SENDING_BODY"
    BY <1>2, <1>3, <2>3 DEF KeptList, Kept, KeptHandler
  <2>5. /\ Connected(w, "cb") /\ Kept(u, w) /\ KeptTimers(u, w)
        /\ \A f : InLoop(w, f) <=> \/ InLoop(u, f)
                                   \/ f = "out" /\ ~ u.is["out"] /\ u.os["out"] /\ "out" \in u.pair
    <3>1. Connected(u, "cb") BY <2>3
    <3>2. "out" = "cb" => u.is["out"] \/ ~ u.os["out"] \/ "out" \notin u.pair OBVIOUS
    <3>3. "out" = "out" => /\ ~ InLoop(u, "complete") /\ (u.continue \/ u.state \in Sending)
                           /\ ~ (u.state = "SENDING_BODY" /\ "cb" \in u.pair /\ u.os["cb"])
      BY <2>4
    <3> QED BY <2>2, <3>1, <3>2, <3>3, SetInput
  <2> HIDE DEF w
  <2>6. KeptHandler(s, w) /\ s.timers = w.timers BY <2>3, <2>5 DEF Kept, KeptHandler, KeptTimers
  <2>7. \A f : InLoop(s, f) => InLoop(w, f) BY <2>3, <2>5 DEF KeptList
  <2>8. Attended(w) BY <2>6, <2>7, AttendedStays
  <2> QED BY <2>1, <2>5, <2>8
<1>4. CASE s.state = "SENDING_BODY"
  <2>1. Sound(s) /\ Nearly(s, "cb") /\ ~ s.is["out"] /\ ~ InLoop(s, "out")
    BY <1>1, <1>4 DEF Connected, Nearly, Sound, OutputInv
  <2>2. /\ Sound(t) /\ KeptHandler(s, t)
        /\ \A y \in {"in", "rb"} : t.is[y] = s.is[y] /\ t.os[y] = s.os[y]
        /\ Blocked(s, t) \/ Drained(s, t) \/ Ended(s, t)
    BY <1>2, <1>4, <2>1, ContentWritten
  <2> HIDE DEF t
  <2>3. CASE Blocked(s, t) BY <1>2, <1>4, <2>1, <2>2, <2>3, BlockedKeeps DEF t
  <2>4. CASE Ended(s, t) BY <1>2, <1>4, <2>1, <2>2, <2>4, EndedKeeps DEF t
  <2>5. CASE Drained(s, t) BY <1>2, <1>4, <2>1, <2>2, <2>5, DrainedKeeps DEF t, Drained
  <2> QED BY <2>2, <2>3, <2>4, <2>5
<1> QED BY <1>3, <1>4

-----------------------------------------------------------------------------
(* A round of the output's stream.                                         *)

(* The output has nothing to send.                                         *)
LEMMA OutputRests ==
  ASSUME NEW s, Nearly(s, "out"), Attended(s)
  PROVE  LET t == nxe_istream_unset_ready(s, "out")
         IN  /\ Connected(t, "out") /\ Attended(t) /\ Kept(s, t) /\ ~ t.is["out"]
             /\ t.pair = s.pair /\ t.os = s.os /\ \A y \in Streams \ {"out"} : t.is[y] = s.is[y]
<1> DEFINE t == nxe_istream_unset_ready(s, "out")
<1>1. "out" \in Streams /\ Sound(s) /\ s.is \in [Streams -> BOOLEAN] /\ ~ InLoop(s, "out")
  BY DEF Streams, Nearly, Sound, ListInv
<1>2. /\ Sound(t) /\ Kept(s, t) /\ KeptTimers(s, t) /\ t.pair = s.pair /\ t.os = s.os
      /\ t.is = [s.is EXCEPT !["out"] = FALSE] /\ \A f : InLoop(t, f) <=> InLoop(s, f)
  BY <1>1, InputUnset
<1> HIDE DEF t
<1>3. \A z \in Streams : t.is[z] => s.is[z] BY <1>1, <1>2
<1>4. ~ t.is["out"] /\ \A y \in Streams \ {"out"} : t.is[y] = s.is[y] BY <1>1, <1>2
<1>8. Woken(t, "out") BY <1>2, <1>3 DEF Nearly, Woken, Flowing
<1>9. MessagesInv(t) BY <1>2, <1>4 DEF Nearly, MessagesInv, Kept, KeptHandler, HasBody
<1>10. HandlerInv(t) BY <1>2 DEF Nearly, HandlerInv, Kept, KeptHandler
<1>11. TimersFit(t) BY <1>2 DEF Nearly, TimersFit, KeptTimers, Kept, KeptHandler
<1>12. OutputInv(t) BY <1>1, <1>2, <1>4 DEF OutputInv
<1>13. Connected(t, "out")
  BY <1>1, <1>2, <1>8, <1>9, <1>10, <1>11, <1>12 DEF Connected, Nearly, Kept, KeptHandler, Sound
<1>14. Attended(t) BY <1>2 DEF Attended, Failing, Kept, KeptHandler, KeptTimers
<1> QED BY <1>2, <1>4, <1>13, <1>14 DEF t

LEMMA BodyIsWritten ==
  ASSUME NEW s, Nearly(s, "out"), Attended(s), s.state = "SENDING_BODY"
  PROVE  Connected(WriteBody(s), "out") /\ Attended(WriteBody(s))
<1>1. /\ Sound(s) /\ ~ InLoop(s, "out") /\ "out" \in Streams /\ "cb" \in Streams
      /\ s.is \in [Streams -> BOOLEAN] /\ s.os \in [Streams -> BOOLEAN] /\ DOMAIN s = Fields
  BY DEF Nearly, Sound, ListInv, Streams
<1>2. CASE "cb" \notin s.pair
  <2>1. WriteBody(s) = nxe_istream_unset_ready(s, "out") BY <1>2 DEF WriteBody
  <2> QED BY <2>1, OutputRests
<1>3. CASE "cb" \in s.pair /\ ~ s.is["cb"]
  <2> DEFINE u == nxe_istream_unset_ready(s, "out")
             t == nxe_ostream_set_ready(u, "cb")
  <2>1. WriteBody(s) = t BY <1>3 DEF WriteBody
  <2>2. /\ Connected(u, "out") /\ Attended(u) /\ Kept(s, u) /\ ~ u.is["out"]
        /\ u.pair = s.pair /\ u.os = s.os /\ \A y \in Streams \ {"out"} : u.is[y] = s.is[y]
    BY OutputRests
  <2> HIDE DEF u
  <2>3. ~ InLoop(u, "out") BY <1>1, <2>2 DEF Connected
  <2>4. /\ Connected(t, "out") /\ Kept(u, t) /\ KeptTimers(u, t)
        /\ \A f : InLoop(t, f) <=> InLoop(u, f) \/ (f = "cb" /\ u.is["cb"] /\ "cb" \in u.pair)
    <3>1. Connected(u, "out") BY <2>2
    <3>2. "cb" = "out" => ~ u.is["cb"] \/ "cb" \notin u.pair OBVIOUS
    <3>3. "cb" = "cb" => \/ u.state # "SENDING_BODY" \/ "cb" \notin u.pair
                         \/ ~ u.is["out"] /\ ~ InLoop(u, "out")
      BY <2>2, <2>3
    <3> QED BY <1>1, <3>1, <3>2, <3>3, SetOutput
  <2> HIDE DEF t
  <2>5. KeptHandler(u, t) /\ u.timers \subseteq t.timers /\ \A f : InLoop(u, f) => InLoop(t, f)
    BY <2>4 DEF Kept, KeptTimers
  <2>6. Attended(t) BY <2>2, <2>5, AttendedStays
  <2> QED BY <2>1, <2>4, <2>6
<1>4. CASE "cb" \in s.pair /\ s.is["cb"]
  <2> DEFINE a == [s EXCEPT !.os["cb"] = TRUE]
             b == resp_body_in_write(a)
             u == nxe_istream_unset_ready(b, "out")
             t == nxe_ostream_set_ready(u, "cb")
  <2>1. WriteBody(s) = IF b.is["cb"] THEN b ELSE t BY <1>4 DEF WriteBody
  <2>2. /\ DOMAIN a = Fields /\ Kept(s, a) /\ KeptTimers(s, a) /\ a.events = s.events
        /\ a.tripped = s.tripped /\ a.is = s.is /\ a.pair = s.pair /\ a.os = [s.os EXCEPT !["cb"] = TRUE]
    BY <1>1 DEF Fields, Kept, KeptHandler, KeptData, KeptOthers, KeptTimers
  <2> HIDE DEF a
  <2>3. a.os \in [Streams -> BOOLEAN] /\ a.os["cb"] /\ \A y \in Streams \ {"cb"} : a.os[y] = s.os[y]
    BY <1>1, <2>2
  <2>4. Sound(a) /\ KeptList(s, a)
    <3>1. a.tripped = FALSE /\ a.is \in [Streams -> BOOLEAN] BY <1>1, <2>2 DEF Sound, ListInv
    <3>2. ListInv(a) /\ KeptList(s, a) BY <1>1, <2>2, <2>3, <3>1, ListStays DEF Sound
    <3>3. DataInv(a) BY <1>1, <2>2 DEF Sound, DataInv, Kept, KeptHandler, KeptData, KeptTimers
    <3> QED BY <3>2, <3>3 DEF Sound
  <2>5. ~ InLoop(s, "complete") BY <1>4 DEF Nearly, MessagesInv
  <2>6. a.state = "SENDING_BODY" /\ ~ InLoop(a, "complete")
    BY <2>2, <2>4, <2>5 DEF Kept, KeptHandler, KeptList
  <2>7. /\ Sound(b) /\ KeptHandler(a, b)
        /\ \A y \in {"in", "rb"} : b.is[y] = a.is[y] /\ b.os[y] = a.os[y]
        /\ Blocked(a, b) \/ Drained(a, b) \/ Ended(a, b)
    BY <2>4, <2>6, ContentWritten
  <2> HIDE DEF b
  <2>8. KeptHandler(s, b) BY <2>2, <2>7 DEF Kept, KeptHandler
  <2>9. \A y \in {"in", "rb"} : b.is[y] = s.is[y] /\ b.os[y] = s.os[y] BY <2>2, <2>3, <2>7 DEF Streams
  <2>10. CASE Blocked(a, b)
    <3>1. Blocked(s, b) BY <2>2, <2>4, <2>10 DEF Blocked, KeptTimers, KeptList
    <3>2. Connected(b, "out") /\ Attended(b) BY <2>5, <2>7, <2>8, <2>9, <3>1, BlockedKeeps
    <3>3. CASE b.is["cb"] BY <2>1, <3>2, <3>3
    <3>4. CASE ~ b.is["cb"]
      <4>1. Nearly(b, "out") BY <3>2, ConnectedIsNearly
      <4>2. /\ Connected(u, "out") /\ Attended(u) /\ Kept(b, u) /\ ~ u.is["out"]
            /\ u.pair = b.pair /\ u.os = b.os /\ \A y \in Streams \ {"out"} : u.is[y] = b.is[y]
        BY <3>2, <4>1, OutputRests
      <4> HIDE DEF u
      <4>3. ~ InLoop(u, "out") BY <1>1, <4>2 DEF Connected
      <4>4. /\ Connected(t, "out") /\ Kept(u, t) /\ KeptTimers(u, t)
            /\ \A f : InLoop(t, f) <=> InLoop(u, f) \/ (f = "cb" /\ u.is["cb"] /\ "cb" \in u.pair)
        <5>1. Connected(u, "out") BY <4>2
        <5>2. "cb" = "out" => ~ u.is["cb"] \/ "cb" \notin u.pair OBVIOUS
        <5>3. "cb" = "cb" => \/ u.state # "SENDING_BODY" \/ "cb" \notin u.pair
                             \/ ~ u.is["out"] /\ ~ InLoop(u, "out")
          BY <4>2, <4>3
        <5> QED BY <1>1, <5>1, <5>2, <5>3, SetOutput
      <4> HIDE DEF t
      <4>5. KeptHandler(u, t) /\ u.timers \subseteq t.timers /\ \A f : InLoop(u, f) => InLoop(t, f)
        BY <4>4 DEF Kept, KeptTimers
      <4>6. Attended(t) BY <4>2, <4>5, AttendedStays
      <4> QED BY <2>1, <3>4, <4>4, <4>6
    <3> QED BY <3>3, <3>4
  <2>11. CASE Ended(a, b)
    <3>1. Ended(s, b) /\ b.is["cb"] BY <1>4, <2>2, <2>4, <2>11 DEF Ended, KeptTimers, KeptList
    <3>2. Connected(b, "out") /\ Attended(b)
      BY <1>1, <2>5, <2>7, <2>8, <2>9, <3>1, EndedKeeps DEF Sending
    <3> QED BY <2>1, <3>1, <3>2
  <2>12. CASE Drained(a, b)
    <3>1. /\ ~ b.is["cb"] /\ b.os["cb"] /\ b.pair = s.pair
          /\ b.timers = s.timers \cup {"write"} /\ KeptList(s, b)
      BY <2>2, <2>3, <2>4, <2>12 DEF Drained, KeptTimers, KeptList
    <3>2. /\ Sound(u) /\ Kept(b, u) /\ KeptTimers(b, u) /\ u.pair = b.pair /\ u.os = b.os
          /\ u.is = [b.is EXCEPT !["out"] = FALSE] /\ \A f : InLoop(u, f) <=> InLoop(b, f)
      BY <1>1, <2>7, InputUnset
    <3> HIDE DEF u
    <3>3. b.is \in [Streams -> BOOLEAN] BY <2>7 DEF Sound, ListInv
    <3>4. ~ u.is["out"] /\ ~ u.is["cb"] /\ \A y \in {"in", "rb"} : u.is[y] = b.is[y]
      BY <1>1, <3>1, <3>2, <3>3
    <3>5. /\ Sound(t) /\ Kept(u, t) /\ KeptTimers(u, t) /\ t.pair = u.pair /\ t.is = u.is
          /\ t.os = [u.os EXCEPT !["cb"] = TRUE]
          /\ \A f : InLoop(t, f) <=> InLoop(u, f) \/ (f = "cb" /\ u.is["cb"] /\ "cb" \in u.pair)
      BY <1>1, <3>2, OutputSet
    <3> HIDE DEF t
    <3>6. u.os \in [Streams -> BOOLEAN] BY <3>2 DEF Sound, ListInv
    <3>7. \A y \in {"in", "rb"} : t.os[y] = b.os[y] BY <1>1, <3>2, <3>5, <3>6 DEF Streams
    <3>8. \A y \in {"in", "rb"} : t.is[y] = s.is[y] /\ t.os[y] = s.os[y] BY <2>9, <3>4, <3>5, <3>7
    <3>9. KeptHandler(s, t) BY <2>8, <3>2, <3>5 DEF Kept, KeptHandler
    <3>10. KeptList(s, t) BY <3>1, <3>2, <3>4, <3>5 DEF KeptList
    <3>11. ~ t.is["out"] /\ ~ t.is["cb"] /\ t.pair = s.pair /\ t.timers = s.timers \cup {"write"}
      BY <3>1, <3>2, <3>4, <3>5 DEF KeptTimers
    <3>12. Connected(t, "out") /\ Attended(t)
      BY <1>1, <2>5, <3>5, <3>8, <3>9, <3>10, <3>11, DrainedKeeps
    <3> QED BY <2>1, <3>1, <3>12
  <2> QED BY <2>7, <2>10, <2>11, <2>12
<1> QED BY <1>2, <1>3, <1>4

LEMMA ResponseIsWritten ==
  ASSUME NEW s, Connected(s, "out"), Attended(s), s.is["out"], s.state \in Sending
  PROVE  Connected(WriteResponse(s), "out") /\ Attended(WriteResponse(s))
<1> DEFINE a == nxe_unset_timer(s, "write")
           t == nxe_set_timer(a, "write")
           size == IF t.headers THEN 1 ELSE 0
           b == sock_data_send_write(t, size)
           u == [b EXCEPT !.headers = @ /\ Sent(t, size) # size]
           v == [u EXCEPT !.state = "SENDING_BODY"]
<1>1. "out" \in Streams /\ "write" \in Timers /\ ~ InLoop(s, "complete")
  BY DEF Streams, Timers, Connected, MessagesInv
<1>2. /\ Connected(a, "out") /\ Kept(s, a) /\ KeptStreams(s, a) /\ KeptList(s, a)
      /\ a.timers = s.timers \ {"write"}
  BY <1>1, UnsetTimer
<1> HIDE DEF a
<1>3. "write" \notin a.timers /\ a.state \in Sending /\ ~ InLoop(a, "complete")
  BY <1>1, <1>2 DEF Kept, KeptHandler, KeptList
<1>4. Connected(t, "out") /\ Attended(t) /\ Kept(a, t) /\ KeptStreams(a, t) /\ KeptList(a, t)
  <2>1. Connected(a, "out") BY <1>2
  <2> QED BY <1>1, <1>3, <2>1, SetTimer
<1> HIDE DEF t
<1>5. t.state = s.state /\ t.has_body = s.has_body BY <1>2, <1>4 DEF Kept, KeptHandler, KeptOthers
<1>6. WriteResponse(s) =
        CASE s.state = "SENDING_BODY" -> WriteBody(t)
          [] s.state = "SENDING_HEADERS" /\ u.headers -> u
          [] s.state = "SENDING_HEADERS" /\ ~ u.headers /\ ~ s.has_body -> request_complete(u)
          [] s.state = "SENDING_HEADERS" /\ ~ u.headers /\ s.has_body -> WriteBody(v)
          [] OTHER -> nxe_istream_unset_ready(t, "out")
  BY DEF WriteResponse, t, a
<1>7. CASE s.state = "SENDING_BODY"
  <2>1. WriteResponse(s) = WriteBody(t) BY <1>6, <1>7
  <2>2. Nearly(t, "out") BY <1>4, ConnectedIsNearly
  <2> QED BY <1>4, <1>5, <1>7, <2>1, <2>2, BodyIsWritten
<1>8. CASE s.state = "SENDING_HEADERS"
  <2>1. size \in Nat OBVIOUS
  <2> HIDE DEF size
  <2>2. /\ Connected(b, "out") /\ (Attended(t) => Attended(b))
        /\ KeptHandler(t, b) /\ KeptOthers(t, b) /\ KeptTimers(t, b) /\ KeptList(t, b)
        /\ b.is = t.is /\ b.pair = t.pair
    BY <1>4, <2>1, Write
  <2> HIDE DEF b
  <2>3. /\ DOMAIN u = Fields /\ u.events = b.events /\ u.tripped = b.tripped
        /\ KeptHandler(b, u) /\ KeptTimers(b, u) /\ KeptStreams(b, u) /\ KeptData(b, u)
    <3>1. DOMAIN b = Fields BY <2>2 DEF Connected, ListInv
    <3> QED BY <3>1 DEF Fields, KeptHandler, KeptTimers, KeptStreams, KeptData
  <2> HIDE DEF u
  <2>4. Connected(u, "out") /\ KeptList(b, u) /\ Attended(u)
    <3>1. DataInv(u) BY <2>2, <2>3 DEF Connected, DataInv, KeptHandler, KeptTimers, KeptData
    <3> QED BY <1>4, <2>2, <2>3, <3>1, DataChanges
  <2>5. u.state = "SENDING_HEADERS" /\ ~ InLoop(u, "complete") /\ ~ InLoop(u, "out")
    BY <1>1, <1>3, <1>4, <1>5, <1>8, <2>2, <2>3, <2>4 DEF KeptHandler, KeptList, Connected
  <2>6. CASE u.headers
    <3>1. WriteResponse(s) = u BY <1>6, <1>8, <2>6
    <3> QED BY <2>4, <3>1
  <2>7. CASE ~ u.headers /\ ~ s.has_body
    <3> DEFINE w == request_complete(u)
    <3>1. WriteResponse(s) = w BY <1>6, <1>8, <2>7
    <3>2. Sound(u) /\ Nearly(u, "out") BY <2>4 DEF Connected, Sound, Nearly
    <3>3. /\ Sound(w) /\ KeptHandler(u, w)
          /\ w.is = [u.is EXCEPT !["out"] = FALSE] /\ w.os = u.os /\ w.pair = u.pair \ {"cb", "rb"}
          /\ w.timers = u.timers \ {"write"}
          /\ \A f : InLoop(w, f) <=> (InLoop(u, f) /\ f \notin {"cb", "rb"}) \/ f = "complete"
      BY <2>5, <3>2, RequestComplete
    <3> HIDE DEF w
    <3>4. u.is \in [Streams -> BOOLEAN] BY <3>2 DEF Sound, ListInv
    <3>5. ~ w.is["out"] /\ w.is["in"] = u.is["in"] /\ w.os["in"] = u.os["in"]
      BY <1>1, <3>3, <3>4 DEF Streams
    <3>6. Connected(w, "out") /\ Attended(w)
      <4>1. u.state \in Sending BY <2>5 DEF Sending
      <4> QED BY <2>5, <3>2, <3>3, <3>5, <4>1, Finished
    <3> QED BY <3>1, <3>6
  <2>8. CASE ~ u.headers /\ s.has_body
    <3>1. WriteResponse(s) = WriteBody(v) BY <1>6, <1>8, <2>8
    <3>2. /\ DOMAIN v = Fields /\ v.events = u.events /\ v.tripped = u.tripped
          /\ KeptTimers(u, v) /\ KeptStreams(u, v) /\ KeptData(u, v) /\ v.state = "SENDING_BODY"
          /\ v.nxb = u.nxb /\ v.req = u.req /\ v.sink = u.sink /\ v.handler = u.handler
          /\ v.continue = u.continue /\ v.in_worker = u.in_worker /\ v.closing = u.closing
          /\ v.freed = u.freed
      BY <2>3 DEF Fields, KeptTimers, KeptStreams, KeptData
    <3> HIDE DEF v
    <3>3. \A f : InLoop(v, f) <=> InLoop(u, f) BY <3>2 DEF InLoop
    <3>4. ListInv(v) BY <2>4, <3>2 DEF Connected, ListInv, KeptStreams
    <3>5. DataInv(v) BY <2>4, <3>2 DEF Connected, DataInv, KeptTimers, KeptData, States, Sending
    <3>6. Woken(v, "out") BY <2>4, <3>2, <3>3 DEF Connected, Woken, Flowing, KeptStreams
    <3>7. MessagesInv(v) BY <2>4, <2>5, <3>2, <3>3 DEF Connected, MessagesInv, KeptStreams, Sending, HasBody
    <3>8. HandlerInv(v) BY <2>4, <2>5, <3>2 DEF Connected, HandlerInv, KeptStreams, Sending
    <3>9. TimersFit(v) BY <2>4, <2>5, <3>2, <3>3 DEF Connected, TimersFit, KeptTimers, Sending, Receiving
    <3>10. Nearly(v, "out")
      BY <2>4, <3>2, <3>3, <3>4, <3>5, <3>6, <3>7, <3>8, <3>9 DEF Connected, Nearly
    <3>11. Attended(v)
      BY <2>4, <2>5, <3>2, <3>3 DEF Attended, Failing, KeptTimers, Sending, Receiving
    <3> QED BY <3>1, <3>2, <3>10, <3>11, BodyIsWritten
  <2> QED BY <2>6, <2>7, <2>8
<1> QED BY <1>7, <1>8 DEF Sending

LEMMA OutputRound ==
  ASSUME NEW s, Connected(s, "out"), Attended(s), Flowing(s, "out")
  PROVE  Connected(data_out_do_write(s), "out") /\ Attended(data_out_do_write(s))
<1>1. s.is["out"] BY DEF Flowing
<1>2. CASE ~ s.continue
  <2>1. data_out_do_write(s) = WriteResponse(s) BY <1>2 DEF data_out_do_write
  <2>2. s.state \in Sending BY <1>1, <1>2 DEF Connected, OutputInv
  <2> QED BY <1>1, <2>1, <2>2, ResponseIsWritten
<1>3. CASE s.continue
  <2> DEFINE t == sock_data_send_write(s, 1)
             u == [t EXCEPT !.continue = FALSE]
             v == nxe_istream_unset_ready(t, "out")
             w == nxe_istream_unset_ready(u, "out")
  <2>1. /\ Connected(t, "out") /\ (Attended(s) => Attended(t)) /\ KeptHandler(s, t) /\ t.is = s.is
    <3>1. 1 \in Nat OBVIOUS
    <3> QED BY <3>1, Write
  <2>2. data_out_do_write(s) =
          CASE Sent(s, 1) = 0 -> t
            [] Sent(s, 1) # 0 /\ s.state = "SENDING_HEADERS" -> WriteResponse(u)
            [] OTHER -> w
    BY <1>3 DEF data_out_do_write
  <2> HIDE DEF t
  <2>3. DOMAIN t = Fields /\ t.is \in [Streams -> BOOLEAN] /\ "out" \in Streams
    BY <2>1 DEF Connected, ListInv, Streams
  <2>4. ASSUME NEW p, Connected(p, "out"), Attended(p), p.is["out"] => p.state \in Sending,
               NEW q, q = [p EXCEPT !.continue = FALSE]
        PROVE  Connected(q, "out") /\ Attended(q) /\ q.is = p.is /\ q.state = p.state
    <3>1. DOMAIN p = Fields BY <2>4 DEF Connected, ListInv
    <3>2. /\ DOMAIN q = Fields /\ q.events = p.events /\ q.tripped = p.tripped /\ KeptTimers(p, q)
          /\ KeptStreams(p, q) /\ KeptData(p, q) /\ q.state = p.state
          /\ q.nxb = p.nxb /\ q.req = p.req /\ q.sink = p.sink /\ q.handler = p.handler
          /\ q.in_worker = p.in_worker /\ q.closing = p.closing /\ q.freed = p.freed
      BY <2>4, <3>1 DEF Fields, KeptTimers, KeptStreams, KeptData
    <3>3. \A f : InLoop(q, f) <=> InLoop(p, f) BY <3>2 DEF InLoop
    <3>4. ListInv(q) BY <2>4, <3>2 DEF Connected, ListInv, KeptStreams
    <3>5. DataInv(q) BY <2>4, <3>2 DEF Connected, DataInv, KeptTimers, KeptData
    <3>6. Woken(q, "out") BY <2>4, <3>2, <3>3 DEF Connected, Woken, Flowing, KeptStreams
    <3>7. MessagesInv(q) BY <2>4, <3>2, <3>3 DEF Connected, MessagesInv, KeptStreams, HasBody
    <3>8. HandlerInv(q) BY <2>4, <3>2 DEF Connected, HandlerInv, KeptStreams
    <3>9. TimersFit(q) BY <2>4, <3>2, <3>3 DEF Connected, TimersFit, KeptTimers
    <3>10. OutputInv(q) BY <2>4, <3>2, <3>3 DEF Connected, OutputInv, KeptStreams
    <3>11. Connected(q, "out")
      BY <2>4, <3>2, <3>3, <3>4, <3>5, <3>6, <3>7, <3>8, <3>9, <3>10 DEF Connected
    <3>12. Attended(q) BY <2>4, <3>2, <3>3 DEF Attended, Failing, KeptTimers
    <3> QED BY <3>2, <3>11, <3>12 DEF KeptStreams
  <2>5. CASE Sent(s, 1) = 0 BY <2>1, <2>2, <2>5
  <2>6. CASE Sent(s, 1) # 0 /\ s.state = "SENDING_HEADERS"
    <3>1. data_out_do_write(s) = WriteResponse(u) BY <2>2, <2>6
    <3>2. t.state \in Sending BY <2>1, <2>6 DEF KeptHandler, Sending
    <3>3. Connected(u, "out") /\ Attended(u) /\ u.is = t.is /\ u.state = t.state
      BY <2>1, <2>4, <3>2
    <3> HIDE DEF u
    <3> QED BY <1>1, <2>1, <3>1, <3>2, <3>3, ResponseIsWritten
  <2>7. CASE Sent(s, 1) # 0 /\ s.state # "SENDING_HEADERS"
    <3>1. data_out_do_write(s) = w BY <2>2, <2>7
    <3>2. Connected(v, "out") /\ Attended(v) /\ ~ v.is["out"]
      <4>1. Nearly(t, "out") /\ Attended(t) BY <2>1, ConnectedIsNearly
      <4> QED BY <4>1, OutputRests
    <3>3. w = [v EXCEPT !.continue = FALSE]
      BY <2>3 DEF nxe_istream_unset_ready, Fields
    <3> HIDE DEF w, v
    <3> QED BY <2>4, <3>1, <3>2, <3>3
  <2> QED BY <2>5, <2>6, <2>7
<1> QED BY <1>2, <1>3

-----------------------------------------------------------------------------
(* Receiving the body of the request, in a round of "rb" or of "in".       *)

Reading(s, x) ==
  /\ Connected(s, x) /\ s.state = "RECEIVING_BODY" /\ "rb" \in s.pair /\ "read" \notin s.timers

LEMMA Counted ==
  ASSUME NEW s, NEW x, Reading(s, x), NEW n \in Int
  PROVE  Reading(Count(s, n), x) /\ Count(s, n).wire = s.wire /\ KeptStreams(s, Count(s, n))
<1> DEFINE a == [s EXCEPT !.received = @ + n]
           t == nxe_publish(a, "error")
<1>1. DOMAIN s = Fields /\ DataInv(s) BY DEF Reading, Connected, ListInv
<1>2. /\ DOMAIN a = Fields /\ a.events = s.events /\ a.tripped = s.tripped /\ KeptHandler(s, a)
      /\ KeptTimers(s, a) /\ KeptStreams(s, a) /\ a.received = s.received + n
      /\ a.wire = s.wire /\ a.room = s.room /\ a.head = s.head /\ a.chunk = s.chunk
      /\ a.stored = s.stored /\ a.avail = s.avail
  BY <1>1 DEF Fields, KeptHandler, KeptTimers, KeptStreams
<1>3. Count(s, n) = IF s.req.kind = "broken" /\ n > 0 THEN t ELSE a BY DEF Count
<1> HIDE DEF a
<1>4. DataInv(a) BY <1>1, <1>2 DEF DataInv, KeptHandler, KeptTimers
<1>5. Connected(a, x) BY <1>2, <1>4, DataChanges DEF Reading
<1>6. Reading(a, x) BY <1>2, <1>5 DEF Reading, KeptHandler, KeptTimers, KeptStreams
<1>7. Connected(t, x) /\ Kept(a, t) /\ KeptTimers(a, t) /\ KeptStreams(a, t) BY <1>5, PublishError
<1> HIDE DEF t
<1>8. Reading(t, x) BY <1>6, <1>7 DEF Reading, Kept, KeptHandler, KeptTimers, KeptStreams
<1> QED BY <1>2, <1>3, <1>6, <1>7, <1>8 DEF Kept, KeptData, KeptStreams

(* The body is complete: the handler is told, the socket waits.            *)
LEMMA BodyIsReceived ==
  ASSUME NEW s, NEW x, Reading(s, x)
  PROVE  Connected(BodyReceived(s), x) /\ Attended(BodyReceived(s))
<1> DEFINE a == nxe_publish(s, "body")
           b == [a EXCEPT !.state = "HANDLING"]
           d == nxe_ostream_unset_ready(b, "in")
           t == nxe_istream_unset_ready(d, "rb")
<1>1. BodyReceived(s) = t BY DEF BodyReceived
<1>2. /\ Sound(s) /\ "in" \in Streams /\ "rb" \in Streams /\ "out" \in Streams
      /\ s.is \in [Streams -> BOOLEAN] /\ s.os \in [Streams -> BOOLEAN]
  BY DEF Reading, Connected, Sound, ListInv, Streams
<1>3. ~ InLoop(s, "received") /\ ~ InLoop(s, "body") /\ ~ InLoop(s, "complete")
      /\ s.handler # "none" /\ ~ s.in_worker /\ ~ s.closing
  BY DEF Reading, Connected, MessagesInv, HandlerInv, Sending
<1>4. /\ Sound(a) /\ Kept(s, a) /\ KeptTimers(s, a) /\ KeptStreams(s, a)
      /\ \A f : InLoop(a, f) <=> InLoop(s, f) \/ f = "body"
  <2>1. "body" \in Messages BY DEF Messages
  <2>2. \A f \in DOMAIN Rank : InLoop(s, f) => Rank[f] < Rank["body"] BY <1>3, RankIs
  <2> QED BY <1>2, <2>1, <2>2, MessagePublished
<1> HIDE DEF a
<1>5. /\ DOMAIN b = Fields /\ b.events = a.events /\ b.tripped = FALSE /\ b.state = "HANDLING"
      /\ KeptTimers(a, b) /\ KeptStreams(a, b) /\ KeptData(a, b)
      /\ b.nxb = a.nxb /\ b.req = a.req /\ b.sink = a.sink /\ b.handler = a.handler
      /\ b.continue = a.continue /\ b.in_worker = a.in_worker /\ b.closing = a.closing
      /\ b.freed = a.freed
  <2>1. DOMAIN a = Fields /\ a.tripped = FALSE BY <1>4 DEF Sound, ListInv
  <2> QED BY <2>1 DEF Fields, KeptTimers, KeptStreams, KeptData
<1> HIDE DEF b
<1>6. Sound(b) /\ KeptList(a, b)
  <2>1. b.pair = a.pair /\ b.is \in [Streams -> BOOLEAN] /\ b.os \in [Streams -> BOOLEAN]
    BY <1>4, <1>5 DEF Sound, ListInv, KeptStreams
  <2>2. ListInv(b) /\ KeptList(a, b) BY <1>4, <1>5, <2>1, ListStays DEF Sound
  <2>3. DataInv(b) BY <1>4, <1>5 DEF Sound, DataInv, KeptTimers, KeptData, States
  <2> QED BY <2>2, <2>3 DEF Sound
<1>7. /\ Sound(d) /\ Kept(b, d) /\ KeptTimers(b, d) /\ d.pair = b.pair /\ d.is = b.is
      /\ d.os = [b.os EXCEPT !["in"] = FALSE] /\ \A f : InLoop(d, f) <=> InLoop(b, f)
  BY <1>2, <1>6, OutputUnset
<1> HIDE DEF d
<1>8. /\ Sound(t) /\ Kept(d, t) /\ KeptTimers(d, t) /\ t.pair = d.pair /\ t.os = d.os
      /\ t.is = [d.is EXCEPT !["rb"] = FALSE] /\ \A f : InLoop(t, f) <=> InLoop(d, f)
  BY <1>2, <1>7, InputUnset
<1> HIDE DEF t
<1>9. /\ t.state = "HANDLING" /\ t.nxb = s.nxb /\ t.req = s.req /\ t.sink = s.sink
      /\ t.handler = s.handler /\ t.continue = s.continue /\ t.in_worker = s.in_worker
      /\ t.closing = s.closing /\ t.freed = s.freed /\ t.timers = s.timers /\ t.pair = s.pair
  BY <1>4, <1>5, <1>7, <1>8 DEF Kept, KeptHandler, KeptTimers, KeptStreams
<1>10. \A f : InLoop(t, f) <=> InLoop(s, f) \/ f = "body" BY <1>4, <1>6, <1>7, <1>8 DEF KeptList
<1>11. /\ \A y \in Streams : (t.is[y] => s.is[y]) /\ (t.os[y] => s.os[y])
       /\ t.is["out"] = s.is["out"]
  BY <1>2, <1>4, <1>5, <1>7, <1>8 DEF KeptStreams
<1>12. \A f \in Streams \cup {"received", "complete"} : InLoop(t, f) <=> InLoop(s, f)
  BY <1>10 DEF Streams
<1>13. Woken(t, x) BY <1>9, <1>10, <1>11 DEF Reading, Connected, Woken, Flowing
<1>14. MessagesInv(t) BY <1>3, <1>9, <1>12 DEF MessagesInv
<1>15. HandlerInv(t) BY <1>3, <1>9 DEF Reading, Connected, HandlerInv, Sending
<1>16. TimersFit(t) BY <1>3, <1>9, <1>12 DEF Reading, Connected, TimersFit, Sending
<1>17. OutputInv(t) BY <1>2, <1>9, <1>11, <1>12 DEF Reading, Connected, OutputInv, Sending
<1>18. Connected(t, x)
  BY <1>8, <1>9, <1>12, <1>13, <1>14, <1>15, <1>16, <1>17 DEF Reading, Connected, Sound
<1>19. Attended(t) BY <1>9, <1>10 DEF Attended
<1> QED BY <1>1, <1>18, <1>19

(* The stream of the body has nothing, the socket may be read.             *)
LEMMA BodyAwaited ==
  ASSUME NEW s, NEW x, Connected(s, x), x = "in" => ~ s.is["in"]
  PROVE  LET t == nxe_ostream_set_ready(nxe_istream_unset_ready(s, "rb"), "in")
         IN  /\ Connected(t, x) /\ KeptHandler(s, t) /\ KeptTimers(s, t) /\ t.pair = s.pair
             /\ (Attended(s) => Attended(t))
<1> DEFINE a == nxe_istream_unset_ready(s, "rb")
           t == nxe_ostream_set_ready(a, "in")
<1>1. "in" \in Streams /\ "rb" \in Streams /\ s.is \in [Streams -> BOOLEAN]
  BY DEF Streams, Connected, ListInv
<1>2. /\ Connected(a, x) /\ Kept(s, a) /\ KeptTimers(s, a) /\ KeptList(s, a)
      /\ a.pair = s.pair /\ a.is = [s.is EXCEPT !["rb"] = FALSE]
  BY <1>1, UnsetInput
<1> HIDE DEF a
<1>3. x = "in" => ~ a.is["in"] BY <1>1, <1>2
<1>4. /\ Connected(t, x) /\ Kept(a, t) /\ KeptTimers(a, t) /\ t.pair = a.pair
      /\ \A f : InLoop(t, f) <=> InLoop(a, f) \/ (f = "in" /\ a.is["in"] /\ "in" \in a.pair)
  <2>1. Connected(a, x) BY <1>2
  <2>2. "in" = x => ~ a.is["in"] \/ "in" \notin a.pair BY <1>3
  <2> QED BY <1>1, <2>1, <2>2, SetOutput
<1> HIDE DEF t
<1>5. KeptHandler(s, t) /\ KeptTimers(s, t) /\ t.pair = s.pair
  BY <1>2, <1>4 DEF Kept, KeptHandler, KeptTimers
<1>6. \A f : InLoop(s, f) => InLoop(t, f) BY <1>2, <1>4 DEF KeptList
<1>7. Attended(s) => Attended(t) BY <1>5, <1>6, AttendedStays DEF KeptTimers
<1> QED BY <1>4, <1>5, <1>7 DEF t, a

LEMMA BodyRead ==
  ASSUME NEW s, NEW x \in {"in", "rb"}, Connected(s, x), Attended(s), "rb" \in s.pair,
         x = "in" => s.state = "RECEIVING_BODY", NEW size \in Nat
  PROVE  Connected(req_body_out_read(s, size), x) /\ Attended(req_body_out_read(s, size))
<1> DEFINE r == req_body_out_read(s, size)
<1>1. "in" \in Streams /\ "rb" \in Streams /\ "read" \in Timers BY DEF Streams, Timers
<1>2. CASE s.state = "HANDLING"
  <2> DEFINE t == nxe_istream_unset_ready(s, "rb")
  <2>1. r = t BY <1>2 DEF req_body_out_read
  <2>2. Connected(t, x) /\ Kept(s, t) /\ KeptTimers(s, t) /\ KeptList(s, t) BY <1>1, UnsetInput
  <2> HIDE DEF t
  <2>3. KeptHandler(s, t) /\ s.timers \subseteq t.timers /\ \A f : InLoop(s, f) => InLoop(t, f)
    BY <2>2 DEF Kept, KeptTimers, KeptList
  <2>4. Attended(t) BY <2>3, AttendedStays
  <2> QED BY <2>1, <2>2, <2>4
<1>3. CASE s.state \notin {"HANDLING", "RECEIVING_BODY"}
  <2> DEFINE t == nxe_ostream_set_ready(nxe_istream_unset_ready(s, "rb"), "in")
  <2>1. r = t BY <1>3 DEF req_body_out_read
  <2>2. x = "in" => ~ s.is["in"] BY <1>3
  <2>3. Connected(t, x) /\ Attended(t) BY <2>2, BodyAwaited
  <2> QED BY <2>1, <2>3
<1>4. CASE s.state = "RECEIVING_BODY"
  <2> DEFINE n == Minimum(s.chunk, size)
             a == nxe_unset_timer(s, "read")
             b == [a EXCEPT !.chunk = @ - n]
             t == Count(b, n)
             u == sock_data_recv_read(t, size - n)
             k == Len(t.wire) - Len(u.wire)
             v == Count(u, k)
             w == IF u.is["in"] THEN v
                  ELSE nxe_ostream_set_ready(nxe_istream_unset_ready(v, "rb"), "in")
  <2>1. r = CASE n > 0 /\ is_request_body_complete(t) -> BodyReceived(t)
              [] ~ (n > 0 /\ is_request_body_complete(t)) /\ size = n ->
                    nxe_set_timer(t, "read")
              [] ~ (n > 0 /\ is_request_body_complete(t)) /\ size > n ->
                    IF is_request_body_complete(w) THEN BodyReceived(w)
                    ELSE nxe_set_timer(w, "read")
    BY <1>4 DEF req_body_out_read
  <2>2. s.chunk \in Nat BY DEF Connected, DataInv
  <2>3. n \in Nat /\ n <= size /\ n <= s.chunk BY <2>2, MinimumIs
  <2>4. size - n \in Nat /\ (size = n \/ size > n) BY <2>3
  <2> HIDE DEF n
  <2>5. /\ Connected(a, x) /\ Kept(s, a) /\ KeptStreams(s, a) /\ a.timers = s.timers \ {"read"}
    BY <1>1, UnsetTimer
  <2> HIDE DEF a
  <2>6. Reading(a, x) BY <1>4, <2>5 DEF Reading, Kept, KeptHandler, KeptStreams
  <2>7. /\ DOMAIN b = Fields /\ b.events = a.events /\ b.tripped = a.tripped /\ KeptHandler(a, b)
        /\ KeptTimers(a, b) /\ KeptStreams(a, b) /\ b.chunk = a.chunk - n
        /\ b.wire = a.wire /\ b.room = a.room /\ b.head = a.head /\ b.received = a.received
        /\ b.stored = a.stored /\ b.avail = a.avail
    <3>1. DOMAIN a = Fields BY <2>5 DEF Connected, ListInv
    <3> QED BY <3>1 DEF Fields, KeptHandler, KeptTimers, KeptStreams
  <2> HIDE DEF b
  <2>8. Reading(b, x)
    <3>1. b.chunk \in Nat BY <2>2, <2>3, <2>5, <2>7 DEF Kept, KeptData
    <3>2. DataInv(b) BY <2>5, <2>7, <3>1 DEF Connected, DataInv, KeptHandler, KeptTimers
    <3>3. Connected(b, x) BY <2>5, <2>7, <3>2, DataChanges
    <3> QED BY <2>6, <2>7, <3>3 DEF Reading, KeptHandler, KeptTimers, KeptStreams
  <2>9. Reading(t, x)
    <3>1. n \in Int BY <2>3
    <3> QED BY <2>8, <3>1, Counted
  <2> HIDE DEF t
  <2>10. /\ Connected(u, x) /\ KeptHandler(t, u) /\ KeptTimers(t, u) /\ u.pair = t.pair /\ k \in Int
    <3>1. Connected(t, x) BY <2>9 DEF Reading
    <3>2. /\ Connected(u, x) /\ KeptHandler(t, u) /\ KeptTimers(t, u) /\ u.pair = t.pair
          /\ k \in 0 .. size - n
      BY <2>4, <3>1, Receive
    <3> HIDE DEF u, k
    <3> QED BY <2>4, <3>2
  <2> HIDE DEF u, k
  <2>11. Reading(u, x) BY <2>9, <2>10 DEF Reading, KeptHandler, KeptTimers
  <2>12. Reading(v, x) /\ v.is = u.is BY <2>10, <2>11, Counted DEF KeptStreams
  <2> HIDE DEF v
  <2>13. Reading(w, x)
    <3>1. CASE u.is["in"] BY <2>12, <3>1
    <3>2. CASE ~ u.is["in"]
      <4> DEFINE e == nxe_ostream_set_ready(nxe_istream_unset_ready(v, "rb"), "in")
      <4>1. w = e BY <3>2
      <4>2. Connected(v, x) /\ (x = "in" => ~ v.is["in"]) BY <2>12, <3>2 DEF Reading
      <4>3. Connected(e, x) /\ KeptHandler(v, e) /\ KeptTimers(v, e) /\ e.pair = v.pair
        BY <4>2, BodyAwaited
      <4> HIDE DEF e, w
      <4>4. Reading(e, x) BY <2>12, <4>3 DEF Reading, KeptHandler, KeptTimers
      <4> QED BY <4>1, <4>4
    <3> QED BY <3>1, <3>2
  <2> HIDE DEF w
  <2>14. ASSUME NEW p, Reading(p, x)
         PROVE  /\ Connected(BodyReceived(p), x) /\ Attended(BodyReceived(p))
                /\ Connected(nxe_set_timer(p, "read"), x) /\ Attended(nxe_set_timer(p, "read"))
    <3>1. Connected(BodyReceived(p), x) /\ Attended(BodyReceived(p)) BY <2>14, BodyIsReceived
    <3>2. Connected(p, x) /\ "read" \notin p.timers /\ p.state \in Receiving
      BY <2>14 DEF Reading, Receiving
    <3>3. Connected(nxe_set_timer(p, "read"), x) /\ Attended(nxe_set_timer(p, "read"))
      BY <1>1, <3>2, SetTimer
    <3> QED BY <3>1, <3>3
  <2>15. r \in {BodyReceived(t), nxe_set_timer(t, "read"), BodyReceived(w), nxe_set_timer(w, "read")}
    BY <2>1, <2>4
  <2> HIDE DEF r
  <2> QED BY <2>9, <2>13, <2>14, <2>15 DEF r
<1> QED BY <1>2, <1>3, <1>4

(* Whoever receives the body.                                              *)
LEMMA SinkReads ==
  ASSUME NEW s, NEW x \in {"in", "rb"}, Connected(s, x), Attended(s), "rb" \in s.pair,
         x = "in" => s.state = "RECEIVING_BODY", NEW full
  PROVE  Connected(sink_do_read(s, full), x) /\ Attended(sink_do_read(s, full))
<1>1. "rb" \in Streams BY DEF Streams
<1>2. ASSUME NEW p, Connected(p, x), Attended(p)
      PROVE  LET q == nxe_ostream_unset_ready(p, "rb") IN Connected(q, x) /\ Attended(q)
  <2> DEFINE q == nxe_ostream_unset_ready(p, "rb")
  <2>1. Connected(q, x) /\ Kept(p, q) /\ KeptTimers(p, q) /\ KeptList(p, q) BY <1>1, <1>2, UnsetOutput
  <2> HIDE DEF q
  <2>2. KeptHandler(p, q) /\ p.timers \subseteq q.timers /\ \A f : InLoop(p, f) => InLoop(q, f)
    BY <2>1 DEF Kept, KeptTimers, KeptList
  <2>3. Attended(q) BY <1>2, <2>2, AttendedStays
  <2> QED BY <2>1, <2>3 DEF q
<1>3. CASE s.sink = "ibuf"
  <2> DEFINE whole == s.stored >= Capacity(s)
             size == IF whole THEN MaxRead ELSE Capacity(s) - s.stored
             t == req_body_out_read(s, size)
             stored == t.stored + t.received - s.received
             u == [t EXCEPT !.stored = @ + t.received - s.received]
             v == IF whole THEN t ELSE u
  <2>1. sink_do_read(s, full) = IF t.state = "HANDLING" THEN nxe_ostream_unset_ready(v, "rb") ELSE v
    BY <1>3 DEF sink_do_read, ibuffer_do_read
  <2>2. size \in Nat
    <3>1. s.stored \in Int /\ s.req.size \in Nat /\ s.received \in Int BY DEF Connected, DataInv
    <3>2. Capacity(s) \in Nat BY <3>1, ProtoAssumption DEF Capacity
    <3> QED BY <3>1, <3>2 DEF MaxRead
  <2> HIDE DEF size, whole
  <2>3. Connected(t, x) /\ Attended(t) BY <2>2, BodyRead
  <2> HIDE DEF t
  <2>4. Connected(u, x) /\ Attended(u)
    <3>1. /\ DOMAIN t = Fields /\ DataInv(t) /\ t.received \in Int /\ t.stored \in Int /\ s.received \in Int
      BY <2>3 DEF Connected, ListInv, DataInv
    <3>2. /\ DOMAIN u = Fields /\ u.events = t.events /\ u.tripped = t.tripped /\ KeptHandler(t, u)
          /\ KeptTimers(t, u) /\ KeptStreams(t, u) /\ u.stored = stored
          /\ u.wire = t.wire /\ u.room = t.room /\ u.head = t.head /\ u.chunk = t.chunk
          /\ u.received = t.received /\ u.avail = t.avail
      BY <3>1 DEF Fields, KeptHandler, KeptTimers, KeptStreams
    <3>3. stored \in Int BY <3>1
    <3> HIDE DEF u, stored
    <3>4. DataInv(u) BY <3>1, <3>2, <3>3 DEF DataInv, KeptHandler, KeptTimers
    <3> QED BY <2>3, <3>2, <3>4, DataChanges
  <2>5. Connected(v, x) /\ Attended(v) BY <2>3, <2>4
  <2> HIDE DEF v
  <2> QED BY <1>2, <2>1, <2>5
<1>4. CASE s.sink # "ibuf"
  <2> DEFINE size == IF full THEN 1 ELSE MaxRead
             t == req_body_out_read(s, size)
  <2>1. sink_do_read(s, full) =
          IF full /\ t.received > s.received THEN nxe_ostream_unset_ready(t, "rb") ELSE t
    BY <1>4 DEF sink_do_read, rbuffer_do_read
  <2>2. size \in Nat BY DEF MaxRead
  <2> HIDE DEF size
  <2>3. Connected(t, x) /\ Attended(t) BY <2>2, BodyRead
  <2> HIDE DEF t
  <2> QED BY <1>2, <2>1, <2>3
<1> QED BY <1>3, <1>4

-----------------------------------------------------------------------------
(* A response is given, in a round of "in" or between events.              *)

MayRespond(s) ==
  /\ s.state \in {"RECEIVING_HEADERS", "RECEIVING_BODY", "HANDLING"}
  /\ ~ s.in_worker /\ ~ InLoop(s, "received") /\ (InLoop(s, "body") => s.handler = "proxy")

LEMMA Responds ==
  ASSUME NEW s, NEW x \in {"in", "none"}, Connected(s, x), MayRespond(s),
         NEW src, src.ready \in Nat, NEW body
  PROVE  LET r == start_sending_response(s, src, body) IN Connected(r, x) /\ Attended(r)
<1> DEFINE t == nxe_unset_timer(s, "read")
           some == src.ready > 0
           u == [t EXCEPT !.has_body = body, !.avail = src.ready, !.eof = src.eof,
                          !.rest = src.rest, !.is["cb"] = src.ready > 0, !.headers = TRUE]
           v == IF src.content THEN nxe_connect_streams(u, "cb") ELSE u
           w == IF s.continue THEN v ELSE nxe_istream_set_ready(v, "out")
           y == [w EXCEPT !.state = "SENDING_HEADERS"]
           r == nxe_set_timer(y, "write")
<1>1. start_sending_response(s, src, body) = r BY DEF MayRespond, start_sending_response
<1>2. /\ Sound(s) /\ "cb" \in Streams /\ "out" \in Streams /\ "in" \in Streams /\ "rb" \in Streams
      /\ "read" \in Timers /\ "write" \in Timers
      /\ s.is \in [Streams -> BOOLEAN] /\ s.os \in [Streams -> BOOLEAN]
  BY DEF Connected, Sound, ListInv, Streams, Timers
<1>3. /\ "cb" \notin s.pair /\ ~ InLoop(s, "complete") /\ "write" \notin s.timers
      /\ "keep_alive" \notin s.timers /\ ~ s.closing /\ s.nxb /\ (s.is["out"] => s.continue)
  BY DEF MayRespond, Connected, HandlerInv, MessagesInv, TimersFit, OutputInv, Sending
<1>4. ~ InLoop(s, "cb") BY <1>2, <1>3 DEF Connected, ListInv, InLoop
<1>5. /\ Sound(t) /\ Kept(s, t) /\ KeptStreams(s, t) /\ KeptList(s, t)
      /\ t.timers = s.timers \ {"read"}
  BY <1>2, TimerUnset
<1> HIDE DEF t
<1>6. DOMAIN t = Fields BY <1>5 DEF Sound, ListInv
<1>7. /\ DOMAIN u = Fields /\ u.events = t.events /\ u.tripped = t.tripped /\ KeptHandler(t, u)
      /\ KeptTimers(t, u) /\ u.pair = t.pair /\ u.os = t.os /\ u.is = [t.is EXCEPT !["cb"] = some]
      /\ u.avail = src.ready /\ u.wire = t.wire /\ u.room = t.room /\ u.head = t.head
      /\ u.chunk = t.chunk /\ u.received = t.received /\ u.stored = t.stored
  BY <1>6 DEF Fields, KeptHandler, KeptTimers
<1>8. some \in BOOLEAN OBVIOUS
<1> HIDE DEF u, some
<1>9. /\ u.is \in [Streams -> BOOLEAN] /\ u.os = s.os /\ u.pair = s.pair
      /\ \A z \in {"in", "rb", "out"} : u.is[z] = s.is[z]
  BY <1>2, <1>5, <1>7, <1>8 DEF KeptStreams
<1>10. Sound(u) /\ KeptList(s, u)
  <2>1. u.tripped = FALSE BY <1>5, <1>7 DEF Sound, ListInv
  <2>2. u.pair = t.pair /\ u.os \in [Streams -> BOOLEAN] BY <1>2, <1>7, <1>9
  <2>3. ListInv(u) /\ KeptList(t, u) BY <1>5, <1>7, <1>9, <2>1, <2>2, ListStays DEF Sound
  <2>4. DataInv(u) BY <1>5, <1>7 DEF Sound, DataInv, KeptHandler, KeptTimers
  <2> QED BY <1>5, <2>3, <2>4 DEF Sound, KeptList
<1>11. /\ Sound(v) /\ Kept(u, v) /\ KeptTimers(u, v) /\ v.is = u.is /\ v.os = s.os
       /\ (v.pair = s.pair \/ v.pair = s.pair \cup {"cb"})
       /\ \A f : InLoop(v, f) <=> \/ InLoop(s, f)
                                  \/ f = "cb" /\ "cb" \in v.pair /\ u.is["cb"] /\ s.os["cb"]
  <2>1. CASE src.content
    <3> DEFINE p == nxe_connect_streams(u, "cb")
    <3>1. "cb" \notin u.pair BY <1>3, <1>9
    <3>2. /\ Sound(p) /\ Kept(u, p) /\ KeptTimers(u, p) /\ p.is = u.is /\ p.os = u.os
          /\ p.pair = u.pair \cup {"cb"}
          /\ \A f : InLoop(p, f) <=> InLoop(u, f) \/ (f = "cb" /\ u.is["cb"] /\ u.os["cb"])
      BY <1>2, <1>10, <3>1, StreamsConnected
    <3>3. v = p BY <2>1
    <3> HIDE DEF v, p
    <3>4. p.pair = s.pair \cup {"cb"} /\ p.os = s.os BY <1>9, <3>2
    <3>5. \A f : InLoop(p, f) <=> InLoop(s, f) \/ (f = "cb" /\ u.is["cb"] /\ s.os["cb"])
      BY <1>9, <1>10, <3>2 DEF KeptList
    <3> QED BY <3>2, <3>3, <3>4, <3>5
  <2>2. CASE ~ src.content
    <3>1. v = u BY <2>2
    <3> HIDE DEF v
    <3>2. Kept(u, v) /\ KeptTimers(u, v) BY <3>1 DEF Kept, KeptHandler, KeptData, KeptOthers, KeptTimers
    <3> QED BY <1>3, <1>9, <1>10, <3>1, <3>2 DEF KeptList
  <2> QED BY <2>1, <2>2
<1> HIDE DEF v
<1>12. /\ Sound(w) /\ Kept(v, w) /\ KeptTimers(v, w) /\ w.os = s.os /\ w.pair = v.pair
       /\ (\A z \in {"in", "rb", "cb"} : w.is[z] = u.is[z])
       /\ (\A f : InLoop(v, f) => InLoop(w, f))
       /\ (\A f : InLoop(w, f) => InLoop(v, f) \/ f = "out")
       /\ (w.is["out"] /\ s.os["out"] /\ "out" \in w.pair => s.is["out"] \/ InLoop(w, "out"))
  <2>1. CASE s.continue
    <3>1. w = v BY <2>1
    <3> HIDE DEF w
    <3>2. Kept(v, w) /\ KeptTimers(v, w) BY <3>1 DEF Kept, KeptHandler, KeptData, KeptOthers, KeptTimers
    <3> QED BY <1>9, <1>11, <3>1, <3>2
  <2>2. CASE ~ s.continue
    <3> DEFINE p == nxe_istream_set_ready(v, "out")
    <3>1. w = p BY <2>2
    <3>2. /\ Sound(p) /\ Kept(v, p) /\ KeptTimers(v, p) /\ p.pair = v.pair /\ p.os = v.os
          /\ p.is = [v.is EXCEPT !["out"] = TRUE]
          /\ \A f : InLoop(p, f) <=> InLoop(v, f) \/ (f = "out" /\ ~ v.is["out"] /\ v.os["out"] /\ "out" \in v.pair)
      BY <1>2, <1>11, InputSet
    <3> HIDE DEF w, p
    <3>3. \A z \in {"in", "rb", "cb"} : p.is[z] = u.is[z]
      <4>1. p.is = [u.is EXCEPT !["out"] = TRUE] BY <1>11, <3>2
      <4> QED BY <1>2, <1>9, <4>1
    <3>4. v.is["out"] = s.is["out"] /\ v.os = s.os /\ p.os = s.os BY <1>9, <1>11, <3>2
    <3>5. s.os["out"] /\ "out" \in p.pair => s.is["out"] \/ InLoop(p, "out") BY <1>2, <3>2, <3>4
    <3> QED BY <3>1, <3>2, <3>3, <3>4, <3>5
  <2> QED BY <2>1, <2>2
<1> HIDE DEF w
<1>13. /\ DOMAIN y = Fields /\ y.events = w.events /\ y.tripped = w.tripped
       /\ y.state = "SENDING_HEADERS" /\ KeptTimers(w, y) /\ KeptStreams(w, y) /\ KeptData(w, y)
       /\ y.nxb = w.nxb /\ y.req = w.req /\ y.sink = w.sink /\ y.handler = w.handler
       /\ y.continue = w.continue /\ y.in_worker = w.in_worker /\ y.closing = w.closing
       /\ y.freed = w.freed
  <2>1. DOMAIN w = Fields BY <1>12 DEF Sound, ListInv
  <2> QED BY <2>1 DEF Fields, KeptTimers, KeptStreams, KeptData
<1> HIDE DEF y
<1>14. Sound(y) /\ KeptList(w, y)
  <2>1. /\ y.tripped = FALSE /\ y.pair = w.pair /\ y.is \in [Streams -> BOOLEAN]
        /\ y.os \in [Streams -> BOOLEAN]
    BY <1>12, <1>13 DEF Sound, ListInv, KeptStreams
  <2>2. ListInv(y) /\ KeptList(w, y) BY <1>12, <1>13, <2>1, ListStays DEF Sound
  <2>3. DataInv(y) BY <1>12, <1>13 DEF Sound, DataInv, KeptTimers, KeptData, States, Sending
  <2> QED BY <2>2, <2>3 DEF Sound
<1>15. y.timers = s.timers \ {"read"}
  BY <1>5, <1>7, <1>11, <1>12, <1>13 DEF KeptTimers
<1>16. Sound(r) /\ Kept(y, r) /\ KeptStreams(y, r) /\ KeptList(y, r) /\ r.timers = y.timers \cup {"write"}
  BY <1>2, <1>3, <1>14, <1>15, TimerSet
<1> HIDE DEF r
<1>17. /\ r.state = "SENDING_HEADERS" /\ r.nxb = s.nxb /\ r.req = s.req /\ r.sink = s.sink
       /\ r.handler = s.handler /\ r.continue = s.continue /\ r.in_worker = s.in_worker
       /\ r.closing = s.closing /\ r.freed = s.freed
  BY <1>5, <1>7, <1>11, <1>12, <1>13, <1>16 DEF Kept, KeptHandler
<1>18. r.timers \subseteq (s.timers \ {"read"}) \cup {"write"} /\ "write" \in r.timers BY <1>15, <1>16
<1>19. /\ r.os = s.os /\ (r.pair = s.pair \/ r.pair = s.pair \cup {"cb"})
       /\ (\A z \in {"in", "rb"} : r.is[z] = s.is[z]) /\ r.is["cb"] = u.is["cb"] /\ r.is["out"] = w.is["out"]
  BY <1>9, <1>11, <1>12, <1>13, <1>16 DEF KeptStreams
<1>20. /\ \A f : InLoop(s, f) => InLoop(r, f)
       /\ \A f : InLoop(r, f) => InLoop(s, f) \/ f \in {"cb", "out"}
  BY <1>11, <1>12, <1>14, <1>16 DEF KeptList
<1>21. Flowing(r, "cb") => InLoop(r, "cb")
  BY <1>11, <1>12, <1>13, <1>14, <1>16, <1>19 DEF Flowing, KeptList, KeptStreams
<1>22. Flowing(r, "out") => s.is["out"] \/ InLoop(r, "out")
  BY <1>12, <1>13, <1>14, <1>16, <1>19 DEF Flowing, KeptList, KeptStreams
<1>23. Flowing(s, "out") => InLoop(s, "out") BY <1>2 DEF Connected, Woken
<1>24. Streams = {"in", "out", "cb", "rb"} BY DEF Streams
<1>25. Woken(r, x)
  <2>1. "out" \in r.pair => "out" \in s.pair BY <1>19
  <2>2. Flowing(r, "out") => InLoop(r, "out") BY <1>19, <1>20, <1>22, <1>23, <2>1 DEF Flowing
  <2>3. \A z \in {"in", "rb"} : Flowing(r, z) => Flowing(s, z) BY <1>19 DEF Flowing
  <2> QED BY <1>20, <1>21, <1>24, <2>2, <2>3 DEF Connected, Woken
<1>26. MessagesInv(r) BY <1>3, <1>17, <1>20 DEF MayRespond, Connected, MessagesInv, Sending
<1>27. HandlerInv(r) BY <1>3, <1>17, <1>19 DEF MayRespond, Connected, HandlerInv, Sending
<1>28. TimersFit(r) BY <1>3, <1>17, <1>18, <1>20 DEF TimersFit, Sending
<1>29. OutputInv(r) BY <1>17 DEF OutputInv, Sending
<1>30. Connected(r, x)
  BY <1>16, <1>17, <1>20, <1>24, <1>25, <1>26, <1>27, <1>28, <1>29 DEF Connected, Sound
<1>31. Attended(r) BY <1>17, <1>18 DEF Attended, Sending
<1> QED BY <1>1, <1>30, <1>31

-----------------------------------------------------------------------------
(* A round of the input's stream.                                          *)

(* The connection as it was, but for data, the headers' fields and the     *)
(* response's: the request is that of the headers.                         *)
LEMMA HeadersChange ==
  ASSUME NEW s, NEW x, Connected(s, x), NEW t, DOMAIN t = Fields, t.events = s.events,
         t.tripped = s.tripped, KeptTimers(s, t), KeptStreams(s, t), DataInv(t),
         ~ InLoop(s, "received"), t.state = s.state, t.nxb = s.nxb, t.sink = s.sink,
         t.handler = s.handler, t.in_worker = s.in_worker, t.closing = s.closing,
         t.freed = s.freed, s.continue => t.continue
  PROVE  Connected(t, x) /\ (Attended(s) => Attended(t)) /\ KeptList(s, t)
<1>1. \A f : InLoop(t, f) <=> InLoop(s, f) BY DEF InLoop
<1>2. ListInv(t) BY DEF Connected, ListInv, KeptStreams
<1>3. Woken(t, x) BY <1>1 DEF Connected, Woken, Flowing, KeptStreams
<1>4. MessagesInv(t) BY <1>1 DEF Connected, MessagesInv, KeptStreams
<1>5. HandlerInv(t) BY DEF Connected, HandlerInv, KeptStreams
<1>6. TimersFit(t) BY <1>1 DEF Connected, TimersFit, KeptTimers
<1>7. OutputInv(t) BY <1>1 DEF Connected, OutputInv, KeptStreams
<1>8. Connected(t, x) BY <1>1, <1>2, <1>3, <1>4, <1>5, <1>6, <1>7 DEF Connected
<1>9. Attended(s) => Attended(t) BY <1>1 DEF Attended, Failing, KeptTimers
<1> QED BY <1>1, <1>8, <1>9 DEF KeptList

LEMMA BadRequestAnswered ==
  ASSUME NEW s, Connected(s, "in"), s.state = "RECEIVING_HEADERS"
  PROVE  Connected(BadRequest(s), "in") /\ Attended(BadRequest(s))
<1> DEFINE a == nxe_unset_timer(s, "read")
           t == nxe_ostream_unset_ready(a, "in")
           u == [t EXCEPT !.keep_alive = FALSE]
<1>1. "in" \in Streams /\ "read" \in Timers BY DEF Streams, Timers
<1>2. BadRequest(s) = start_sending_response(u, Buffer, TRUE) BY DEF BadRequest, SendError
<1>3. Connected(a, "in") /\ Kept(s, a) BY <1>1, UnsetTimer
<1> HIDE DEF a
<1>4. Connected(t, "in") /\ Kept(a, t) BY <1>1, <1>3, UnsetOutput
<1> HIDE DEF t
<1>5. /\ DOMAIN u = Fields /\ u.events = t.events /\ u.tripped = t.tripped /\ KeptHandler(t, u)
      /\ KeptTimers(t, u) /\ KeptStreams(t, u) /\ KeptData(t, u)
  <2>1. DOMAIN t = Fields BY <1>4 DEF Connected, ListInv
  <2> QED BY <2>1 DEF Fields, KeptHandler, KeptTimers, KeptStreams, KeptData
<1> HIDE DEF u
<1>6. Connected(u, "in")
  <2>1. DataInv(u) BY <1>4, <1>5 DEF Connected, DataInv, KeptHandler, KeptTimers, KeptData
  <2> QED BY <1>4, <1>5, <2>1, DataChanges
<1>7. u.state = "RECEIVING_HEADERS" BY <1>3, <1>4, <1>5 DEF Kept, KeptHandler
<1>8. MayRespond(u)
  BY <1>6, <1>7 DEF MayRespond, Connected, MessagesInv, HandlerInv, Sending
<1>9. Buffer.ready \in Nat BY DEF Buffer
<1> QED BY <1>2, <1>6, <1>8, <1>9, Responds

(* The headers are complete.                                               *)
LEMMA RequestIsReceived ==
  ASSUME NEW s, Connected(s, "in"), Attended(s), s.state = "RECEIVING_HEADERS",
         NEW h \in Seq(Pieces), NEW p \in 1 .. Len(h)
  PROVE  Connected(RequestReceived(s, h, p), "in") /\ Attended(RequestReceived(s, h, p))
<1> DEFINE req == [size |-> h[p].size, kind |-> h[p].kind]
           chunk == Len(h) - p
           alive == h[p].kind # "close"
           t == [s EXCEPT !.req = [size |-> h[p].size, kind |-> h[p].kind], !.chunk = Len(h) - p,
                          !.keep_alive = h[p].kind # "close"]
           a == [t EXCEPT !.continue = TRUE]
           b == nxe_istream_set_ready(a, "out")
           u == IF t.chunk = 0 /\ h[p].kind = "expect" THEN b ELSE t
           d == nxe_ostream_unset_ready(u, "in")
           v == nxe_publish(d, "received")
           e == [v EXCEPT !.state = "RECEIVING_BODY"]
           g == [v EXCEPT !.state = "HANDLING"]
           r == IF HasBody(v) THEN nxe_istream_set_ready(e, "rb") ELSE nxe_unset_timer(g, "read")
<1>1. RequestReceived(s, h, p) = r BY DEF RequestReceived
<1>2. /\ "in" \in Streams /\ "rb" \in Streams /\ "out" \in Streams /\ "cb" \in Streams
      /\ "read" \in Timers
  BY DEF Streams, Timers
<1>3. req.size \in Nat /\ chunk \in Nat
  <2>1. h[p] \in Pieces /\ Len(h) \in Nat BY ElementOfSeq, LenProperties
  <2> QED BY <2>1 DEF Pieces
<1>4. /\ ~ InLoop(s, "received") /\ ~ InLoop(s, "body") /\ ~ InLoop(s, "complete")
      /\ s.handler = "none" /\ s.sink = "none" /\ ~ s.in_worker /\ "cb" \notin s.pair
      /\ (Failing(s) \/ "read" \in s.timers)
  BY DEF Connected, MessagesInv, HandlerInv, Attended, Sending, Receiving
<1>5. DOMAIN s = Fields /\ DataInv(s) BY DEF Connected, ListInv
<1>6. /\ DOMAIN t = Fields /\ t.events = s.events /\ t.tripped = s.tripped
      /\ KeptTimers(s, t) /\ KeptStreams(s, t) /\ t.state = s.state /\ t.nxb = s.nxb
      /\ t.sink = s.sink /\ t.handler = s.handler /\ t.in_worker = s.in_worker
      /\ t.closing = s.closing /\ t.freed = s.freed /\ t.continue = s.continue
      /\ t.req = req /\ t.chunk = chunk /\ t.wire = s.wire /\ t.room = s.room /\ t.head = s.head
      /\ t.received = s.received /\ t.stored = s.stored /\ t.avail = s.avail
  BY <1>5 DEF Fields, KeptTimers, KeptStreams
<1> HIDE DEF t, req, chunk
<1>7. DataInv(t) BY <1>3, <1>5, <1>6 DEF DataInv, KeptTimers
<1>8. Connected(t, "in") /\ Attended(t) /\ KeptList(s, t) BY <1>4, <1>6, <1>7, HeadersChange
<1>9. /\ Connected(u, "in") /\ u.state = s.state /\ u.handler = s.handler /\ u.sink = s.sink
      /\ u.timers = s.timers /\ \A f \in Messages : InLoop(u, f) <=> InLoop(s, f)
  <2>1. CASE t.chunk = 0 /\ h[p].kind = "expect"
    <3>1. u = b BY <2>1
    <3>2. /\ DOMAIN a = Fields /\ a.events = t.events /\ a.tripped = t.tripped
          /\ KeptTimers(t, a) /\ KeptStreams(t, a) /\ KeptData(t, a) /\ a.state = t.state /\ a.nxb = t.nxb
          /\ a.sink = t.sink /\ a.handler = t.handler /\ a.in_worker = t.in_worker
          /\ a.closing = t.closing /\ a.freed = t.freed /\ a.continue = TRUE /\ a.req = t.req
      BY <1>6 DEF Fields, KeptTimers, KeptStreams, KeptData
    <3> HIDE DEF a, u
    <3>3. DataInv(a) BY <1>7, <3>2 DEF DataInv, KeptTimers, KeptData
    <3>4. ~ InLoop(t, "received") BY <1>4, <1>8 DEF KeptList
    <3>5. Connected(a, "in") /\ KeptList(t, a) BY <1>8, <3>2, <3>3, <3>4, HeadersChange
    <3>6. /\ Connected(b, "in") /\ Kept(a, b) /\ KeptTimers(a, b)
          /\ \A f : InLoop(b, f) <=> \/ InLoop(a, f)
                                     \/ f = "out" /\ ~ a.is["out"] /\ a.os["out"] /\ "out" \in a.pair
      <4>1. "out" = "in" => a.is["out"] \/ ~ a.os["out"] \/ "out" \notin a.pair OBVIOUS
      <4>2. a.state = "RECEIVING_HEADERS" /\ ~ InLoop(a, "complete") /\ a.continue
        BY <1>4, <1>6, <1>8, <3>2, <3>5 DEF KeptList
      <4>3. "out" = "out" => /\ ~ InLoop(a, "complete") /\ (a.continue \/ a.state \in Sending)
                             /\ ~ (a.state = "SENDING_BODY" /\ "cb" \in a.pair /\ a.os["cb"])
        BY <4>2
      <4> QED BY <1>2, <3>5, <4>1, <4>3, SetInput
    <3> HIDE DEF b
    <3>7. "out" \notin Messages BY DEF Messages
    <3>8. \A f \in Messages : InLoop(b, f) <=> InLoop(s, f) BY <1>8, <3>5, <3>6, <3>7 DEF KeptList
    <3>9. b.state = s.state /\ b.handler = s.handler /\ b.sink = s.sink /\ b.timers = s.timers
      BY <1>6, <3>2, <3>6 DEF Kept, KeptHandler, KeptTimers
    <3> QED BY <3>1, <3>6, <3>8, <3>9
  <2>2. CASE ~ (t.chunk = 0 /\ h[p].kind = "expect")
    <3>1. u = t BY <2>2
    <3> QED BY <1>6, <1>8, <3>1 DEF KeptTimers, KeptList
  <2> QED BY <2>1, <2>2
<1> HIDE DEF u
<1>10. /\ Connected(d, "in") /\ Kept(u, d) /\ KeptTimers(u, d) /\ KeptList(u, d)
  BY <1>2, <1>9, UnsetOutput
<1> HIDE DEF d
<1>11. {"received", "body", "complete", "error", "data_error"} \subseteq Messages BY DEF Messages
<1>12. /\ d.state = "RECEIVING_HEADERS" /\ d.handler = "none" /\ d.sink = "none" /\ d.timers = s.timers
       /\ \A f \in Messages : InLoop(d, f) <=> InLoop(s, f)
  BY <1>4, <1>9, <1>10 DEF Kept, KeptHandler, KeptTimers, KeptList
<1>13. /\ Sound(v) /\ Kept(d, v) /\ KeptTimers(d, v) /\ KeptStreams(d, v)
       /\ \A f : InLoop(v, f) <=> InLoop(d, f) \/ f = "received"
  <2>1. Sound(d) BY <1>10 DEF Connected, Sound
  <2>2. \A f \in DOMAIN Rank : InLoop(d, f) => Rank[f] < Rank["received"]
    BY <1>4, <1>11, <1>12, RankIs
  <2> QED BY <1>11, <2>1, <2>2, MessagePublished
<1> HIDE DEF v
<1>14. /\ ~ InLoop(v, "body") /\ ~ InLoop(v, "complete") /\ InLoop(v, "received")
       /\ (Failing(v) \/ "read" \in v.timers) /\ v.handler = "none" /\ v.sink = "none"
       /\ v.state = "RECEIVING_HEADERS"
  BY <1>4, <1>11, <1>12, <1>13 DEF Failing, Kept, KeptHandler, KeptTimers
<1>15. \A f \in Streams : InLoop(v, f) <=> InLoop(d, f) BY <1>13 DEF Streams
<1>16. ~ v.in_worker /\ ~ v.closing /\ "cb" \notin v.pair /\ v.nxb /\ (v.is["out"] => v.continue)
       /\ "write" \notin v.timers /\ "keep_alive" \notin v.timers /\ v.freed = FALSE /\ ~ InLoop(v, "in")
       /\ "rb" \notin v.pair
  BY <1>2, <1>10, <1>12, <1>13, <1>15
     DEF Connected, HandlerInv, OutputInv, TimersFit, Sending, Kept, KeptHandler, KeptTimers, KeptStreams
<1>17. Woken(v, "in") BY <1>10, <1>13 DEF Connected, Woken, Flowing, KeptStreams
<1>18. ASSUME NEW q, NEW state, state \in {"RECEIVING_BODY", "HANDLING"},
              q = [v EXCEPT !.state = state]
       PROVE  /\ Sound(q) /\ KeptList(v, q) /\ q.state = state /\ KeptTimers(v, q) /\ KeptStreams(v, q)
              /\ q.nxb = v.nxb /\ q.req = v.req /\ q.sink = v.sink /\ q.handler = v.handler
              /\ q.continue = v.continue /\ q.in_worker = v.in_worker /\ q.closing = v.closing
              /\ q.freed = v.freed
  <2>1. DOMAIN v = Fields BY <1>13 DEF Sound, ListInv
  <2>2. /\ DOMAIN q = Fields /\ q.events = v.events /\ q.tripped = v.tripped
        /\ q.state = state /\ KeptTimers(v, q) /\ KeptStreams(v, q) /\ KeptData(v, q)
        /\ q.nxb = v.nxb /\ q.req = v.req /\ q.sink = v.sink /\ q.handler = v.handler
        /\ q.continue = v.continue /\ q.in_worker = v.in_worker /\ q.closing = v.closing
        /\ q.freed = v.freed
    BY <1>18, <2>1 DEF Fields, KeptTimers, KeptStreams, KeptData
  <2>3. /\ q.tripped = FALSE /\ q.pair = v.pair /\ q.is \in [Streams -> BOOLEAN]
        /\ q.os \in [Streams -> BOOLEAN]
    BY <1>13, <2>2 DEF Sound, ListInv, KeptStreams
  <2>4. ListInv(q) /\ KeptList(v, q) BY <1>13, <2>2, <2>3, ListStays DEF Sound
  <2>5. DataInv(q) BY <1>13, <1>18, <2>2 DEF Sound, DataInv, KeptTimers, KeptData, States
  <2> QED BY <2>2, <2>4, <2>5 DEF Sound
<1>19. CASE HasBody(v)
  <2>1. /\ Sound(e) /\ KeptList(v, e) /\ e.state = "RECEIVING_BODY" /\ KeptTimers(v, e)
        /\ KeptStreams(v, e) /\ e.nxb = v.nxb /\ e.req = v.req /\ e.sink = v.sink
        /\ e.handler = v.handler /\ e.continue = v.continue /\ e.in_worker = v.in_worker
        /\ e.closing = v.closing /\ e.freed = v.freed
    BY <1>18
  <2>2. r = nxe_istream_set_ready(e, "rb") BY <1>19
  <2> HIDE DEF e, r
  <2>3. Woken(e, "in") BY <1>17, <2>1 DEF Woken, Flowing, KeptStreams, KeptList
  <2>4. MessagesInv(e) BY <1>14, <1>19, <2>1 DEF MessagesInv, KeptList, HasBody
  <2>5. HandlerInv(e) BY <1>14, <1>16, <2>1 DEF HandlerInv, KeptStreams
  <2>6. TimersFit(e) BY <1>16, <2>1 DEF TimersFit, KeptTimers, Receiving
  <2>7. OutputInv(e) BY <1>16, <2>1 DEF OutputInv, KeptStreams
  <2>8. Connected(e, "in")
    BY <1>16, <2>1, <2>3, <2>4, <2>5, <2>6, <2>7 DEF Connected, Sound, KeptList
  <2>9. Failing(e) \/ "read" \in e.timers BY <1>14, <2>1 DEF Failing, KeptList, KeptTimers
  <2>10. Attended(e) BY <2>1, <2>9 DEF Attended, Receiving
  <2> DEFINE z == nxe_istream_set_ready(e, "rb")
  <2>11. /\ Connected(z, "in") /\ Kept(e, z) /\ KeptTimers(e, z)
         /\ \A f : InLoop(z, f) <=> \/ InLoop(e, f)
                                    \/ f = "rb" /\ ~ e.is["rb"] /\ e.os["rb"] /\ "rb" \in e.pair
    <3>1. "rb" = "in" => e.is["rb"] \/ ~ e.os["rb"] \/ "rb" \notin e.pair OBVIOUS
    <3>2. "rb" = "out" => /\ ~ InLoop(e, "complete") /\ (e.continue \/ e.state \in Sending)
                          /\ ~ (e.state = "SENDING_BODY" /\ "cb" \in e.pair /\ e.os["cb"])
      OBVIOUS
    <3> QED BY <1>2, <2>8, <3>1, <3>2, SetInput
  <2> HIDE DEF z
  <2>12. KeptHandler(e, z) /\ e.timers \subseteq z.timers /\ \A f : InLoop(e, f) => InLoop(z, f)
    BY <2>11 DEF Kept, KeptTimers
  <2>13. Attended(z) BY <2>10, <2>12, AttendedStays
  <2> QED BY <1>1, <2>2, <2>11, <2>13 DEF z
<1>20. CASE ~ HasBody(v)
  <2>1. /\ Sound(g) /\ KeptList(v, g) /\ g.state = "HANDLING" /\ KeptTimers(v, g)
        /\ KeptStreams(v, g) /\ g.nxb = v.nxb /\ g.req = v.req /\ g.sink = v.sink
        /\ g.handler = v.handler /\ g.continue = v.continue /\ g.in_worker = v.in_worker
        /\ g.closing = v.closing /\ g.freed = v.freed
    BY <1>18
  <2> DEFINE z == nxe_unset_timer(g, "read")
  <2>2. r = z BY <1>20
  <2> HIDE DEF g, r
  <2>3. /\ Sound(z) /\ Kept(g, z) /\ KeptStreams(g, z) /\ KeptList(g, z)
        /\ z.timers = g.timers \ {"read"}
    BY <1>2, <2>1, TimerUnset
  <2> HIDE DEF z
  <2>4. /\ z.state = "HANDLING" /\ z.nxb = v.nxb /\ z.req = v.req /\ z.sink = v.sink
        /\ z.handler = v.handler /\ z.continue = v.continue /\ z.in_worker = v.in_worker
        /\ z.closing = v.closing /\ z.freed = v.freed /\ z.is = v.is /\ z.os = v.os /\ z.pair = v.pair
        /\ z.timers = v.timers \ {"read"} /\ \A f : InLoop(z, f) <=> InLoop(v, f)
    BY <2>1, <2>3 DEF Kept, KeptHandler, KeptStreams, KeptTimers, KeptList
  <2>5. Woken(z, "in") BY <1>17, <2>4 DEF Woken, Flowing
  <2>6. MessagesInv(z) BY <1>14, <1>20, <2>4 DEF MessagesInv, HasBody
  <2>7. HandlerInv(z) BY <1>14, <1>16, <2>4 DEF HandlerInv
  <2>8. TimersFit(z) BY <1>16, <2>4 DEF TimersFit
  <2>9. OutputInv(z) BY <1>16, <2>4 DEF OutputInv
  <2>10. Connected(z, "in")
    BY <1>16, <2>3, <2>4, <2>5, <2>6, <2>7, <2>8, <2>9 DEF Connected, Sound
  <2>11. Attended(z) BY <1>14, <2>4 DEF Attended
  <2> QED BY <1>1, <2>2, <2>10, <2>11
<1> QED BY <1>19, <1>20

LEMMA HeadersRead ==
  ASSUME NEW s, Connected(s, "in"), Attended(s), s.state = "RECEIVING_HEADERS"
  PROVE  Connected(ReadHeaders(s), "in") /\ Attended(ReadHeaders(s))
<1> DEFINE size == MaxHeaders - Len(s.head)
           t == sock_data_recv_read(s, MaxHeaders - Len(s.head))
           n == Len(s.wire) - Len(t.wire)
           h == s.head \o SubSeq(s.wire, 1, n)
           u == [t EXCEPT !.head = h]
           ends == {i \in 1 .. Len(h) : h[i].piece = "last"}
           p == CHOOSE i \in ends : \A j \in ends : i <= j
           r == ReadHeaders(s)
<1>1. r = CASE n = 0 -> t
            [] n > 0 /\ ends = {} -> IF Len(h) >= MaxHeaders THEN BadRequest(u) ELSE u
            [] n > 0 /\ ends # {} ->
                 IF h[p].kind = "malformed" \/ h[1].piece # "first"
                 THEN BadRequest(u) ELSE RequestReceived(u, h, p)
  BY DEF ReadHeaders
<1>2. /\ s.head \in Seq(Pieces) /\ Len(s.head) <= MaxHeaders /\ s.wire \in Seq(Pieces)
      /\ Len(s.head) \in Nat /\ Len(s.wire) \in Nat
  BY LenProperties DEF Connected, DataInv
<1>3. size \in Nat BY <1>2, ProtoAssumption
<1>4. /\ Connected(t, "in") /\ Attended(t) /\ KeptHandler(s, t)
      /\ n \in 0 .. size /\ n <= Len(s.wire)
  BY <1>3, Receive
<1> HIDE DEF t, n
<1>5. n \in Nat /\ n <= size BY <1>3, <1>4
<1>6. h \in Seq(Pieces) /\ Len(h) = Len(s.head) + n /\ Len(h) \in Nat /\ Len(h) <= MaxHeaders
  <2>1. SubSeq(s.wire, 1, n) \in Seq(Pieces) /\ Len(SubSeq(s.wire, 1, n)) = n
    BY <1>2, <1>4, <1>5, SubSeqKeeps
  <2> DEFINE q == SubSeq(s.wire, 1, n)
  <2> HIDE DEF q
  <2>2. q \in Seq(Pieces) /\ Len(q) = n BY <2>1 DEF q
  <2>3. s.head \o q \in Seq(Pieces) /\ Len(s.head \o q) = Len(s.head) + Len(q)
    BY <1>2, <2>2, ConcatProperties
  <2>4. h = s.head \o q BY DEF q
  <2> HIDE DEF h
  <2> QED BY <1>2, <1>5, <2>2, <2>3, <2>4, ProtoAssumption
<1> HIDE DEF h
<1>7. /\ DOMAIN u = Fields /\ u.events = t.events /\ u.tripped = t.tripped /\ KeptHandler(t, u)
      /\ KeptTimers(t, u) /\ KeptStreams(t, u) /\ u.head = h
      /\ u.wire = t.wire /\ u.room = t.room /\ u.chunk = t.chunk
      /\ u.received = t.received /\ u.stored = t.stored /\ u.avail = t.avail
  <2>1. DOMAIN t = Fields BY <1>4 DEF Connected, ListInv
  <2> QED BY <2>1 DEF Fields, KeptHandler, KeptTimers, KeptStreams
<1> HIDE DEF u
<1>8. Connected(u, "in") /\ Attended(u)
  <2>1. DataInv(u) BY <1>4, <1>6, <1>7 DEF Connected, DataInv, KeptHandler, KeptTimers
  <2> QED BY <1>4, <1>7, <2>1, DataChanges
<1>9. u.state = "RECEIVING_HEADERS" BY <1>4, <1>7 DEF KeptHandler
<1>10. CASE n = 0 BY <1>1, <1>4, <1>10
<1>11. CASE n > 0 /\ ends = {}
  <2>1. r = IF Len(h) >= MaxHeaders THEN BadRequest(u) ELSE u BY <1>1, <1>11
  <2> QED BY <1>8, <1>9, <2>1, BadRequestAnswered
<1>12. CASE n > 0 /\ ends # {}
  <2>1. r = IF h[p].kind = "malformed" \/ h[1].piece # "first"
            THEN BadRequest(u) ELSE RequestReceived(u, h, p)
    BY <1>1, <1>12
  <2>2. p \in ends
    <3>1. ends \in SUBSET (1 .. Len(h)) OBVIOUS
    <3> HIDE DEF ends
    <3>2. \E i \in ends : \A j \in ends : i <= j BY <1>6, <1>12, <3>1, FirstPlace
    <3> QED BY <3>2
  <2>3. p \in 1 .. Len(h) BY <2>2
  <2> HIDE DEF p
  <2>4. Connected(BadRequest(u), "in") /\ Attended(BadRequest(u)) BY <1>8, <1>9, BadRequestAnswered
  <2>5. Connected(RequestReceived(u, h, p), "in") /\ Attended(RequestReceived(u, h, p))
    BY <1>6, <1>8, <1>9, <2>3, RequestIsReceived
  <2> QED BY <2>1, <2>4, <2>5
<1> QED BY <1>5, <1>10, <1>11, <1>12

LEMMA RequestBegins ==
  ASSUME NEW s, Connected(s, "in"), s.state = "WAITING_FOR_REQUEST"
  PROVE  LET t == BeginRequest(s)
         IN  Connected(t, "in") /\ Attended(t) /\ t.state = "RECEIVING_HEADERS"
<1> DEFINE a == [s EXCEPT !.nxb = TRUE, !.tripped = @ \/ s.nxb, !.state = "RECEIVING_HEADERS"]
           b == nxe_unset_timer(a, "keep_alive")
           t == nxe_set_timer(b, "read")
<1>1. BeginRequest(s) = t BY DEF BeginRequest
<1>2. /\ Sound(s) /\ s.tripped = FALSE /\ DOMAIN s = Fields
      /\ s.is \in [Streams -> BOOLEAN] /\ s.os \in [Streams -> BOOLEAN]
      /\ "keep_alive" \in Timers /\ "read" \in Timers
  BY DEF Connected, Sound, ListInv, Timers
<1>3. /\ ~ s.nxb /\ ~ s.in_worker /\ ~ s.closing /\ s.handler = "none" /\ s.sink = "none"
      /\ "cb" \notin s.pair /\ "rb" \notin s.pair
      /\ ~ InLoop(s, "received") /\ ~ InLoop(s, "body") /\ ~ InLoop(s, "complete")
      /\ "read" \notin s.timers /\ "write" \notin s.timers /\ (s.is["out"] => s.continue)
  BY DEF Connected, HandlerInv, MessagesInv, TimersFit, OutputInv, Sending, Receiving
<1>4. /\ DOMAIN a = Fields /\ a.events = s.events /\ a.tripped = FALSE
      /\ KeptTimers(s, a) /\ KeptStreams(s, a) /\ KeptData(s, a)
      /\ a.state = "RECEIVING_HEADERS" /\ a.nxb = TRUE /\ a.req = s.req /\ a.sink = s.sink
      /\ a.handler = s.handler /\ a.continue = s.continue /\ a.in_worker = s.in_worker
      /\ a.closing = s.closing /\ a.freed = s.freed
  BY <1>2, <1>3 DEF Fields, KeptTimers, KeptStreams, KeptData
<1> HIDE DEF a
<1>5. Sound(a) /\ KeptList(s, a)
  <2>1. a.pair = s.pair /\ a.is \in [Streams -> BOOLEAN] /\ a.os \in [Streams -> BOOLEAN]
    BY <1>2, <1>4 DEF KeptStreams
  <2>2. ListInv(a) /\ KeptList(s, a) BY <1>2, <1>4, <2>1, ListStays DEF Sound
  <2>3. DataInv(a) BY <1>2, <1>4 DEF Sound, DataInv, KeptTimers, KeptData, States
  <2> QED BY <2>2, <2>3 DEF Sound
<1>6. Sound(b) /\ Kept(a, b) /\ KeptStreams(a, b) /\ KeptList(a, b) /\ b.timers = a.timers \ {"keep_alive"}
  BY <1>2, <1>5, TimerUnset
<1> HIDE DEF b
<1>7. "read" \notin b.timers BY <1>3, <1>4, <1>6 DEF KeptTimers
<1>8. Sound(t) /\ Kept(b, t) /\ KeptStreams(b, t) /\ KeptList(b, t) /\ t.timers = b.timers \cup {"read"}
  BY <1>2, <1>6, <1>7, TimerSet
<1> HIDE DEF t
<1>9. /\ t.state = "RECEIVING_HEADERS" /\ t.nxb = TRUE /\ t.req = s.req /\ t.sink = s.sink
      /\ t.handler = s.handler /\ t.continue = s.continue /\ t.in_worker = s.in_worker
      /\ t.closing = s.closing /\ t.freed = s.freed /\ t.is = s.is /\ t.os = s.os /\ t.pair = s.pair
      /\ t.timers = (s.timers \ {"keep_alive"}) \cup {"read"}
  BY <1>4, <1>6, <1>8 DEF Kept, KeptHandler, KeptStreams, KeptTimers
<1>10. \A f : InLoop(t, f) <=> InLoop(s, f) BY <1>5, <1>6, <1>8 DEF KeptList
<1>11. Woken(t, "in") BY <1>9, <1>10 DEF Connected, Woken, Flowing
<1>12. MessagesInv(t) BY <1>3, <1>10 DEF MessagesInv
<1>13. HandlerInv(t) BY <1>3, <1>9 DEF HandlerInv
<1>14. TimersFit(t) BY <1>3, <1>9 DEF TimersFit, Receiving
<1>15. OutputInv(t) BY <1>3, <1>9 DEF OutputInv
<1>16. Connected(t, "in")
  BY <1>8, <1>9, <1>10, <1>11, <1>12, <1>13, <1>14, <1>15 DEF Connected, Sound
<1>17. Attended(t) BY <1>9 DEF Attended, Receiving
<1> QED BY <1>1, <1>9, <1>16, <1>17

LEMMA InputRound ==
  ASSUME NEW s, Connected(s, "in"), Attended(s), NEW full
  PROVE  LET r == data_in_do_read(s, full) IN Connected(r, "in") /\ Attended(r)
<1> DEFINE t == IF s.os["rb"] THEN sink_do_read(s, full) ELSE s
           a == nxe_ostream_unset_ready(t, "in")
           b == nxe_istream_set_ready(a, "rb")
           d == nxe_ostream_unset_ready(s, "in")
           r == data_in_do_read(s, full)
<1>1. r = CASE s.state = "WAITING_FOR_REQUEST" -> ReadHeaders(BeginRequest(s))
            [] s.state = "RECEIVING_HEADERS" -> ReadHeaders(s)
            [] s.state = "RECEIVING_BODY" /\ "rb" \in s.pair -> IF t.os["rb"] THEN t ELSE b
            [] s.state = "RECEIVING_BODY" /\ "rb" \notin s.pair -> d
            [] OTHER -> s
  BY DEF data_in_do_read
<1>2. "in" \in Streams /\ "rb" \in Streams BY DEF Streams
<1>3. CASE s.state = "WAITING_FOR_REQUEST"
  <2>1. r = ReadHeaders(BeginRequest(s)) BY <1>1, <1>3
  <2> QED BY <1>3, <2>1, RequestBegins, HeadersRead
<1>4. CASE s.state = "RECEIVING_HEADERS"
  <2>1. r = ReadHeaders(s) BY <1>1, <1>4
  <2> QED BY <1>4, <2>1, HeadersRead
<1>5. CASE s.state = "RECEIVING_BODY" /\ "rb" \in s.pair
  <2>1. r = IF t.os["rb"] THEN t ELSE b BY <1>1, <1>5
  <2>2. Connected(t, "in") /\ Attended(t)
    <3>1. Connected(sink_do_read(s, full), "in") /\ Attended(sink_do_read(s, full)) BY <1>5, SinkReads
    <3> QED BY <3>1
  <2> HIDE DEF t
  <2>3. Connected(a, "in") /\ Kept(t, a) /\ KeptTimers(t, a) /\ KeptList(t, a) BY <1>2, <2>2, UnsetOutput
  <2> HIDE DEF a
  <2>4. KeptHandler(t, a) /\ t.timers \subseteq a.timers /\ \A f : InLoop(t, f) => InLoop(a, f)
    BY <2>3 DEF Kept, KeptTimers, KeptList
  <2>5. Attended(a) BY <2>2, <2>4, AttendedStays
  <2>6. /\ Connected(b, "in") /\ Kept(a, b) /\ KeptTimers(a, b)
        /\ \A f : InLoop(b, f) <=> \/ InLoop(a, f)
                                   \/ f = "rb" /\ ~ a.is["rb"] /\ a.os["rb"] /\ "rb" \in a.pair
    <3>1. "rb" = "in" => a.is["rb"] \/ ~ a.os["rb"] \/ "rb" \notin a.pair OBVIOUS
    <3>2. "rb" = "out" => /\ ~ InLoop(a, "complete") /\ (a.continue \/ a.state \in Sending)
                          /\ ~ (a.state = "SENDING_BODY" /\ "cb" \in a.pair /\ a.os["cb"])
      OBVIOUS
    <3>3. Connected(a, "in") BY <2>3
    <3> QED BY <1>2, <3>1, <3>2, <3>3, SetInput
  <2> HIDE DEF b
  <2>7. KeptHandler(a, b) /\ a.timers \subseteq b.timers /\ \A f : InLoop(a, f) => InLoop(b, f)
    BY <2>6 DEF Kept, KeptTimers
  <2>8. Attended(b) BY <2>5, <2>7, AttendedStays
  <2> HIDE DEF r
  <2> QED BY <2>1, <2>2, <2>6, <2>8 DEF r
<1>6. CASE s.state = "RECEIVING_BODY" /\ "rb" \notin s.pair
  <2>1. r = d BY <1>1, <1>6
  <2>2. Connected(d, "in") /\ Kept(s, d) /\ KeptTimers(s, d) /\ KeptList(s, d) BY <1>2, UnsetOutput
  <2> HIDE DEF d
  <2>3. KeptHandler(s, d) /\ s.timers \subseteq d.timers /\ \A f : InLoop(s, f) => InLoop(d, f)
    BY <2>2 DEF Kept, KeptTimers, KeptList
  <2>4. Attended(d) BY <2>3, AttendedStays
  <2> QED BY <2>1, <2>2, <2>4
<1>7. CASE s.state \notin {"WAITING_FOR_REQUEST", "RECEIVING_HEADERS", "RECEIVING_BODY"}
  <2>1. r = s BY <1>1, <1>7
  <2> QED BY <2>1
<1> QED BY <1>3, <1>4, <1>5, <1>6, <1>7

-----------------------------------------------------------------------------
(* What the messages lead to.                                              *)

(* request_cleanup: the connection waits for the next request.             *)
LEMMA CleanedUp ==
  ASSUME NEW s, Connected(s, "none"), s.state \in Sending, ~ s.is["out"],
         "cb" \notin s.pair, "rb" \notin s.pair, "write" \notin s.timers,
         ~ InLoop(s, "received"), ~ InLoop(s, "body"), ~ InLoop(s, "complete")
  PROVE  Connected(request_cleanup(s), "none") /\ Attended(request_cleanup(s))
<1> DEFINE t == nxe_disconnect_streams(s, "cb")
           u == [t EXCEPT !.tripped = @ \/ ~ s.nxb, !.nxb = FALSE,
                          !.state = "WAITING_FOR_REQUEST", !.head = <<>>,
                          !.req = NoRequest, !.received = 0, !.sink = "none", !.stored = 0,
                          !.handler = "none", !.retry = 0, !.continue = FALSE,
                          !.has_body = FALSE, !.avail = 0, !.eof = FALSE, !.rest = 0]
           p == nxe_ostream_set_ready(u, "in")
           v == IF s.keep_alive THEN p ELSE u
           r == nxe_set_timer(v, "keep_alive")
<1>1. request_cleanup(s) = r BY DEF request_cleanup
<1>2. /\ Sound(s) /\ "cb" \in Streams /\ "in" \in Streams /\ "keep_alive" \in Timers
      /\ s.nxb /\ ~ s.in_worker /\ ~ s.closing /\ s.timers = {} /\ s.freed = FALSE
      /\ ~ InLoop(s, "cb")
  <2>1. /\ Sound(s) /\ "cb" \in Streams /\ "in" \in Streams /\ "keep_alive" \in Timers
        /\ s.nxb /\ ~ s.in_worker /\ ~ s.closing /\ s.freed = FALSE
    BY DEF Connected, Sound, HandlerInv, Streams, Timers, Sending
  <2>2. s.timers = {}
    BY DEF Connected, DataInv, TimersFit, Timers, Sending, Receiving
  <2>3. ~ InLoop(s, "cb") BY <2>1 DEF Connected, ListInv, InLoop
  <2> QED BY <2>1, <2>2, <2>3
<1>3. /\ Sound(t) /\ Kept(s, t) /\ KeptTimers(s, t) /\ t.is = s.is /\ t.os = s.os
      /\ t.pair = s.pair \ {"cb"} /\ \A f : InLoop(t, f) <=> InLoop(s, f) /\ f # "cb"
  BY <1>2, StreamsDisconnected
<1> HIDE DEF t
<1>4. /\ DOMAIN u = Fields /\ u.events = t.events /\ u.tripped = FALSE
      /\ KeptTimers(t, u) /\ KeptStreams(t, u)
      /\ u.state = "WAITING_FOR_REQUEST" /\ u.nxb = FALSE /\ u.req = NoRequest /\ u.sink = "none"
      /\ u.handler = "none" /\ u.continue = FALSE /\ u.in_worker = t.in_worker
      /\ u.closing = t.closing /\ u.freed = t.freed /\ u.wire = t.wire /\ u.room = t.room
      /\ u.head = <<>> /\ u.chunk = t.chunk /\ u.received = 0 /\ u.stored = 0 /\ u.avail = 0
  <2>1. DOMAIN t = Fields /\ t.tripped = FALSE BY <1>3 DEF Sound, ListInv
  <2> QED BY <1>2, <2>1 DEF Fields, KeptTimers, KeptStreams
<1> HIDE DEF u
<1>5. Sound(u) /\ KeptList(t, u)
  <2>1. u.pair = t.pair /\ u.is \in [Streams -> BOOLEAN] /\ u.os \in [Streams -> BOOLEAN]
    BY <1>3, <1>4 DEF Sound, ListInv, KeptStreams
  <2>2. ListInv(u) /\ KeptList(t, u) BY <1>3, <1>4, <2>1, ListStays DEF Sound
  <2>3. <<>> \in Seq(Pieces) /\ Len(<<>>) = 0 BY EmptySeq
  <2>4. NoRequest.size = 0 BY DEF NoRequest
  <2>5. u.state \in States BY <1>4 DEF States
  <2>6. DataInv(u) BY <1>3, <1>4, <2>3, <2>4, <2>5, ProtoAssumption DEF Sound, DataInv, KeptTimers
  <2> QED BY <2>2, <2>6 DEF Sound
<1>6. /\ u.timers = {} /\ u.is = s.is /\ u.os = s.os /\ u.pair = s.pair
      /\ \A f : InLoop(u, f) <=> InLoop(s, f)
  <2>1. u.pair = s.pair BY <1>3, <1>4 DEF KeptStreams
  <2> QED BY <1>2, <1>3, <1>4, <1>5, <2>1 DEF KeptTimers, KeptStreams, KeptList
<1>7. /\ Sound(v) /\ Kept(u, v) /\ KeptTimers(u, v) /\ v.is = s.is /\ v.pair = s.pair
      /\ \A f : InLoop(s, f) => InLoop(v, f)
      /\ \A f : InLoop(v, f) => InLoop(s, f) \/ f = "in"
      /\ \A y \in Streams \ {"in"} : v.os[y] = s.os[y]
      /\ Flowing(v, "in") => InLoop(v, "in")
  <2>1. CASE ~ s.keep_alive
    <3>1. v = u BY <2>1
    <3> HIDE DEF v
    <3>2. Kept(u, v) /\ KeptTimers(u, v) BY <3>1 DEF Kept, KeptHandler, KeptData, KeptOthers, KeptTimers
    <3>3. Flowing(s, "in") => InLoop(s, "in") BY <1>2 DEF Connected, Woken
    <3>4. Flowing(v, "in") => InLoop(v, "in") BY <1>6, <3>1, <3>3 DEF Flowing
    <3> QED BY <1>5, <1>6, <3>1, <3>2, <3>4
  <2>2. CASE s.keep_alive
    <3>1. v = p BY <2>2
    <3>2. /\ Sound(p) /\ Kept(u, p) /\ KeptTimers(u, p) /\ p.pair = u.pair /\ p.is = u.is
          /\ p.os = [u.os EXCEPT !["in"] = TRUE]
          /\ \A f : InLoop(p, f) <=> InLoop(u, f) \/ (f = "in" /\ u.is["in"] /\ "in" \in u.pair)
      BY <1>2, <1>5, OutputSet
    <3> HIDE DEF v, p
    <3>3. u.os \in [Streams -> BOOLEAN] BY <1>5 DEF Sound, ListInv
    <3>4. \A y \in Streams \ {"in"} : p.os[y] = s.os[y] BY <1>6, <3>2, <3>3
    <3>5. Flowing(p, "in") => InLoop(p, "in") BY <3>2 DEF Flowing
    <3> QED BY <1>6, <3>1, <3>2, <3>4, <3>5
  <2> QED BY <2>1, <2>2
<1> HIDE DEF v
<1>8. "keep_alive" \notin v.timers /\ v.timers = {} BY <1>6, <1>7 DEF KeptTimers
<1>9. Sound(r) /\ Kept(v, r) /\ KeptStreams(v, r) /\ KeptList(v, r) /\ r.timers = v.timers \cup {"keep_alive"}
  BY <1>2, <1>7, <1>8, TimerSet
<1> HIDE DEF r
<1>10. /\ r.state = "WAITING_FOR_REQUEST" /\ r.nxb = FALSE /\ r.sink = "none" /\ r.handler = "none"
       /\ r.continue = FALSE /\ ~ r.in_worker /\ ~ r.closing /\ r.freed = FALSE
       /\ r.timers = {"keep_alive"} /\ r.is = s.is /\ r.pair = s.pair
       /\ \A y \in Streams \ {"in"} : r.os[y] = s.os[y]
  BY <1>2, <1>3, <1>4, <1>7, <1>8, <1>9 DEF Kept, KeptHandler, KeptStreams
<1>11. /\ \A f : InLoop(s, f) => InLoop(r, f)
       /\ \A f : InLoop(r, f) => InLoop(s, f) \/ f = "in"
       /\ Flowing(r, "in") => InLoop(r, "in")
  BY <1>7, <1>9 DEF KeptList, KeptStreams, Flowing
<1>12. Woken(r, "none") BY <1>10, <1>11 DEF Connected, Woken, Flowing, Streams
<1>13. MessagesInv(r) BY <1>11 DEF MessagesInv
<1>14. HandlerInv(r) BY <1>10 DEF HandlerInv
<1>15. TimersFit(r) BY <1>10 DEF TimersFit
<1>16. OutputInv(r) BY <1>10 DEF OutputInv
<1>17. "none" \notin Streams BY DEF Streams
<1>18. Connected(r, "none")
  BY <1>9, <1>10, <1>12, <1>13, <1>14, <1>15, <1>16, <1>17 DEF Connected, Sound
<1>19. Attended(r) BY <1>10 DEF Attended
<1> QED BY <1>1, <1>18, <1>19

(* The connection is finalized: nothing of it is left in the loop.         *)
LEMMA Unsubscribed ==
  ASSUME NEW s, Sound(s), NEW N
  PROVE  LET t == nxe_unsubscribe(s, N)
         IN  /\ Sound(t) /\ KeptTimers(s, t) /\ \A f : InLoop(t, f) <=> InLoop(s, f) /\ f \notin N
<1> DEFINE t == nxe_unsubscribe(s, N)
<1>1. DOMAIN s = Fields /\ Loop(s, Streams, Messages, Rank) BY ListIsLoop DEF Sound
<1>2. /\ Loop(t, Streams, Messages, Rank) /\ Frame(s, t)
      /\ \A f : InLoop(t, f) <=> InLoop(s, f) /\ f \notin N
  BY <1>1, UnsubscribeIn
<1> HIDE DEF t
<1>3. Kept(s, t) /\ KeptTimers(s, t) /\ DOMAIN t = Fields BY <1>1, <1>2, KeptByFrame
<1>4. ListInv(t) BY <1>2, <1>3, ListIsLoop
<1>5. DataInv(t) BY <1>3 DEF Sound, DataInv, Kept, KeptHandler, KeptData, KeptTimers
<1> QED BY <1>2, <1>3, <1>4, <1>5 DEF t, Sound

Quiet(s) == s.freed = TRUE /\ s.tripped = FALSE /\ s.events = <<>> /\ s.timers = {}

LEMMA ReleasedQuietly ==
  ASSUME NEW s, Sound(s)
  PROVE  Quiet(Released(s))
<1> DEFINE a == nxe_unset_timer(s, "keep_alive")
           b == nxe_unset_timer(a, "read")
           d == nxe_unset_timer(b, "write")
           u == nxe_unsubscribe(d, Messages)
           e == nxe_disconnect_streams(u, "in")
           v == nxe_disconnect_streams(e, "out")
           g == nxe_disconnect_streams(v, "cb")
           w == nxe_disconnect_streams(g, "rb")
           r == [w EXCEPT !.freed = TRUE]
<1>1. Released(s) = r BY DEF Released
<1>2. Timers = {"keep_alive", "read", "write"} /\ Streams = {"in", "out", "cb", "rb"}
  BY DEF Timers, Streams
<1>3. Sound(a) /\ a.timers = s.timers \ {"keep_alive"} BY <1>2, TimerUnset
<1> HIDE DEF a
<1>4. Sound(b) /\ b.timers = a.timers \ {"read"} BY <1>2, <1>3, TimerUnset
<1> HIDE DEF b
<1>5. Sound(d) /\ d.timers = b.timers \ {"write"} BY <1>2, <1>4, TimerUnset
<1> HIDE DEF d
<1>6. Sound(u) /\ KeptTimers(d, u) /\ \A f : InLoop(u, f) <=> InLoop(d, f) /\ f \notin Messages
  BY <1>5, Unsubscribed
<1> HIDE DEF u
<1>7. Sound(e) /\ KeptTimers(u, e) /\ \A f : InLoop(e, f) <=> InLoop(u, f) /\ f # "in"
  BY <1>2, <1>6, StreamsDisconnected
<1> HIDE DEF e
<1>8. Sound(v) /\ KeptTimers(e, v) /\ \A f : InLoop(v, f) <=> InLoop(e, f) /\ f # "out"
  BY <1>2, <1>7, StreamsDisconnected
<1> HIDE DEF v
<1>9. Sound(g) /\ KeptTimers(v, g) /\ \A f : InLoop(g, f) <=> InLoop(v, f) /\ f # "cb"
  BY <1>2, <1>8, StreamsDisconnected
<1> HIDE DEF g
<1>10. Sound(w) /\ KeptTimers(g, w) /\ \A f : InLoop(w, f) <=> InLoop(g, f) /\ f # "rb"
  BY <1>2, <1>9, StreamsDisconnected
<1> HIDE DEF w
<1>11. \A f \in Streams \cup Messages : ~ InLoop(w, f) BY <1>2, <1>6, <1>7, <1>8, <1>9, <1>10
<1>12. w.events = <<>>
  <2>1. w.events \in Seq(Streams \cup Messages) BY <1>10 DEF Sound, ListInv
  <2>2. Len(w.events) \in Nat /\ \A i \in 1 .. Len(w.events) : w.events[i] \in Streams \cup Messages
    BY <2>1, LenProperties, ElementOfSeq
  <2>3. ASSUME Len(w.events) # 0 PROVE FALSE
    <3>1. 1 \in 1 .. Len(w.events) BY <2>2, <2>3
    <3> QED BY <1>11, <2>2, <3>1 DEF InLoop
  <2> QED BY <2>1, <2>3, EmptySeq
<1>13. w.timers = {}
  <2>1. w.timers = s.timers \ {"keep_alive", "read", "write"}
    BY <1>3, <1>4, <1>5, <1>6, <1>7, <1>8, <1>9, <1>10 DEF KeptTimers
  <2>2. s.timers \subseteq Timers BY DEF Sound, DataInv
  <2> QED BY <1>2, <2>1, <2>2
<1>14. DOMAIN w = Fields /\ w.tripped = FALSE BY <1>10 DEF Sound, ListInv
<1>15. r.freed = TRUE /\ r.tripped = w.tripped /\ r.events = w.events /\ r.timers = w.timers
  BY <1>14 DEF Fields
<1> QED BY <1>1, <1>12, <1>13, <1>14, <1>15 DEF Quiet

LEMMA ResponseIs ==
  ASSUME NEW r \in Response PROVE r[1].ready \in Nat
<1>1. \E a \in {NoSource, Buffer}, b \in BOOLEAN : r = <<a, b>> BY Zenon DEF Response
<1>2. PICK a \in {NoSource, Buffer}, b \in BOOLEAN : r = <<a, b>> BY <1>1
<1>3. r[1] = a BY <1>2
<1>4. NoSource.ready = 0 /\ Buffer.ready = 1 BY DEF NoSource, Buffer
<1> QED BY <1>3, <1>4

(* A handler is invoked that has the whole request.                        *)
LEMMA HandlerInvoked ==
  ASSUME NEW s, Connected(s, "none"), s.handler # "none", ~ s.in_worker,
         ~ InLoop(s, "received"), ~ InLoop(s, "body"),
         s.handler \in {"sync", "worker"} => s.state = "HANDLING",
         s.handler \in {"proxy", "lost"} => Attended(s),
         NEW r \in Response
  PROVE  LET t == invoke_request_handler(s, r) IN Connected(t, "none") /\ Attended(t)
<1> DEFINE t == invoke_request_handler(s, r)
           u == [s EXCEPT !.in_worker = TRUE]
<1>1. r[1].ready \in Nat BY ResponseIs
<1>2. Buffer.ready \in Nat BY DEF Buffer
<1>3. s.handler \in {"sync", "worker", "proxy", "lost"} BY DEF Connected, HandlerInv
<1>4. s.handler \in {"sync", "worker"} => MayRespond(s) BY DEF MayRespond
<1>5. CASE s.handler = "sync"
  <2>1. t = start_sending_response(s, r[1], r[2]) BY <1>5 DEF invoke_request_handler
  <2> QED BY <1>1, <1>4, <1>5, <2>1, Responds
<1>6. CASE s.handler = "worker" /\ r = <<Buffer, TRUE>>
  <2>1. t = start_sending_response(s, Buffer, TRUE) BY <1>6 DEF invoke_request_handler, SendError
  <2> QED BY <1>2, <1>4, <1>6, <2>1, Responds
<1>7. CASE s.handler = "worker" /\ r # <<Buffer, TRUE>>
  <2>1. t = u BY <1>7 DEF invoke_request_handler
  <2>2. DOMAIN s = Fields /\ s.state = "HANDLING" BY <1>7 DEF Connected, ListInv
  <2>3. /\ DOMAIN u = Fields /\ u.events = s.events /\ u.tripped = s.tripped
        /\ KeptTimers(s, u) /\ KeptStreams(s, u) /\ KeptData(s, u)
        /\ u.state = s.state /\ u.nxb = s.nxb /\ u.req = s.req /\ u.sink = s.sink
        /\ u.handler = s.handler /\ u.continue = s.continue /\ u.in_worker = TRUE
        /\ u.closing = s.closing /\ u.freed = s.freed
    BY <2>2 DEF Fields, KeptTimers, KeptStreams, KeptData
  <2> HIDE DEF u, t
  <2>4. \A f : InLoop(u, f) <=> InLoop(s, f) BY <2>3 DEF InLoop
  <2>5. ListInv(u) BY <2>3 DEF Connected, ListInv, KeptStreams
  <2>6. DataInv(u) BY <2>3 DEF Connected, DataInv, KeptTimers, KeptData
  <2>7. Woken(u, "none") BY <2>3, <2>4 DEF Connected, Woken, Flowing, KeptStreams
  <2>8. MessagesInv(u) BY <2>2, <2>3, <2>4 DEF Connected, MessagesInv, KeptStreams, HasBody
  <2>9. HandlerInv(u) BY <1>7, <2>2, <2>3 DEF Connected, HandlerInv, KeptStreams
  <2>10. TimersFit(u) BY <2>3, <2>4 DEF Connected, TimersFit, KeptTimers
  <2>11. OutputInv(u) BY <2>3, <2>4 DEF Connected, OutputInv, KeptStreams
  <2>12. Connected(u, "none")
    BY <2>3, <2>4, <2>5, <2>6, <2>7, <2>8, <2>9, <2>10, <2>11 DEF Connected
  <2>13. Attended(u) BY <2>2, <2>3 DEF Attended
  <2> QED BY <2>1, <2>12, <2>13 DEF t
<1>8. CASE s.handler \in {"proxy", "lost"}
  <2>1. t = s BY <1>8 DEF invoke_request_handler
  <2> QED BY <1>8, <2>1
<1> QED BY <1>3, <1>5, <1>6, <1>7, <1>8

(* The body of the request gets a receiver.                                *)
LEMMA BodyHasReceiver ==
  ASSUME NEW s, Connected(s, "none"), Attended(s), s.state \in {"RECEIVING_BODY", "HANDLING"},
         s.handler # "none", "rb" \notin s.pair, ~ InLoop(s, "received"),
         NEW sink \in {"ibuf", "proxy"}
  PROVE  LET r == ReceiveBody(s, sink) IN Connected(r, "none") /\ Attended(r)
<1> DEFINE a == [s EXCEPT !.sink = sink, !.os["rb"] = TRUE]
           b == nxe_connect_streams(a, "rb")
           r == nxe_ostream_set_ready(b, "in")
<1>1. ReceiveBody(s, sink) = r BY DEF ReceiveBody
<1>2. /\ DOMAIN s = Fields /\ s.os \in [Streams -> BOOLEAN] /\ "in" \in Streams /\ "rb" \in Streams
      /\ "cb" \in Streams /\ ~ InLoop(s, "complete") /\ "none" \notin Streams
  BY DEF Connected, ListInv, MessagesInv, Streams, Sending
<1>3. /\ DOMAIN a = Fields /\ a.events = s.events /\ a.tripped = s.tripped
      /\ KeptTimers(s, a) /\ KeptData(s, a) /\ a.is = s.is /\ a.pair = s.pair
      /\ a.os = [s.os EXCEPT !["rb"] = TRUE]
      /\ a.state = s.state /\ a.nxb = s.nxb /\ a.req = s.req /\ a.sink = sink
      /\ a.handler = s.handler /\ a.continue = s.continue /\ a.in_worker = s.in_worker
      /\ a.closing = s.closing /\ a.freed = s.freed
  BY <1>2 DEF Fields, KeptTimers, KeptData
<1> HIDE DEF a
<1>4. \A f : InLoop(a, f) <=> InLoop(s, f) BY <1>3 DEF InLoop
<1>5. a.os \in [Streams -> BOOLEAN] /\ \A y \in Streams \ {"rb"} : a.os[y] = s.os[y] BY <1>2, <1>3
<1>6. ListInv(a) BY <1>3, <1>5 DEF Connected, ListInv
<1>7. DataInv(a) BY <1>3 DEF Connected, DataInv, KeptTimers, KeptData
<1>8. Woken(a, "none") BY <1>3, <1>4, <1>5 DEF Connected, Woken, Flowing
<1>9. MessagesInv(a) BY <1>3, <1>4 DEF Connected, MessagesInv, HasBody
<1>10. HandlerInv(a) BY <1>3 DEF Connected, HandlerInv
<1>11. TimersFit(a) BY <1>3, <1>4 DEF Connected, TimersFit, KeptTimers
<1>12. OutputInv(a) BY <1>2, <1>3, <1>4, <1>5 DEF Connected, OutputInv
<1>13. Connected(a, "none")
  BY <1>2, <1>3, <1>6, <1>7, <1>8, <1>9, <1>10, <1>11, <1>12 DEF Connected
<1>14. Attended(a) BY <1>3, <1>4 DEF Attended, Failing, KeptTimers
<1>15. /\ Connected(b, "none") /\ Kept(a, b) /\ KeptTimers(a, b)
       /\ \A f \in Messages : InLoop(b, f) <=> InLoop(a, f)
  <2>1. "rb" \notin a.pair /\ a.sink # "none" /\ ~ InLoop(a, "complete") BY <1>2, <1>3, <1>4
  <2> QED BY <1>13, <2>1, ConnectBody
<1> HIDE DEF b
<1>16. Attended(b)
  <2>1. KeptHandler(a, b) /\ a.timers \subseteq b.timers BY <1>15 DEF Kept, KeptTimers
  <2> QED BY <1>14, <1>15, <2>1, AttendedStays
<1>17. /\ Connected(r, "none") /\ Kept(b, r) /\ KeptTimers(b, r)
       /\ \A f : InLoop(r, f) <=> InLoop(b, f) \/ (f = "in" /\ b.is["in"] /\ "in" \in b.pair)
  <2>1. "in" = "none" => ~ b.is["in"] \/ "in" \notin b.pair OBVIOUS
  <2>2. "in" = "cb" => \/ b.state # "SENDING_BODY" \/ "cb" \notin b.pair
                       \/ ~ b.is["out"] /\ ~ InLoop(b, "out")
    OBVIOUS
  <2>3. Connected(b, "none") BY <1>15
  <2>4. "in" \in Streams BY <1>2
  <2> QED BY <2>1, <2>2, <2>3, <2>4, SetOutput
<1> HIDE DEF r
<1>18. Attended(r)
  <2>1. KeptHandler(b, r) /\ b.timers \subseteq r.timers /\ \A f \in Messages : InLoop(b, f) => InLoop(r, f)
    BY <1>17 DEF Kept, KeptTimers
  <2> QED BY <1>16, <2>1, AttendedStays
<1> QED BY <1>1, <1>17, <1>18

(* An error is sent, and the connection may be kept alive or not.          *)
LEMMA ErrorSent ==
  ASSUME NEW s, Connected(s, "none"), MayRespond(s), NEW alive
  PROVE  LET r == SendError([s EXCEPT !.keep_alive = alive]) IN Connected(r, "none") /\ Attended(r)
<1> DEFINE u == [s EXCEPT !.keep_alive = alive]
<1>1. DOMAIN s = Fields BY DEF Connected, ListInv
<1>2. /\ DOMAIN u = Fields /\ u.events = s.events /\ u.tripped = s.tripped /\ KeptHandler(s, u)
      /\ KeptTimers(s, u) /\ KeptStreams(s, u) /\ KeptData(s, u)
  BY <1>1 DEF Fields, KeptHandler, KeptTimers, KeptStreams, KeptData
<1> HIDE DEF u
<1>3. DataInv(u) BY <1>2 DEF Connected, DataInv, KeptHandler, KeptTimers, KeptData
<1>4. Connected(u, "none") /\ KeptList(s, u) BY <1>2, <1>3, DataChanges
<1>5. MayRespond(u) BY <1>2, <1>4 DEF MayRespond, KeptHandler, KeptList
<1>6. Buffer.ready \in Nat BY DEF Buffer
<1> QED BY <1>4, <1>5, <1>6, Responds DEF SendError, u

(* NXD_HSP_REQUEST_RECEIVED.                                               *)
LEMMA Dispatched ==
  ASSUME NEW s, Connected(s, "none"), ~ InLoop(s, "received"), ~ InLoop(s, "body"),
         s.handler = "none", s.sink = "none",
         s.state = IF HasBody(s) THEN "RECEIVING_BODY" ELSE "HANDLING",
         HasBody(s) => Attended(s),
         NEW h \in {"none", "sync", "worker", "proxy"}, NEW r \in Response
  PROVE  LET d == Dispatch(s, h, r) IN Connected(d, "none") /\ Attended(d)
<1> DEFINE t == [s EXCEPT !.handler = h]
           d == Dispatch(s, h, r)
<1>1. /\ DOMAIN s = Fields /\ ~ s.in_worker /\ "rb" \notin s.pair
      /\ ~ InLoop(s, "complete") /\ s.state \in {"RECEIVING_BODY", "HANDLING"}
  BY DEF Connected, ListInv, HandlerInv, MessagesInv, Sending
<1>2. CASE h = "none"
  <2> DEFINE alive == s.keep_alive /\ ~ HasBody(s)
  <2>1. d = SendError([s EXCEPT !.keep_alive = alive]) BY <1>2 DEF Dispatch, RejectRequest
  <2>2. MayRespond(s) BY <1>1 DEF MayRespond
  <2> HIDE DEF alive, d
  <2> QED BY <2>1, <2>2, ErrorSent DEF d
<1>3. CASE h # "none"
  <2>1. /\ DOMAIN t = Fields /\ t.events = s.events /\ t.tripped = s.tripped
        /\ KeptTimers(s, t) /\ KeptStreams(s, t) /\ KeptData(s, t)
        /\ t.state = s.state /\ t.nxb = s.nxb /\ t.req = s.req /\ t.sink = s.sink
        /\ t.handler = h /\ t.continue = s.continue /\ t.in_worker = s.in_worker
        /\ t.closing = s.closing /\ t.freed = s.freed
    BY <1>1 DEF Fields, KeptTimers, KeptStreams, KeptData
  <2>2. d = CASE h = "proxy" -> IF HasBody(s) THEN ReceiveBody(t, "proxy") ELSE t
              [] h \in {"sync", "worker"} ->
                   CASE ~ HasBody(s) -> invoke_request_handler(t, r)
                     [] s.req.kind \notin {"chunked", "broken"} /\ s.req.size > MaxBody ->
                          SendError([t EXCEPT !.keep_alive = FALSE])
                     [] OTHER -> ReceiveBody(t, "ibuf")
    BY <1>3 DEF Dispatch
  <2> HIDE DEF t
  <2>3. \A f : InLoop(t, f) <=> InLoop(s, f) BY <2>1 DEF InLoop
  <2>4. ListInv(t) BY <2>1 DEF Connected, ListInv, KeptStreams
  <2>5. DataInv(t) BY <2>1 DEF Connected, DataInv, KeptTimers, KeptData
  <2>6. Woken(t, "none") BY <2>1, <2>3 DEF Connected, Woken, Flowing, KeptStreams
  <2>7. MessagesInv(t) BY <1>1, <2>1, <2>3 DEF Connected, MessagesInv, KeptStreams
  <2>8. HandlerInv(t) BY <1>1, <1>3, <2>1 DEF Connected, HandlerInv, KeptStreams
  <2>9. TimersFit(t) BY <2>1, <2>3 DEF Connected, TimersFit, KeptTimers
  <2>10. OutputInv(t) BY <2>1, <2>3 DEF Connected, OutputInv, KeptStreams
  <2>11. Connected(t, "none")
    BY <2>1, <2>3, <2>4, <2>5, <2>6, <2>7, <2>8, <2>9, <2>10 DEF Connected
  <2>12. ~ InLoop(t, "received") /\ ~ InLoop(t, "body") /\ "rb" \notin t.pair /\ ~ t.in_worker
    BY <1>1, <2>1, <2>3 DEF KeptStreams
  <2>13. HasBody(s) => Attended(t) /\ t.state = "RECEIVING_BODY"
    BY <2>1, <2>3 DEF Attended, Failing, KeptTimers
  <2>14. ~ HasBody(s) => t.state = "HANDLING" BY <2>1
  <2>15. CASE h = "proxy" /\ HasBody(s)
    <3>1. d = ReceiveBody(t, "proxy") BY <2>2, <2>15
    <3> QED BY <1>3, <2>1, <2>11, <2>12, <2>13, <2>15, <3>1, BodyHasReceiver
  <2>16. CASE h = "proxy" /\ ~ HasBody(s)
    <3>1. d = t BY <2>2, <2>16
    <3>2. Attended(t) BY <2>1, <2>14, <2>16 DEF Attended
    <3> QED BY <2>11, <3>1, <3>2
  <2>17. CASE h \in {"sync", "worker"} /\ ~ HasBody(s)
    <3>1. d = invoke_request_handler(t, r)
      <4> HIDE DEF d
      <4>1. ~ (s.req.size > MaxBody) BY <2>17, ProtoAssumption DEF HasBody
      <4> QED BY <2>2, <2>17, <4>1
    <3>2. t.handler \in {"sync", "worker"} /\ t.handler # "none" BY <1>3, <2>1, <2>17
    <3> QED BY <2>11, <2>12, <2>14, <2>17, <3>1, <3>2, HandlerInvoked
  <2>18. CASE h \in {"sync", "worker"} /\ HasBody(s)
    <3>1. d = SendError([t EXCEPT !.keep_alive = FALSE]) \/ d = ReceiveBody(t, "ibuf")
      BY <2>2, <2>18
    <3>2. MayRespond(t) BY <2>12, <2>13, <2>18 DEF MayRespond
    <3>3. CASE d = SendError([t EXCEPT !.keep_alive = FALSE])
      <4> HIDE DEF d
      <4> QED BY <2>11, <3>2, <3>3, ErrorSent DEF d
    <3>4. CASE d = ReceiveBody(t, "ibuf")
      <4> HIDE DEF d
      <4>1. t.handler # "none" BY <1>3, <2>1
      <4> QED BY <2>11, <2>12, <2>13, <2>18, <3>4, <4>1, BodyHasReceiver DEF d
    <3> QED BY <3>1, <3>3, <3>4
  <2> QED BY <1>3, <2>15, <2>16, <2>17, <2>18
<1> QED BY <1>2, <1>3

-----------------------------------------------------------------------------
(* The steps, one by one.                                                  *)

LEMMA GoesOn ==
  ASSUME cur' \in Streams \cup {"none"}, pend' \in Seq(Pieces), Connected(c', cur'), Attended(c')
  PROVE  LoopInv'
BY DEF LoopInv, Connected

LEMMA IsClosed ==
  ASSUME cur' = "none", pend' \in Seq(Pieces), Quiet(c')
  PROVE  LoopInv'
BY DEF LoopInv, Quiet

LEMMA BetweenEvents ==
  ASSUME LoopInv, Idle
  PROVE  Connected(c, "none") /\ Attended(c) /\ pend \in Seq(Pieces) /\ cur = "none"
BY DEF LoopInv, Idle

LEMMA DuringEvent ==
  ASSUME LoopInv, NEW x \in Streams, cur = x
  PROVE  Connected(c, x) /\ Attended(c) /\ pend \in Seq(Pieces)
BY DEF LoopInv, Streams

LEMMA NotFreed ==
  ASSUME LoopInv, ~ c.freed
  PROVE  Connected(c, cur) /\ Attended(c) /\ pend \in Seq(Pieces) /\ cur \in Streams \cup {"none"}
BY DEF LoopInv

(* A change that Attended does not see.                                    *)
LEMMA StillAttended ==
  ASSUME NEW s, NEW t, Attended(s), Kept(s, t), KeptTimers(s, t), \A f : InLoop(s, f) => InLoop(t, f)
  PROVE  Attended(t)
<1>1. KeptHandler(s, t) /\ s.timers \subseteq t.timers BY DEF Kept, KeptTimers
<1> QED BY <1>1, AttendedStays

LEMMA LoopTurns == LoopInv /\ LoopTurn => LoopInv'
<1> SUFFICES ASSUME LoopInv, LoopTurn PROVE LoopInv' OBVIOUS
<1> DEFINE a == nxe_istream_set_ready(c, "in")
           s == IF "in" \in edge /\ (c.wire # <<>> \/ c.rdclosed) THEN a ELSE c
           b == nxe_ostream_set_ready(s, "out")
           t == IF "out" \in edge THEN b ELSE s
           d == nxe_publish(t, "data_error")
           u == IF "hup" \in edge THEN d ELSE t
<1>1. /\ Connected(c, "none") /\ Attended(c) /\ pend \in Seq(Pieces) /\ cur = "none"
      /\ cur' = cur /\ pend' = pend /\ c' = nxe_process_timers(u, "error")
  BY BetweenEvents DEF LoopTurn
<1>2. "in" \in Streams /\ "out" \in Streams BY DEF Streams
<1>3. Connected(a, "none") /\ Attended(a)
  <2>1. /\ Connected(a, "none") /\ Kept(c, a) /\ KeptTimers(c, a)
        /\ \A f : InLoop(a, f) <=> \/ InLoop(c, f)
                                   \/ f = "in" /\ ~ c.is["in"] /\ c.os["in"] /\ "in" \in c.pair
    <3>1. "in" = "none" => c.is["in"] \/ ~ c.os["in"] \/ "in" \notin c.pair OBVIOUS
    <3>2. "in" = "out" => /\ ~ InLoop(c, "complete") /\ (c.continue \/ c.state \in Sending)
                          /\ ~ (c.state = "SENDING_BODY" /\ "cb" \in c.pair /\ c.os["cb"])
      OBVIOUS
    <3>3. Connected(c, "none") BY <1>1
    <3> QED BY <1>2, <3>1, <3>2, <3>3, SetInput
  <2> HIDE DEF a
  <2> QED BY <1>1, <2>1, StillAttended
<1>4. Connected(s, "none") /\ Attended(s) BY <1>1, <1>3
<1> HIDE DEF s
<1>5. Connected(b, "none") /\ Attended(b)
  <2>1. /\ Connected(b, "none") /\ Kept(s, b) /\ KeptTimers(s, b)
        /\ \A f : InLoop(b, f) <=> InLoop(s, f) \/ (f = "out" /\ s.is["out"] /\ "out" \in s.pair)
    <3>1. "out" = "none" => ~ s.is["out"] \/ "out" \notin s.pair OBVIOUS
    <3>2. "out" = "cb" => \/ s.state # "SENDING_BODY" \/ "cb" \notin s.pair
                          \/ ~ s.is["out"] /\ ~ InLoop(s, "out")
      OBVIOUS
    <3> QED BY <1>2, <1>4, <3>1, <3>2, SetOutput
  <2> HIDE DEF b
  <2> QED BY <1>4, <2>1, StillAttended
<1>6. Connected(t, "none") /\ Attended(t) BY <1>4, <1>5
<1> HIDE DEF t
<1>7. Connected(d, "none") /\ Attended(d) BY <1>6, PublishError
<1>8. Connected(u, "none") /\ Attended(u) BY <1>6, <1>7
<1> HIDE DEF u
<1>9. Connected(c', "none") /\ Attended(c') BY <1>1, <1>8, TimersExpire
<1> QED BY <1>1, <1>9, GoesOn

(* The first event is taken from the list.                                 *)
LEMMA EventTaken ==
  ASSUME LoopInv, NEW m, Delivers(m)
  PROVE  /\ m \in Messages => Connected(Popped, "none")
         /\ m \in Streams => Connected(Popped, m) /\ Attended(Popped)
         /\ Kept(c, Popped) /\ KeptTimers(c, Popped) /\ KeptStreams(c, Popped)
         /\ InLoop(c, m)
         /\ \A f : InLoop(Popped, f) => InLoop(c, f)
         /\ \A f : InLoop(c, f) => f = m \/ InLoop(Popped, f)
         /\ m = "received" => ~ InLoop(Popped, "received")
         /\ m = "body" => ~ InLoop(Popped, "received") /\ ~ InLoop(Popped, "body")
         /\ m = "complete" => /\ ~ InLoop(Popped, "received") /\ ~ InLoop(Popped, "body")
                              /\ ~ InLoop(Popped, "complete")
         /\ Connected(c, "none") /\ Attended(c) /\ pend \in Seq(Pieces) /\ cur = "none"
<1>1. /\ Connected(c, "none") /\ Attended(c) /\ pend \in Seq(Pieces) /\ cur = "none"
      /\ c.events # <<>> /\ Head(c.events) = m
  BY BetweenEvents DEF Delivers
<1> QED BY <1>1, Pop DEF Popped

LEMMA StreamBegins == ASSUME LoopInv, NEW x \in Streams, StreamBegin(x) PROVE LoopInv'
<1>1. Delivers(x) /\ c' = Popped /\ cur' = x /\ pend' = pend BY DEF StreamBegin
<1>2. Connected(Popped, x) /\ Attended(Popped) /\ pend \in Seq(Pieces) BY <1>1, EventTaken
<1> QED BY <1>1, <1>2, GoesOn

LEMMA StreamRoundDone == ASSUME LoopInv, NEW x \in Streams, StreamRound(x) PROVE LoopInv'
<1>1. PICK full \in BOOLEAN :
        /\ cur = x /\ Flowing(c, x) /\ c' = do_stream(x, full) /\ cur' = cur /\ pend' = pend
  BY DEF StreamRound
<1>2. Connected(c, x) /\ Attended(c) /\ pend \in Seq(Pieces) BY <1>1, DuringEvent
<1>3. Connected(c', x) /\ Attended(c')
  <2>1. CASE x = "in"
    <3>1. c' = data_in_do_read(c, full) BY <1>1, <2>1 DEF do_stream
    <3> QED BY <1>2, <2>1, <3>1, InputRound
  <2>2. CASE x = "out"
    <3>1. c' = data_out_do_write(c) BY <1>1, <2>2 DEF do_stream
    <3> QED BY <1>1, <1>2, <2>2, <3>1, OutputRound
  <2>3. CASE x = "rb"
    <3>1. c' = sink_do_read(c, full) /\ "rb" \in c.pair BY <1>1, <2>3 DEF do_stream, Flowing
    <3>2. x \in {"in", "rb"} /\ (x = "in" => c.state = "RECEIVING_BODY") BY <2>3
    <3> QED BY <1>2, <3>1, <3>2, SinkReads
  <2>4. CASE x = "cb"
    <3>1. c' = resp_body_in_write(c) BY <1>1, <2>4 DEF do_stream
    <3> QED BY <1>1, <1>2, <2>4, <3>1, ContentRound
  <2> QED BY <2>1, <2>2, <2>3, <2>4 DEF Streams
<1> QED BY <1>1, <1>2, <1>3, GoesOn

(* After too many rounds the stream is linked again; otherwise it has      *)
(* nothing to do any more.                                                 *)
LEMMA StreamEnds == ASSUME LoopInv, NEW x \in Streams, StreamEnd(x) PROVE LoopInv'
<1> DEFINE t == nxe_link(c, x)
<1>1. /\ cur = x /\ cur' = "none" /\ pend' = pend
      /\ \/ ~ Flowing(c, x) /\ c' = c
         \/ Flowing(c, x) /\ c' = t
  BY DEF StreamEnd
<1>2. /\ Connected(c, x) /\ Attended(c) /\ pend \in Seq(Pieces) /\ "none" \notin Streams
      /\ ~ InLoop(c, x)
  BY <1>1, DuringEvent DEF Streams, Connected
<1>3. CASE ~ Flowing(c, x) /\ c' = c
  <2>1. Woken(c, "none") BY <1>2, <1>3 DEF Connected, Woken
  <2>2. Connected(c, "none") BY <1>2, <2>1 DEF Connected
  <2> QED BY <1>1, <1>2, <1>3, <2>2, GoesOn
<1>4. CASE Flowing(c, x) /\ c' = t
  <2>1. DOMAIN c = Fields /\ Loop(c, Streams, Messages, Rank) BY <1>2, ListIsLoop DEF Connected
  <2>2. c.is[x] /\ c.os[x] /\ x \in c.pair BY <1>4 DEF Flowing
  <2>3. x \notin DOMAIN Rank /\ x \notin Messages BY RankIs
  <2>4. /\ Loop(t, Streams, Messages, Rank) /\ Frame(c, t) /\ t.is = c.is /\ t.os = c.os
        /\ t.pair = c.pair /\ \A f : InLoop(t, f) <=> InLoop(c, f) \/ f = x
    <3>1. LoopOK(c, Streams, Messages) BY <2>1 DEF Loop
    <3>2. /\ Frame(c, t) /\ t.is = c.is /\ t.os = c.os /\ t.pair = c.pair
      BY <1>2, <2>2, <3>1, LinkKeeps
    <3> QED BY <1>2, <2>1, <2>2, <3>2, LinkIn
  <2> HIDE DEF t
  <2>5. Kept(c, t) /\ KeptTimers(c, t) /\ DOMAIN t = Fields BY <2>1, <2>4, KeptByFrame
  <2>6. ListInv(t) BY <2>4, <2>5, ListIsLoop
  <2>7. DataInv(t) BY <1>2, <2>5 DEF Connected, DataInv, Kept, KeptHandler, KeptData, KeptTimers
  <2>8. {"received", "body", "complete", "error", "data_error"} \subseteq Messages BY DEF Messages
  <2>9. \A f \in {"received", "body", "complete", "error", "data_error"} : InLoop(t, f) <=> InLoop(c, f)
    BY <2>3, <2>4, <2>8
  <2>10. Woken(t, "none") BY <1>2, <2>4 DEF Connected, Woken, Flowing
  <2>11. MessagesInv(t)
    BY <1>2, <2>2, <2>4, <2>5, <2>9 DEF Connected, MessagesInv, Kept, KeptHandler, HasBody
  <2>12. HandlerInv(t) BY <1>2, <2>4, <2>5 DEF Connected, HandlerInv, Kept, KeptHandler
  <2>13. TimersFit(t) BY <1>2, <2>5, <2>9 DEF Connected, TimersFit, Kept, KeptHandler, KeptTimers
  <2>14. OutputInv(t) BY <1>2, <2>2, <2>4, <2>5 DEF Connected, OutputInv, Kept, KeptHandler
  <2>15. Connected(t, "none")
    BY <1>2, <2>5, <2>6, <2>7, <2>10, <2>11, <2>12, <2>13, <2>14 DEF Connected, Kept, KeptHandler
  <2>16. Attended(t) BY <1>2, <2>4, <2>5, StillAttended
  <2> QED BY <1>1, <1>2, <1>4, <2>15, <2>16, GoesOn
<1> QED BY <1>1, <1>3, <1>4

(* The messages.                                                           *)
LEMMA ReceivedDelivered == LoopInv /\ RequestReceivedDelivered => LoopInv'
<1> SUFFICES ASSUME LoopInv, RequestReceivedDelivered PROVE LoopInv' OBVIOUS
<1>1. PICK h \in {"none", "sync", "worker", "proxy"}, r \in Response : c' = Dispatch(Popped, h, r)
  BY DEF RequestReceivedDelivered
<1>2. Delivers("received") /\ cur' = cur /\ pend' = pend BY DEF RequestReceivedDelivered
<1>3. /\ Connected(Popped, "none") /\ Kept(c, Popped) /\ KeptTimers(c, Popped)
      /\ InLoop(c, "received") /\ ~ InLoop(Popped, "received") /\ Connected(c, "none") /\ Attended(c)
      /\ (\A f : InLoop(Popped, f) => InLoop(c, f))
      /\ (\A f : InLoop(c, f) => f = "received" \/ InLoop(Popped, f))
      /\ pend \in Seq(Pieces) /\ cur = "none"
  <2>1. "received" \in Messages BY DEF Messages
  <2> QED BY <1>2, <2>1, EventTaken
<1>4. /\ c.handler = "none" /\ c.sink = "none"
      /\ c.state = IF HasBody(c) THEN "RECEIVING_BODY" ELSE "HANDLING"
      /\ ~ InLoop(c, "body")
  BY <1>3 DEF Connected, MessagesInv
<1>5. /\ Popped.handler = "none" /\ Popped.sink = "none" /\ ~ InLoop(Popped, "body")
      /\ Popped.state = IF HasBody(Popped) THEN "RECEIVING_BODY" ELSE "HANDLING"
  BY <1>3, <1>4 DEF Kept, KeptHandler, HasBody
<1>6. HasBody(Popped) => Attended(Popped)
  <2> SUFFICES ASSUME HasBody(Popped) PROVE Attended(Popped) OBVIOUS
  <2>1. c.state = "RECEIVING_BODY" /\ Popped.state = "RECEIVING_BODY" /\ Popped.timers = c.timers
    BY <1>3, <1>5 DEF Kept, KeptHandler, KeptTimers
  <2>2. Failing(c) => Failing(Popped) BY <1>3 DEF Failing
  <2>3. Failing(c) \/ "read" \in c.timers BY <1>3, <2>1 DEF Attended, Sending
  <2> QED BY <2>1, <2>2, <2>3 DEF Attended, Receiving
<1>7. Connected(c', "none") /\ Attended(c') BY <1>1, <1>3, <1>5, <1>6, Dispatched
<1> QED BY <1>2, <1>3, <1>7, GoesOn

LEMMA BodyDelivered == LoopInv /\ BodyReceivedDelivered => LoopInv'
<1> SUFFICES ASSUME LoopInv, BodyReceivedDelivered PROVE LoopInv' OBVIOUS
<1>1. PICK r \in Response : c' = invoke_request_handler(Popped, r) BY DEF BodyReceivedDelivered
<1>2. Delivers("body") /\ cur' = cur /\ pend' = pend BY DEF BodyReceivedDelivered
<1>3. /\ Connected(Popped, "none") /\ Kept(c, Popped) /\ KeptTimers(c, Popped)
      /\ InLoop(c, "body") /\ ~ InLoop(Popped, "received") /\ ~ InLoop(Popped, "body")
      /\ Connected(c, "none") /\ Attended(c)
      /\ (\A f : InLoop(c, f) => f = "body" \/ InLoop(Popped, f))
      /\ pend \in Seq(Pieces) /\ cur = "none"
  <2>1. "body" \in Messages BY DEF Messages
  <2> QED BY <1>2, <2>1, EventTaken
<1>4. /\ c.handler # "none" /\ ~ c.in_worker
      /\ c.state = "HANDLING" \/ (c.handler = "proxy" /\ c.state \in Sending)
  BY <1>3 DEF Connected, MessagesInv
<1>5. /\ Popped.handler # "none" /\ ~ Popped.in_worker /\ Popped.handler = c.handler
      /\ Popped.state = c.state /\ Popped.timers = c.timers
  BY <1>3, <1>4 DEF Kept, KeptHandler, KeptTimers
<1>6. Popped.handler \in {"proxy", "lost"} => Attended(Popped)
  <2> SUFFICES ASSUME Popped.handler \in {"proxy", "lost"} PROVE Attended(Popped) OBVIOUS
  <2>1. CASE c.state = "HANDLING" BY <1>5, <2>1 DEF Attended
  <2>2. CASE c.state \in Sending
    <3>1. Failing(c) => Failing(Popped) BY <1>3 DEF Failing
    <3>2. Failing(c) \/ "write" \in c.timers \/ InLoop(c, "complete")
      BY <1>3, <2>2 DEF Attended, Sending, Receiving
    <3>3. InLoop(c, "complete") => InLoop(Popped, "complete") BY <1>3
    <3> QED BY <1>5, <2>2, <3>1, <3>2, <3>3 DEF Attended
  <2> QED BY <1>4, <2>1, <2>2
<1>7. Popped.handler # "proxy" => Popped.state = "HANDLING" BY <1>4, <1>5
<1>8. Popped.handler \in {"sync", "worker"} => Popped.state = "HANDLING" BY <1>7
<1>9. Connected(c', "none") /\ Attended(c') BY <1>1, <1>3, <1>5, <1>6, <1>8, HandlerInvoked
<1> QED BY <1>2, <1>3, <1>9, GoesOn

LEMMA CompleteDelivered == LoopInv /\ RequestCompleteDelivered => LoopInv'
<1> SUFFICES ASSUME LoopInv, RequestCompleteDelivered PROVE LoopInv' OBVIOUS
<1>1. Delivers("complete") /\ c' = request_cleanup(Popped) /\ cur' = cur /\ pend' = pend
  BY DEF RequestCompleteDelivered
<1>2. /\ Connected(Popped, "none") /\ Kept(c, Popped) /\ KeptTimers(c, Popped) /\ KeptStreams(c, Popped)
      /\ InLoop(c, "complete") /\ ~ InLoop(Popped, "received") /\ ~ InLoop(Popped, "body")
      /\ ~ InLoop(Popped, "complete") /\ Connected(c, "none")
      /\ pend \in Seq(Pieces) /\ cur = "none"
  <2>1. "complete" \in Messages BY DEF Messages
  <2> QED BY <1>1, <2>1, EventTaken
<1>3. /\ c.state \in Sending /\ ~ c.is["out"] /\ "cb" \notin c.pair /\ "rb" \notin c.pair
      /\ "write" \notin c.timers
  BY <1>2 DEF Connected, MessagesInv, TimersFit
<1>4. /\ Popped.state \in Sending /\ ~ Popped.is["out"] /\ "cb" \notin Popped.pair
      /\ "rb" \notin Popped.pair /\ "write" \notin Popped.timers
  BY <1>2, <1>3 DEF Kept, KeptHandler, KeptStreams, KeptTimers
<1>5. Connected(c', "none") /\ Attended(c') BY <1>1, <1>2, <1>4, CleanedUp
<1> QED BY <1>1, <1>2, <1>5, GoesOn

LEMMA SocketErrorDelivered == LoopInv /\ DataErrorDelivered => LoopInv'
<1> SUFFICES ASSUME LoopInv, DataErrorDelivered PROVE LoopInv' OBVIOUS
<1>1. Delivers("data_error") /\ c' = nxe_publish(Popped, "error") /\ cur' = cur /\ pend' = pend
  BY DEF DataErrorDelivered
<1>2. Connected(Popped, "none") /\ pend \in Seq(Pieces) /\ cur = "none"
  <2>1. "data_error" \in Messages BY DEF Messages
  <2> QED BY <1>1, <2>1, EventTaken
<1>3. Connected(c', "none") /\ Attended(c') BY <1>1, <1>2, PublishError
<1> QED BY <1>1, <1>2, <1>3, GoesOn

(* A worker has the connection: it is only marked.                         *)
LEMMA Finalized ==
  ASSUME NEW s, Connected(s, "none")
  PROVE  LET r == finalize(s)
         IN  \/ Connected(r, "none") /\ Attended(r)
             \/ Quiet(r)
<1> DEFINE u == [s EXCEPT !.closing = TRUE]
<1>1. CASE ~ s.in_worker
  <2>1. finalize(s) = Released(s) /\ Sound(s) BY <1>1 DEF finalize, Connected, Sound
  <2> QED BY <2>1, ReleasedQuietly
<1>2. CASE s.in_worker
  <2>1. finalize(s) = u BY <1>2 DEF finalize
  <2>2. DOMAIN s = Fields /\ s.state = "HANDLING" BY <1>2 DEF Connected, ListInv, HandlerInv
  <2>3. /\ DOMAIN u = Fields /\ u.events = s.events /\ u.tripped = s.tripped
        /\ KeptTimers(s, u) /\ KeptStreams(s, u) /\ KeptData(s, u)
        /\ u.state = s.state /\ u.nxb = s.nxb /\ u.req = s.req /\ u.sink = s.sink
        /\ u.handler = s.handler /\ u.continue = s.continue /\ u.in_worker = s.in_worker
        /\ u.freed = s.freed
    BY <2>2 DEF Fields, KeptTimers, KeptStreams, KeptData
  <2> HIDE DEF u
  <2>4. \A f : InLoop(u, f) <=> InLoop(s, f) BY <2>3 DEF InLoop
  <2>5. ListInv(u) BY <2>3 DEF Connected, ListInv, KeptStreams
  <2>6. DataInv(u) BY <2>3 DEF Connected, DataInv, KeptTimers, KeptData
  <2>7. Woken(u, "none") BY <2>3, <2>4 DEF Connected, Woken, Flowing, KeptStreams
  <2>8. MessagesInv(u) BY <2>3, <2>4 DEF Connected, MessagesInv, KeptStreams, HasBody
  <2>9. HandlerInv(u) BY <1>2, <2>3 DEF Connected, HandlerInv, KeptStreams
  <2>10. TimersFit(u) BY <2>3, <2>4 DEF Connected, TimersFit, KeptTimers
  <2>11. OutputInv(u) BY <2>3, <2>4 DEF Connected, OutputInv, KeptStreams
  <2>12. Connected(u, "none")
    BY <2>3, <2>4, <2>5, <2>6, <2>7, <2>8, <2>9, <2>10, <2>11 DEF Connected
  <2>13. Attended(u) BY <1>2, <2>2, <2>3 DEF Attended
  <2> QED BY <2>1, <2>12, <2>13
<1> QED BY <1>1, <1>2

LEMMA FailureDelivered == LoopInv /\ ErrorDelivered => LoopInv'
<1> SUFFICES ASSUME LoopInv, ErrorDelivered PROVE LoopInv' OBVIOUS
<1>1. Delivers("error") /\ c' = finalize(Popped) /\ cur' = cur /\ pend' = pend BY DEF ErrorDelivered
<1>2. Connected(Popped, "none") /\ pend \in Seq(Pieces) /\ cur = "none"
  <2>1. "error" \in Messages BY DEF Messages
  <2> QED BY <1>1, <2>1, EventTaken
<1>3. \/ Connected(c', "none") /\ Attended(c')
      \/ Quiet(c')
  BY <1>1, <1>2, Finalized
<1> QED BY <1>1, <1>2, <1>3, GoesOn, IsClosed

(* The worker's answer.                                                    *)
LEMMA WorkerAnswers == LoopInv /\ WorkerComplete => LoopInv'
<1> SUFFICES ASSUME LoopInv, WorkerComplete PROVE LoopInv' OBVIOUS
<1> DEFINE s == [c EXCEPT !.in_worker = FALSE]
<1>1. /\ Idle /\ c.in_worker /\ cur' = cur /\ pend' = pend
      /\ IF c.closing THEN c' = Released(s)
         ELSE \E r \in Response : c' = start_sending_response(s, r[1], r[2])
  BY DEF WorkerComplete
<1>2. Connected(c, "none") /\ pend \in Seq(Pieces) /\ cur = "none" BY <1>1, BetweenEvents
<1>3. DOMAIN c = Fields /\ c.state = "HANDLING" /\ c.handler = "worker" /\ ~ InLoop(c, "body")
      /\ ~ InLoop(c, "received")
  BY <1>1, <1>2 DEF Connected, ListInv, HandlerInv, MessagesInv
<1>4. /\ DOMAIN s = Fields /\ s.events = c.events /\ s.tripped = c.tripped
      /\ KeptTimers(c, s) /\ KeptStreams(c, s) /\ KeptData(c, s)
      /\ s.state = c.state /\ s.nxb = c.nxb /\ s.req = c.req /\ s.sink = c.sink
      /\ s.handler = c.handler /\ s.continue = c.continue /\ s.closing = c.closing
      /\ s.freed = c.freed /\ ~ s.in_worker
  BY <1>3 DEF Fields, KeptTimers, KeptStreams, KeptData
<1> HIDE DEF s
<1>5. \A f : InLoop(s, f) <=> InLoop(c, f) BY <1>4 DEF InLoop
<1>6. ListInv(s) BY <1>2, <1>4 DEF Connected, ListInv, KeptStreams
<1>7. DataInv(s) BY <1>2, <1>4 DEF Connected, DataInv, KeptTimers, KeptData
<1>8. CASE c.closing
  <2>1. Quiet(c') BY <1>1, <1>6, <1>7, <1>8, ReleasedQuietly DEF Sound
  <2> QED BY <1>1, <1>2, <2>1, IsClosed
<1>9. CASE ~ c.closing
  <2>1. PICK r \in Response : c' = start_sending_response(s, r[1], r[2]) BY <1>1, <1>9
  <2>2. Woken(s, "none") BY <1>2, <1>4, <1>5 DEF Connected, Woken, Flowing, KeptStreams
  <2>3. MessagesInv(s) BY <1>2, <1>3, <1>4, <1>5 DEF Connected, MessagesInv, KeptStreams
  <2>4. HandlerInv(s) BY <1>2, <1>4, <1>9 DEF Connected, HandlerInv, KeptStreams
  <2>5. TimersFit(s) BY <1>2, <1>4, <1>5 DEF Connected, TimersFit, KeptTimers
  <2>6. OutputInv(s) BY <1>2, <1>4, <1>5 DEF Connected, OutputInv, KeptStreams
  <2>7. Connected(s, "none")
    BY <1>2, <1>4, <1>5, <1>6, <1>7, <2>2, <2>3, <2>4, <2>5, <2>6 DEF Connected
  <2>8. MayRespond(s) BY <1>3, <1>4, <1>5 DEF MayRespond
  <2>9. r[1].ready \in Nat BY ResponseIs
  <2>10. Connected(c', "none") /\ Attended(c') BY <2>1, <2>7, <2>8, <2>9, Responds
  <2> QED BY <1>1, <1>2, <2>10, GoesOn
<1> QED BY <1>8, <1>9

(* The backend of a proxied request.                                       *)
LEMMA BackendAnswers == LoopInv /\ BackendResponds => LoopInv'
<1> SUFFICES ASSUME LoopInv, BackendResponds PROVE LoopInv' OBVIOUS
<1> DEFINE early == c.early \/ c.state = "RECEIVING_BODY"
           s == [c EXCEPT !.early = @ \/ c.state = "RECEIVING_BODY"]
<1>1. /\ Idle /\ c.handler = "proxy" /\ c.state \in {"HANDLING", "RECEIVING_BODY"}
      /\ cur' = cur /\ pend' = pend
  BY DEF BackendResponds
<1>2. PICK r \in {<<Backend(0), TRUE>>, <<Backend(1), TRUE>>, <<NoSource, FALSE>>, <<Buffer, TRUE>>} :
        c' = start_sending_response(s, r[1], r[2])
  BY DEF BackendResponds
<1>3. Connected(c, "none") /\ pend \in Seq(Pieces) /\ cur = "none" BY <1>1, BetweenEvents
<1>4. DOMAIN c = Fields /\ ~ c.in_worker /\ ~ InLoop(c, "received")
  BY <1>1, <1>3 DEF Connected, ListInv, HandlerInv, MessagesInv
<1>5. /\ DOMAIN s = Fields /\ s.events = c.events /\ s.tripped = c.tripped /\ KeptHandler(c, s)
      /\ KeptTimers(c, s) /\ KeptStreams(c, s) /\ KeptData(c, s)
  BY <1>4 DEF Fields, KeptHandler, KeptTimers, KeptStreams, KeptData
<1> HIDE DEF s
<1>6. DataInv(s) BY <1>3, <1>5 DEF Connected, DataInv, KeptHandler, KeptTimers, KeptData
<1>7. Connected(s, "none") /\ KeptList(c, s) BY <1>3, <1>5, <1>6, DataChanges
<1>8. MayRespond(s) BY <1>1, <1>4, <1>5, <1>7 DEF MayRespond, KeptHandler, KeptList
<1>9. r[1].ready \in Nat
  <2>1. \E a \in {Backend(0), Backend(1), NoSource, Buffer}, b \in BOOLEAN : r = <<a, b>> BY Zenon
  <2>2. PICK a \in {Backend(0), Backend(1), NoSource, Buffer}, b \in BOOLEAN : r = <<a, b>> BY <2>1
  <2>3. r[1] = a BY <2>2
  <2>4. /\ Backend(0).ready = 0 /\ Backend(1).ready = 1
        /\ NoSource.ready = 0 /\ Buffer.ready = 1
    BY DEF Backend, NoSource, Buffer
  <2> QED BY <2>3, <2>4
<1>10. Connected(c', "none") /\ Attended(c') BY <1>2, <1>7, <1>8, <1>9, Responds
<1> QED BY <1>1, <1>3, <1>10, GoesOn

(* Content arrives: its source is ready.                                   *)
LEMMA ContentArrives ==
  ASSUME NEW s, Connected(s, "none"), Attended(s), NEW u, DOMAIN u = Fields,
         u.events = s.events, u.tripped = s.tripped, KeptHandler(s, u), KeptTimers(s, u),
         KeptStreams(s, u), DataInv(u)
  PROVE  LET t == nxe_istream_set_ready(u, "cb") IN Connected(t, "none") /\ Attended(t)
<1> DEFINE t == nxe_istream_set_ready(u, "cb")
<1>1. Connected(u, "none") /\ Attended(u) BY DataChanges
<1>2. /\ Connected(t, "none") /\ Kept(u, t) /\ KeptTimers(u, t)
      /\ \A f : InLoop(t, f) <=> \/ InLoop(u, f)
                                 \/ f = "cb" /\ ~ u.is["cb"] /\ u.os["cb"] /\ "cb" \in u.pair
  <2>1. "cb" \in Streams BY DEF Streams
  <2>2. "cb" = "none" => u.is["cb"] \/ ~ u.os["cb"] \/ "cb" \notin u.pair OBVIOUS
  <2>3. "cb" = "out" => /\ ~ InLoop(u, "complete") /\ (u.continue \/ u.state \in Sending)
                        /\ ~ (u.state = "SENDING_BODY" /\ "cb" \in u.pair /\ u.os["cb"])
    OBVIOUS
  <2>4. Connected(u, "none") BY <1>1
  <2> QED BY <2>1, <2>2, <2>3, <2>4, SetInput
<1> HIDE DEF t
<1>3. Attended(t) BY <1>1, <1>2, StillAttended
<1> QED BY <1>2, <1>3 DEF t

LEMMA BackendGoesOn == LoopInv /\ BackendSends => LoopInv'
<1> SUFFICES ASSUME LoopInv, BackendSends PROVE LoopInv' OBVIOUS
<1> DEFINE u == [c EXCEPT !.avail = 1, !.rest = @ - 1]
           v == [c EXCEPT !.eof = TRUE]
<1>1. /\ Idle /\ cur' = cur /\ pend' = pend
      /\ c' = nxe_istream_set_ready(u, "cb") \/ c' = nxe_istream_set_ready(v, "cb")
  BY DEF BackendSends
<1>2. Connected(c, "none") /\ Attended(c) /\ pend \in Seq(Pieces) /\ cur = "none" BY <1>1, BetweenEvents
<1>3. DOMAIN c = Fields /\ DataInv(c) BY <1>2 DEF Connected, ListInv
<1>4. /\ DOMAIN u = Fields /\ u.events = c.events /\ u.tripped = c.tripped /\ KeptHandler(c, u)
      /\ KeptTimers(c, u) /\ KeptStreams(c, u) /\ u.avail = 1 /\ u.wire = c.wire /\ u.room = c.room
      /\ u.head = c.head /\ u.chunk = c.chunk /\ u.received = c.received /\ u.stored = c.stored
  BY <1>3 DEF Fields, KeptHandler, KeptTimers, KeptStreams
<1>5. /\ DOMAIN v = Fields /\ v.events = c.events /\ v.tripped = c.tripped /\ KeptHandler(c, v)
      /\ KeptTimers(c, v) /\ KeptStreams(c, v) /\ KeptData(c, v)
  BY <1>3 DEF Fields, KeptHandler, KeptTimers, KeptStreams, KeptData
<1> HIDE DEF u, v
<1>6. DataInv(u) BY <1>3, <1>4 DEF DataInv, KeptHandler, KeptTimers
<1>7. DataInv(v) BY <1>3, <1>5 DEF DataInv, KeptHandler, KeptTimers, KeptData
<1>8. CASE c' = nxe_istream_set_ready(u, "cb")
  <2>1. Connected(c', "none") /\ Attended(c') BY <1>2, <1>4, <1>6, <1>8, ContentArrives
  <2> QED BY <1>1, <1>2, <2>1, GoesOn
<1>9. CASE c' = nxe_istream_set_ready(v, "cb")
  <2>1. Connected(c', "none") /\ Attended(c') BY <1>2, <1>5, <1>7, <1>9, ContentArrives
  <2> QED BY <1>1, <1>2, <2>1, GoesOn
<1> QED BY <1>1, <1>8, <1>9

LEMMA BackendBreaks == LoopInv /\ BackendFails => LoopInv'
<1> SUFFICES ASSUME LoopInv, BackendFails PROVE LoopInv' OBVIOUS
<1>1. Idle /\ cur' = cur /\ pend' = pend /\ c' = finalize(c) BY DEF BackendFails
<1>2. Connected(c, "none") /\ pend \in Seq(Pieces) /\ cur = "none" BY <1>1, BetweenEvents
<1>3. \/ Connected(c', "none") /\ Attended(c')
      \/ Quiet(c')
  BY <1>1, <1>2, Finalized
<1> QED BY <1>1, <1>2, <1>3, GoesOn, IsClosed

LEMMA BackendRetried == LoopInv /\ BackendRetries => LoopInv'
<1> SUFFICES ASSUME LoopInv, BackendRetries PROVE LoopInv' OBVIOUS
<1> DEFINE a == [c EXCEPT !.retry = @ + 1]
           s == nxe_disconnect_streams(a, "rb")
           l == [s EXCEPT !.handler = "lost"]
<1>1. /\ Idle /\ c.handler = "proxy" /\ c.state \in {"RECEIVING_BODY", "HANDLING"}
      /\ cur' = cur /\ pend' = pend
      /\ c' = (IF HasBody(s) THEN ReceiveBody(s, "proxy") ELSE s) \/ c' = l
  BY DEF BackendRetries
<1>2. Connected(c, "none") /\ Attended(c) /\ pend \in Seq(Pieces) /\ cur = "none" BY <1>1, BetweenEvents
<1>3. DOMAIN c = Fields /\ ~ c.in_worker /\ ~ InLoop(c, "received")
  BY <1>1, <1>2 DEF Connected, ListInv, HandlerInv, MessagesInv
<1>4. /\ DOMAIN a = Fields /\ a.events = c.events /\ a.tripped = c.tripped /\ KeptHandler(c, a)
      /\ KeptTimers(c, a) /\ KeptStreams(c, a) /\ KeptData(c, a)
  BY <1>3 DEF Fields, KeptHandler, KeptTimers, KeptStreams, KeptData
<1> HIDE DEF a
<1>5. DataInv(a) BY <1>2, <1>4 DEF Connected, DataInv, KeptHandler, KeptTimers, KeptData
<1>6. Connected(a, "none") /\ KeptList(c, a) /\ Attended(a) BY <1>2, <1>4, <1>5, DataChanges
<1>7. /\ Connected(s, "none") /\ Kept(a, s) /\ KeptTimers(a, s) /\ "rb" \notin s.pair
      /\ \A f : InLoop(s, f) <=> InLoop(a, f) /\ f # "rb"
  <2>1. "rb" \in Streams BY DEF Streams
  <2> QED BY <1>6, <2>1, Disconnect
<1> HIDE DEF s
<1>8. /\ s.handler = "proxy" /\ s.state = c.state /\ ~ s.in_worker /\ ~ InLoop(s, "received")
      /\ DOMAIN s = Fields
  BY <1>1, <1>3, <1>4, <1>6, <1>7 DEF KeptHandler, Kept, KeptList, Connected, ListInv
<1>9. Attended(s)
  <2>1. KeptHandler(a, s) /\ a.timers \subseteq s.timers BY <1>7 DEF Kept, KeptTimers
  <2>2. \A f \in Messages : InLoop(a, f) => InLoop(s, f) BY <1>7 DEF Messages
  <2> QED BY <1>6, <2>1, <2>2, AttendedStays
<1>10. CASE c' = ReceiveBody(s, "proxy")
  <2>1. Connected(c', "none") /\ Attended(c') BY <1>1, <1>7, <1>8, <1>9, <1>10, BodyHasReceiver
  <2> QED BY <1>1, <1>2, <2>1, GoesOn
<1>11. CASE c' = s BY <1>1, <1>2, <1>7, <1>9, <1>11, GoesOn
<1>12. CASE c' = l
  <2>1. /\ DOMAIN l = Fields /\ l.events = s.events /\ l.tripped = s.tripped
        /\ KeptTimers(s, l) /\ KeptStreams(s, l) /\ KeptData(s, l)
        /\ l.state = s.state /\ l.nxb = s.nxb /\ l.req = s.req /\ l.sink = s.sink
        /\ l.handler = "lost" /\ l.continue = s.continue /\ l.in_worker = s.in_worker
        /\ l.closing = s.closing /\ l.freed = s.freed
    BY <1>8 DEF Fields, KeptTimers, KeptStreams, KeptData
  <2> HIDE DEF l
  <2>2. \A f : InLoop(l, f) <=> InLoop(s, f) BY <2>1 DEF InLoop
  <2>3. ListInv(l) BY <1>7, <2>1 DEF Connected, ListInv, KeptStreams
  <2>4. DataInv(l) BY <1>7, <2>1 DEF Connected, DataInv, KeptTimers, KeptData
  <2>5. Woken(l, "none") BY <1>7, <2>1, <2>2 DEF Connected, Woken, Flowing, KeptStreams
  <2>6. MessagesInv(l) BY <1>1, <1>7, <1>8, <2>1, <2>2 DEF Connected, MessagesInv, KeptStreams, Sending
  <2>7. HandlerInv(l) BY <1>1, <1>7, <1>8, <2>1 DEF Connected, HandlerInv, KeptStreams
  <2>8. TimersFit(l) BY <1>7, <2>1, <2>2 DEF Connected, TimersFit, KeptTimers
  <2>9. OutputInv(l) BY <1>7, <2>1, <2>2 DEF Connected, OutputInv, KeptStreams
  <2>10. Connected(l, "none")
    BY <1>7, <2>1, <2>2, <2>3, <2>4, <2>5, <2>6, <2>7, <2>8, <2>9 DEF Connected
  <2>11. Attended(l) BY <1>9, <2>1, <2>2 DEF Attended, Failing, KeptTimers
  <2> QED BY <1>1, <1>2, <1>12, <2>10, <2>11, GoesOn
<1> QED BY <1>1, <1>10, <1>11, <1>12

LEMMA BackendTakes == LoopInv /\ BackendReads => LoopInv'
<1> SUFFICES ASSUME LoopInv, BackendReads PROVE LoopInv' OBVIOUS
<1> DEFINE a == [c EXCEPT !.retry = Retries]
           t == nxe_ostream_set_ready(a, "rb")
<1>1. Idle /\ cur' = cur /\ pend' = pend /\ c' = t BY DEF BackendReads
<1>2. Connected(c, "none") /\ Attended(c) /\ pend \in Seq(Pieces) /\ cur = "none" BY <1>1, BetweenEvents
<1>3. DOMAIN c = Fields BY <1>2 DEF Connected, ListInv
<1>4. /\ DOMAIN a = Fields /\ a.events = c.events /\ a.tripped = c.tripped /\ KeptHandler(c, a)
      /\ KeptTimers(c, a) /\ KeptStreams(c, a) /\ KeptData(c, a)
  BY <1>3 DEF Fields, KeptHandler, KeptTimers, KeptStreams, KeptData
<1> HIDE DEF a
<1>5. DataInv(a) BY <1>2, <1>4 DEF Connected, DataInv, KeptHandler, KeptTimers, KeptData
<1>6. Connected(a, "none") /\ Attended(a) BY <1>2, <1>4, <1>5, DataChanges
<1>7. /\ Connected(t, "none") /\ Kept(a, t) /\ KeptTimers(a, t)
      /\ \A f : InLoop(t, f) <=> InLoop(a, f) \/ (f = "rb" /\ a.is["rb"] /\ "rb" \in a.pair)
  <2>1. "rb" \in Streams BY DEF Streams
  <2>2. "rb" = "none" => ~ a.is["rb"] \/ "rb" \notin a.pair OBVIOUS
  <2>3. "rb" = "cb" => \/ a.state # "SENDING_BODY" \/ "cb" \notin a.pair
                       \/ ~ a.is["out"] /\ ~ InLoop(a, "out")
    OBVIOUS
  <2>4. Connected(a, "none") BY <1>6
  <2> QED BY <2>1, <2>2, <2>3, <2>4, SetOutput
<1> HIDE DEF t
<1>8. Attended(t) BY <1>6, <1>7, StillAttended
<1> QED BY <1>1, <1>2, <1>7, <1>8, GoesOn

(* Time and the client.                                                    *)
LEMMA TimeComes == ASSUME LoopInv, NEW m \in Timers, Expire(m) PROVE LoopInv'
<1>1. /\ ~ c.freed /\ m \in c.timers \ c.expired /\ c' = [c EXCEPT !.expired = @ \cup {m}]
      /\ cur' = cur /\ pend' = pend
  BY DEF Expire
<1>2. /\ Connected(c, cur) /\ Attended(c) /\ pend \in Seq(Pieces) /\ cur \in Streams \cup {"none"}
  BY <1>1, NotFreed
<1>3. DOMAIN c = Fields /\ DataInv(c) BY <1>2 DEF Connected, ListInv
<1>4. /\ DOMAIN c' = Fields /\ c'.events = c.events /\ c'.tripped = c.tripped /\ KeptHandler(c, c')
      /\ KeptStreams(c, c') /\ KeptData(c, c') /\ c'.timers = c.timers
      /\ c'.expired = c.expired \cup {m}
  BY <1>1, <1>3 DEF Fields, KeptHandler, KeptStreams, KeptData
<1>5. \A f : InLoop(c', f) <=> InLoop(c, f) BY <1>4 DEF InLoop
<1>6. ListInv(c') BY <1>2, <1>4 DEF Connected, ListInv, KeptStreams
<1>7. DataInv(c') BY <1>1, <1>3, <1>4 DEF DataInv, KeptHandler, KeptData
<1>8. Woken(c', cur) BY <1>2, <1>4, <1>5 DEF Connected, Woken, Flowing, KeptStreams
<1>9. MessagesInv(c') BY <1>2, <1>4, <1>5 DEF Connected, MessagesInv, KeptStreams, KeptHandler, HasBody
<1>10. HandlerInv(c') BY <1>2, <1>4 DEF Connected, HandlerInv, KeptStreams, KeptHandler
<1>11. TimersFit(c') BY <1>2, <1>4, <1>5 DEF Connected, TimersFit, KeptHandler
<1>12. OutputInv(c') BY <1>2, <1>4, <1>5 DEF Connected, OutputInv, KeptStreams, KeptHandler
<1>13. Connected(c', cur)
  BY <1>2, <1>4, <1>5, <1>6, <1>7, <1>8, <1>9, <1>10, <1>11, <1>12 DEF Connected, KeptHandler
<1>14. Attended(c') BY <1>2, <1>4, <1>5 DEF Attended, Failing, KeptHandler
<1> QED BY <1>1, <1>2, <1>13, <1>14, GoesOn

LEMMA PiecesAre ==
  /\ First \in Pieces /\ Body \in Pieces
  /\ \A n \in Nat, k \in Kinds : Last(n, k) \in Pieces
BY DEF First, Body, Last, Pieces

LEMMA ClientBeginning ==
  ASSUME LoopInv, NEW n \in BodySizes, NEW k \in Kinds, ClientBegins(n, k)
  PROVE  LoopInv'
<1> DEFINE h == IF k = "oversized" THEN [i \in 1 .. MaxHeaders |-> First] ELSE <<First>>
           b == [i \in 1 .. n |-> Body]
<1>1. ~ c.freed /\ c' = c /\ cur' = cur /\ pend' = h \o <<Last(n, k)>> \o b BY DEF ClientBegins
<1>2. Connected(c, cur) /\ Attended(c) /\ cur \in Streams \cup {"none"} BY <1>1, NotFreed
<1>3. n \in Nat /\ MaxHeaders \in Nat BY ProtoAssumption
<1>4. First \in Pieces /\ Body \in Pieces /\ Last(n, k) \in Pieces BY <1>3, PiecesAre
<1>5. h \in Seq(Pieces)
  <2>1. [i \in 1 .. MaxHeaders |-> First] \in [1 .. MaxHeaders -> Pieces] BY <1>4
  <2>2. [i \in 1 .. MaxHeaders |-> First] \in Seq(Pieces) BY <1>3, <2>1, SeqDef
  <2>3. <<First>> \in Seq(Pieces) BY <1>4
  <2> QED BY <2>2, <2>3
<1>6. b \in Seq(Pieces)
  <2>1. b \in [1 .. n -> Pieces] BY <1>4
  <2> HIDE DEF b
  <2> QED BY <1>3, <2>1, SeqDef
<1>7. <<Last(n, k)>> \in Seq(Pieces) BY <1>4
<1> DEFINE l == <<Last(n, k)>>
<1> HIDE DEF h, b, l
<1>8. h \o l \in Seq(Pieces) BY <1>5, <1>7, ConcatProperties DEF l
<1>9. (h \o l) \o b \in Seq(Pieces) BY <1>6, <1>8, ConcatProperties
<1>10. pend' \in Seq(Pieces) BY <1>1, <1>9 DEF l
<1> QED BY <1>1, <1>2, <1>10, GoesOn

LEMMA ClientSending == LoopInv /\ ClientSends => LoopInv'
<1> SUFFICES ASSUME LoopInv, ClientSends PROVE LoopInv' OBVIOUS
<1>1. ~ c.freed /\ cur' = cur BY DEF ClientSends
<1>2. PICK n \in 1 .. Len(pend) :
        /\ c' = [c EXCEPT !.wire = @ \o SubSeq(pend, 1, n)]
        /\ pend' = SubSeq(pend, n + 1, Len(pend))
  BY DEF ClientSends
<1>3. /\ Connected(c, cur) /\ Attended(c) /\ pend \in Seq(Pieces) /\ cur \in Streams \cup {"none"}
  BY <1>1, NotFreed
<1>4. DOMAIN c = Fields /\ DataInv(c) /\ c.wire \in Seq(Pieces) BY <1>3 DEF Connected, ListInv, DataInv
<1>5. n \in Nat /\ n <= Len(pend) BY <1>3, LenProperties
<1> DEFINE q == SubSeq(pend, 1, n)
<1>6. q \in Seq(Pieces) /\ pend' \in Seq(Pieces) BY <1>2, <1>3, <1>5, SubSeqKeeps
<1>7. c' = [c EXCEPT !.wire = @ \o q] BY <1>2
<1> HIDE DEF q
<1>8. c.wire \o q \in Seq(Pieces) BY <1>4, <1>6, ConcatProperties
<1>9. /\ DOMAIN c' = Fields /\ c'.events = c.events /\ c'.tripped = c.tripped /\ KeptHandler(c, c')
      /\ KeptTimers(c, c') /\ KeptStreams(c, c') /\ c'.wire = c.wire \o q /\ c'.room = c.room
      /\ c'.head = c.head /\ c'.chunk = c.chunk /\ c'.received = c.received
      /\ c'.stored = c.stored /\ c'.avail = c.avail
  BY <1>4, <1>7 DEF Fields, KeptHandler, KeptTimers, KeptStreams
<1>10. DataInv(c') BY <1>4, <1>8, <1>9 DEF DataInv, KeptHandler, KeptTimers
<1>11. Connected(c', cur) /\ Attended(c') BY <1>3, <1>9, <1>10, DataChanges
<1> QED BY <1>1, <1>3, <1>6, <1>11, GoesOn

LEMMA ClientReading == LoopInv /\ ClientReads => LoopInv'
<1> SUFFICES ASSUME LoopInv, ClientReads PROVE LoopInv' OBVIOUS
<1>1. ~ c.freed /\ cur' = cur /\ pend' = pend /\ c' = [c EXCEPT !.room = TxRoom] BY DEF ClientReads
<1>2. /\ Connected(c, cur) /\ Attended(c) /\ pend \in Seq(Pieces) /\ cur \in Streams \cup {"none"}
  BY <1>1, NotFreed
<1>3. DOMAIN c = Fields /\ DataInv(c) BY <1>2 DEF Connected, ListInv
<1>4. /\ DOMAIN c' = Fields /\ c'.events = c.events /\ c'.tripped = c.tripped /\ KeptHandler(c, c')
      /\ KeptTimers(c, c') /\ KeptStreams(c, c') /\ c'.wire = c.wire /\ c'.room = TxRoom
      /\ c'.head = c.head /\ c'.chunk = c.chunk /\ c'.received = c.received
      /\ c'.stored = c.stored /\ c'.avail = c.avail
  BY <1>1, <1>3 DEF Fields, KeptHandler, KeptTimers, KeptStreams
<1>5. DataInv(c') BY <1>3, <1>4, ProtoAssumption DEF DataInv, KeptHandler, KeptTimers
<1>6. Connected(c', cur) /\ Attended(c') BY <1>2, <1>4, <1>5, DataChanges
<1> QED BY <1>1, <1>2, <1>6, GoesOn

LEMMA ClientClosing == LoopInv /\ ClientCloses => LoopInv'
<1> SUFFICES ASSUME LoopInv, ClientCloses PROVE LoopInv' OBVIOUS
<1>1. ~ c.freed /\ cur' = cur /\ pend' = pend /\ c' = [c EXCEPT !.rdclosed = TRUE]
  BY DEF ClientCloses
<1>2. /\ Connected(c, cur) /\ Attended(c) /\ pend \in Seq(Pieces) /\ cur \in Streams \cup {"none"}
  BY <1>1, NotFreed
<1>3. DOMAIN c = Fields /\ DataInv(c) BY <1>2 DEF Connected, ListInv
<1>4. /\ DOMAIN c' = Fields /\ c'.events = c.events /\ c'.tripped = c.tripped /\ KeptHandler(c, c')
      /\ KeptTimers(c, c') /\ KeptStreams(c, c') /\ KeptData(c, c')
  BY <1>1, <1>3 DEF Fields, KeptHandler, KeptTimers, KeptStreams, KeptData
<1>5. DataInv(c') BY <1>3, <1>4 DEF DataInv, KeptHandler, KeptTimers, KeptData
<1>6. Connected(c', cur) /\ Attended(c') BY <1>2, <1>4, <1>5, DataChanges
<1> QED BY <1>1, <1>2, <1>6, GoesOn

-----------------------------------------------------------------------------
(* The theorems.                                                           *)

LEMMA InitHolds == Init => LoopInv
<1> SUFFICES ASSUME Init PROVE LoopInv OBVIOUS
<1>1. cur = "none" /\ pend = <<>> BY DEF Init
<1>2. /\ DOMAIN c = Fields /\ c.state = "WAITING_FOR_REQUEST" /\ c.timers = {"keep_alive"}
      /\ c.expired = {} /\ c.events = <<>> /\ c.is = [x \in Streams |-> FALSE]
      /\ c.os = [x \in Streams |-> x \in {"in", "cb"}] /\ c.pair = {"in", "out"}
      /\ c.tripped = FALSE /\ c.freed = FALSE /\ c.nxb = FALSE /\ c.sink = "none"
      /\ c.handler = "none" /\ c.in_worker = FALSE /\ c.closing = FALSE /\ c.continue = FALSE
      /\ c.wire = <<>> /\ c.head = <<>> /\ c.room = TxRoom /\ c.chunk = 0 /\ c.avail = 0
      /\ c.req = NoRequest /\ c.received = 0 /\ c.stored = 0
  BY DEF Init, Fields
<1>3. <<>> \in Seq(Pieces) /\ <<>> \in Seq(Streams \cup Messages) /\ Len(<<>>) = 0 BY EmptySeq
<1>4. \A f : ~ InLoop(c, f) BY <1>2, <1>3 DEF InLoop
<1>5. ListInv(c)
  <2>1. c.pair \subseteq Streams BY <1>2 DEF Streams
  <2>2. c.is \in [Streams -> BOOLEAN] /\ c.os \in [Streams -> BOOLEAN] BY <1>2
  <2>3. Ranked(c.events, Rank) BY <1>2, <1>3 DEF Ranked
  <2> QED BY <1>2, <1>3, <2>1, <2>2, <2>3 DEF ListInv
<1>6. DataInv(c)
  <2>1. c.state \in States /\ c.timers \subseteq Timers BY <1>2 DEF States, Timers
  <2>2. NoRequest.size = 0 BY DEF NoRequest
  <2> QED BY <1>2, <1>3, <2>1, <2>2, ProtoAssumption DEF DataInv
<1>7. Woken(c, "none") BY <1>2 DEF Woken, Flowing
<1>8. MessagesInv(c) BY <1>4 DEF MessagesInv
<1>9. HandlerInv(c) BY <1>2 DEF HandlerInv
<1>10. TimersFit(c) BY <1>2 DEF TimersFit
<1>11. OutputInv(c)
  <2>1. "out" \in Streams BY DEF Streams
  <2> QED BY <1>2, <2>1 DEF OutputInv
<1>12. Connected(c, "none")
  BY <1>2, <1>4, <1>5, <1>6, <1>7, <1>8, <1>9, <1>10, <1>11 DEF Connected
<1>13. Attended(c) BY <1>2 DEF Attended
<1> QED BY <1>1, <1>2, <1>3, <1>12, <1>13 DEF LoopInv

LEMMA StepHolds == LoopInv /\ [Next]_vars => LoopInv'
<1> SUFFICES ASSUME LoopInv, [Next]_vars PROVE LoopInv' OBVIOUS
<1>1. CASE LoopTurn BY <1>1, LoopTurns
<1>2. CASE \E x \in Streams : StreamBegin(x) BY <1>2, StreamBegins
<1>3. CASE \E x \in Streams : StreamRound(x) BY <1>3, StreamRoundDone
<1>4. CASE \E x \in Streams : StreamEnd(x) BY <1>4, StreamEnds
<1>5. CASE RequestReceivedDelivered BY <1>5, ReceivedDelivered
<1>6. CASE BodyReceivedDelivered BY <1>6, BodyDelivered
<1>7. CASE RequestCompleteDelivered BY <1>7, CompleteDelivered
<1>8. CASE DataErrorDelivered BY <1>8, SocketErrorDelivered
<1>9. CASE ErrorDelivered BY <1>9, FailureDelivered
<1>10. CASE WorkerComplete BY <1>10, WorkerAnswers
<1>11. CASE BackendResponds BY <1>11, BackendAnswers
<1>12. CASE BackendSends BY <1>12, BackendGoesOn
<1>13. CASE BackendFails BY <1>13, BackendBreaks
<1>14. CASE BackendReads BY <1>14, BackendTakes
<1>22. CASE BackendRetries BY <1>22, BackendRetried
<1>15. CASE \E m \in Timers : Expire(m) BY <1>15, TimeComes
<1>16. CASE \E n \in BodySizes, k \in Kinds : ClientBegins(n, k) BY <1>16, ClientBeginning
<1>17. CASE ClientSends BY <1>17, ClientSending
<1>18. CASE ClientReads BY <1>18, ClientReading
<1>19. CASE ClientCloses BY <1>19, ClientClosing
<1>20. CASE UNCHANGED vars
  <2>1. c' = c /\ cur' = cur /\ pend' = pend BY <1>20 DEF vars
  <2> QED BY <2>1 DEF LoopInv
<1>21. CASE Closed BY <1>20, <1>21 DEF Closed
<1> QED
  BY <1>1, <1>2, <1>3, <1>4, <1>5, <1>6, <1>7, <1>8, <1>9, <1>10, <1>11, <1>12, <1>13, <1>14,
     <1>15, <1>16, <1>17, <1>18, <1>19, <1>20, <1>21, <1>22
     DEF Next, NetStep, Client

(* The connection, its timers and its share of the loop's list fit         *)
(* together after every step of the network thread, of a worker, of a      *)
(* backend, of the clock and of the client.                                *)
THEOREM LoopInvariant == Spec => []LoopInv
<1> QED BY InitHolds, StepHolds, PTL DEF Spec

(* The assertions of nx_event.c hold, a request is completed once, and a   *)
(* finalized connection leaves no event and no timer in the loop, in every *)
(* order of data, errors, timeouts and answers.                            *)
THEOREM RulesHold == Spec => []LoopRulesHold
<1>1. LoopInv => LoopRulesHold
  <2> SUFFICES ASSUME LoopInv PROVE LoopRulesHold OBVIOUS
  <2>1. AssertionsHold BY DEF LoopInv, AssertionsHold, Connected, ListInv
  <2>2. ReleasedIsQuiet BY DEF LoopInv, ReleasedIsQuiet
  <2>3. CompleteOnce
    <3> DEFINE places == {i \in 1 .. Len(c.events) : c.events[i] = "complete"}
    <3> SUFFICES ASSUME InLoop(c, "complete")
                 PROVE  /\ c.state \in Sending /\ ~ c.is["out"] /\ ~ InLoop(c, "out")
                        /\ Cardinality(places) = 1
      BY DEF CompleteOnce
    <3>1. c.events # <<>>
      <4>1. Len(<<>>) = 0 BY EmptySeq
      <4> QED BY <4>1 DEF InLoop
    <3>2. Connected(c, cur) BY <3>1 DEF LoopInv
    <3>3. c.state \in Sending /\ ~ c.is["out"] /\ ~ InLoop(c, "out")
      BY <3>2 DEF Connected, MessagesInv
    <3>4. PICK k \in 1 .. Len(c.events) : c.events[k] = "complete" BY DEF InLoop
    <3>5. Ranked(c.events, Rank) /\ Len(c.events) \in Nat BY <3>2, LenProperties DEF Connected, ListInv
    <3>6. places = {k}
      <4>1. ASSUME NEW i \in 1 .. Len(c.events), c.events[i] = "complete" PROVE i = k
        <5>1. i \in Nat /\ k \in Nat BY <3>5
        <5>2. ~ (i < k) /\ ~ (k < i) BY <3>4, <3>5, <4>1, RankIs DEF Ranked
        <5> QED BY <5>1, <5>2
      <4> QED BY <3>4, <4>1
    <3> HIDE DEF places
    <3>7. Cardinality(places) = 1 BY <3>6, FS_Singleton
    <3> QED BY <3>3, <3>7
  <2> QED BY <2>1, <2>2, <2>3 DEF LoopRulesHold
<1> QED BY <1>1, LoopInvariant, PTL

(* A connection that waits is watched by a timer, or somebody has its      *)
(* request; and no stream that could flow is left without its event.       *)
THEOREM NothingStalls == Spec => []NeverStalls
<1>1. LoopInv => NeverStalls
  <2> SUFFICES ASSUME LoopInv, AtRest PROVE NeverStalls
    BY DEF NeverStalls, Watched, NoLostReadiness
  <2>1. Connected(c, "none") /\ Attended(c) BY BetweenEvents DEF AtRest
  <2>2. c.events = <<>> BY DEF AtRest
  <2>3. \A f : ~ InLoop(c, f)
    <3>1. Len(<<>>) = 0 BY EmptySeq
    <3> QED BY <2>2, <3>1 DEF InLoop
  <2>4. NoLostReadiness
    <3>1. c.pair \subseteq Streams /\ "none" \notin Streams BY <2>1 DEF Connected, ListInv, Streams
    <3>2. \A x \in Streams : ~ Flowing(c, x) BY <2>1, <2>3, <3>1 DEF Connected, Woken
    <3> QED BY <3>1, <3>2 DEF NoLostReadiness, Flowing
  <2>5. c.state \in States BY <2>1 DEF Connected, DataInv
  <2>6. CASE c.state = "WAITING_FOR_REQUEST"
    <3>1. "keep_alive" \in c.timers BY <2>1, <2>3, <2>6 DEF Attended, Failing, Sending, Receiving
    <3> QED BY <2>4, <2>6, <3>1 DEF NeverStalls, Watched, Sending
  <2>7. CASE c.state \in {"RECEIVING_HEADERS", "RECEIVING_BODY"}
    <3>1. "read" \in c.timers BY <2>1, <2>3, <2>7 DEF Attended, Failing, Sending, Receiving
    <3> QED BY <2>4, <2>7, <3>1 DEF NeverStalls, Watched, Sending
  <2>8. CASE c.state \in Sending
    <3>1. "write" \in c.timers BY <2>1, <2>3, <2>8 DEF Attended, Failing, Sending, Receiving
    <3> QED BY <2>4, <2>8, <3>1 DEF NeverStalls, Watched, Sending
  <2>9. CASE c.state = "HANDLING"
    <3>1. c.in_worker \/ c.handler \in {"proxy", "lost"}
      BY <2>1, <2>3, <2>9 DEF Attended, Failing, Sending, Receiving
    <3> QED BY <2>4, <2>9, <3>1 DEF NeverStalls, Watched, Sending
  <2> QED BY <2>5, <2>6, <2>7, <2>8, <2>9 DEF States
<1> QED BY <1>1, LoopInvariant, PTL
=============================================================================
