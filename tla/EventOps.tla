------------------------------ MODULE EventOps ------------------------------
(***************************************************************************)
(* The calls of nx_event.h and nx_event.c that protocol code makes on the  *)
(* event loop, as operators on a record s that holds what they change:     *)
(*   s.events  the loop's list of events, oldest first.  The event of a    *)
(*             stream is the name of the stream, a message is its data;    *)
(*   s.is, s.os  the ready flags of the istream and the ostream of each    *)
(*             stream;                                                     *)
(*   s.pair    the streams whose two ends are connected;                   *)
(*   s.timers  the timers that are set;                                    *)
(*   s.expired those of them whose time has come;                          *)
(*   s.tripped an assertion has failed.                                    *)
(***************************************************************************)
EXTENDS Integers, Sequences, FiniteSets

InLoop(s, e) == \E i \in 1 .. Len(s.events) : s.events[i] = e

(* The events of the list q that have a rank come in the order of the      *)
(* ranks, each at most once.                                               *)
Ranked(q, rank) ==
  \A i, j \in 1 .. Len(q) :
    i < j /\ q[i] \in DOMAIN rank /\ q[j] \in DOMAIN rank => rank[q[i]] < rank[q[j]]

(* An event that is in the list must not be linked again (an assertion).   *)
nxe_link(s, e) ==
  [s EXCEPT !.events = Append(@, e), !.tripped = @ \/ InLoop(s, e)]

(* The event e, which is in the list, is taken out.                        *)
nxe_unlink(s, e) ==
  LET i == CHOOSE j \in 1 .. Len(s.events) : s.events[j] = e
  IN  [s EXCEPT !.events = SubSeq(@, 1, i - 1) \o SubSeq(@, i + 1, Len(@))]

(* A message; every message is an event of its own.                        *)
nxe_publish(s, m) == [s EXCEPT !.events = Append(@, m)]

(* The subscriber of the messages is unsubscribed: those of them that are  *)
(* in the list are taken out.  The k-th event is then the k-th that stays. *)
nxe_unsubscribe(s, messages) ==
  LET stays == {i \in 1 .. Len(s.events) : s.events[i] \notin messages}
      place == [i \in stays |-> Cardinality({j \in stays : j <= i})]
  IN  [s EXCEPT !.events =
         [k \in 1 .. Cardinality(stays) |-> s.events[CHOOSE i \in stays : place[i] = k]]]

-----------------------------------------------------------------------------
(* Streams.                                                                *)

(* Mutant of Wake: the receiver finds out by itself.                       *)
WakeNobody(s, x) == s

(* Both ends ready and connected: the stream's event is linked, once.      *)
Wake(s, x) ==
  IF x \in s.pair /\ s.is[x] /\ s.os[x] /\ ~ InLoop(s, x) THEN nxe_link(s, x) ELSE s

nxe_istream_set_ready(s, x) ==
  IF s.is[x] THEN s ELSE Wake([s EXCEPT !.is[x] = TRUE], x)

nxe_istream_unset_ready(s, x) == [s EXCEPT !.is[x] = FALSE]

nxe_ostream_set_ready(s, x) == Wake([s EXCEPT !.os[x] = TRUE], x)

nxe_ostream_unset_ready(s, x) == [s EXCEPT !.os[x] = FALSE]

nxe_connect_streams(s, x) ==
  LET t == [s EXCEPT !.pair = @ \cup {x}]
  IN  IF t.is[x] /\ t.os[x] THEN nxe_link(t, x) ELSE t

nxe_disconnect_streams(s, x) ==
  LET t == [s EXCEPT !.pair = @ \ {x}]
  IN  IF InLoop(t, x) THEN nxe_unlink(t, x) ELSE t

(* The condition of the loops in stream_event_deliver.                     *)
Flowing(s, x) == s.is[x] /\ s.os[x] /\ x \in s.pair

-----------------------------------------------------------------------------
(* Timers.                                                                 *)

(* "setting the same timer twice leads to unpredictable results": an       *)
(* assertion.                                                              *)
nxe_set_timer(s, t) ==
  [s EXCEPT !.timers = @ \cup {t}, !.tripped = @ \/ t \in s.timers]

nxe_unset_timer(s, t) == [s EXCEPT !.timers = @ \ {t}, !.expired = @ \ {t}]

(* nxe_process_timers: every expired timer is unset and its callback       *)
(* publishes the message m.                                                *)
nxe_process_timers(s, m) ==
  [s EXCEPT !.timers = @ \ s.expired, !.expired = {},
            !.events = @ \o [i \in 1 .. Cardinality(s.expired) |-> m]]
=============================================================================
