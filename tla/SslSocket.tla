------------------------------ MODULE SslSocket ------------------------------
(***************************************************************************)
(* The TLS socket of nxd_ssl_socket.c between the kernel and the HTTP      *)
(* protocol.  The first read or write of the protocol starts the           *)
(* handshake: the protocol's streams are put aside (saved_is, saved_os)    *)
(* and two stub streams take their place, which only carry the handshake   *)
(* on when the socket becomes readable or writable; when it is complete    *)
(* the protocol's streams are connected again.                             *)
(*                                                                         *)
(* Streams: "in" from the socket to the protocol, "out" back, "hin" and    *)
(* "hout" the same ends of the socket connected to the stubs.  GnuTLS, the *)
(* kernel, the client and the protocol above are modelled by what they     *)
(* mean to the socket: the handshake is a script of pieces to read and to  *)
(* write, the request ReqSize pieces, the response RespSize.               *)
(*                                                                         *)
(* An error is a message, and the protocol answers it with one of its own, *)
(* on which the connection is finalized: "error" and "close" wait in the   *)
(* list of events, and what is in the list before them is still delivered. *)
(***************************************************************************)
EXTENDS EventOps

CONSTANTS Script,    \* the handshake as the server sees it: "r" and "w"
          ReqSize, RespSize,
          SendRoom,  \* pieces the socket's send buffer holds
          BadHellos  \* whether the client may send what is no handshake

ASSUME SslAssumption ==
  /\ Script \in Seq({"r", "w"}) /\ ReqSize \in Nat \ {0} /\ RespSize \in Nat \ {0}
  /\ SendRoom \in Nat \ {0} /\ BadHellos \subseteq BOOLEAN

VARIABLES ssl,  \* the socket, its streams and the ends of the connection
          at    \* the stream whose event is being delivered, or "idle"

sslVars == <<ssl, at>>

SslStreams == {"in", "out", "hin", "hout"}
SslMessages == {"error", "close"}

SslInit ==
  /\ at = "idle"
  /\ \E bad \in BadHellos :
       ssl = [events |-> <<>>, pair |-> {"in", "out"}, tripped |-> FALSE,
              is |-> [x \in SslStreams |-> FALSE], os |-> [x \in SslStreams |-> x = "in"],
              started |-> FALSE, complete |-> FALSE, failed |-> FALSE,
              step |-> 0,       \* steps of the script that are done
              rx |-> <<>>,      \* pieces the kernel has received
              rdclosed |-> FALSE, room |-> SendRoom,
              edge |-> TRUE,    \* epoll_wait has the socket to report
              record |-> 0,     \* pieces in the record GnuTLS could not send yet
              flushed |-> 0,    \* and how many of them were sent
              wire |-> <<>>,    \* pieces of the response that were sent
              got |-> 0,        \* pieces of the request the protocol has read
              off |-> 0,        \* pieces of the response it takes for sent
              avail |-> 0,      \* pieces of the response it has
              closed |-> FALSE, \* the connection was finalized
              sent |-> 0,       \* pieces the client has sent
              bad |-> bad]

Reads(n) == Cardinality({i \in 1 .. n : Script[i] = "r"})

-----------------------------------------------------------------------------
(* Both pairs share the socket's ends, and so their ready flags.           *)
SetReadable(s) == nxe_istream_set_ready(nxe_istream_set_ready(s, "in"), "hin")
SetWritable(s) == nxe_ostream_set_ready(nxe_ostream_set_ready(s, "out"), "hout")
UnsetReadable(s) == nxe_istream_unset_ready(nxe_istream_unset_ready(s, "in"), "hin")
UnsetWritable(s) == nxe_ostream_unset_ready(nxe_ostream_unset_ready(s, "out"), "hout")

(* gnutls_handshake: as many steps of the script as can be done now.       *)
CanStep(s) ==
  s.step < Len(Script) /\ IF Script[s.step + 1] = "r" THEN s.rx # <<>> /\ Head(s.rx) = "h" ELSE s.room > 0
HandshakeStep(s) ==
  IF ~ CanStep(s) THEN s
  ELSE IF Script[s.step + 1] = "r" THEN [s EXCEPT !.step = @ + 1, !.rx = Tail(@)]
  ELSE [s EXCEPT !.step = @ + 1, !.room = @ - 1]
gnutls_handshake(s) ==
  LET run[k \in 0 .. Len(Script)] == IF k = 0 THEN s ELSE HandshakeStep(run[k - 1])
  IN  run[Len(Script)]
HandshakeError(s) ==
  /\ s.step < Len(Script) /\ Script[s.step + 1] = "r"
  /\ IF s.rx = <<>> THEN s.rdclosed ELSE Head(s.rx) # "h"

(* The stubs take the place of the protocol's streams ...                  *)
StartHandshake(s) ==
  LET t == nxe_connect_streams(nxe_disconnect_streams([s EXCEPT !.started = TRUE], "out"), "hout")
      u == nxe_istream_set_ready(t, "hout")
  IN  nxe_ostream_set_ready(nxe_connect_streams(nxe_disconnect_streams(u, "in"), "hin"), "hin")

(* ... and are replaced by them again.                                     *)
FinishHandshake(s) ==
  LET t == nxe_disconnect_streams(nxe_istream_unset_ready([s EXCEPT !.complete = TRUE], "hout"), "hout")
      u == nxe_disconnect_streams(nxe_ostream_unset_ready(nxe_connect_streams(t, "out"), "hin"), "hin")
  IN  nxe_connect_streams(u, "in")

HandshakeDone(s) == s.step = Len(Script)

do_handshake(s) ==
  LET a == [s EXCEPT !.tripped = @ \/ s.complete \/ s.failed]
      t == gnutls_handshake(IF s.started THEN a ELSE StartHandshake(a))
  IN  IF HandshakeDone(t) THEN FinishHandshake(t)
      ELSE IF HandshakeError(t) THEN nxe_publish([t EXCEPT !.failed = TRUE], "error")
      ELSE t

(* Mutant of handshake_stub_is_do_write: it does not ask whether the       *)
(* handshake has failed.                                                   *)
StubAfterFailure(s) ==
  LET t == do_handshake(s) IN IF t.complete THEN t ELSE UnsetWritable(t)

(* The handshake is complete, or the end of the socket that was tried is   *)
(* not ready any more.                                                     *)
handshake_stub_is_do_write(s) ==
  LET t == IF s.failed THEN s ELSE do_handshake(s) IN IF t.complete THEN t ELSE UnsetWritable(t)
handshake_stub_os_do_read(s) ==
  LET t == IF s.failed THEN s ELSE do_handshake(s) IN IF t.complete THEN t ELSE UnsetReadable(t)

-----------------------------------------------------------------------------
(* sock_data_recv_read: a piece, the end, or nothing yet (E_AGAIN).        *)
sock_data_recv_read(s) ==
  LET t == IF s.complete THEN s ELSE do_handshake(s)
  IN  IF ~ t.complete THEN UnsetReadable(t)
      ELSE IF t.rx # <<>> THEN [t EXCEPT !.rx = Tail(@), !.got = @ + 1]
      ELSE LET u == UnsetReadable(t) IN IF t.rdclosed THEN nxe_publish(u, "error") ELSE u

(* A record that was not sent is sent first, whatever is offered now.      *)
Record(s, size) == IF s.record > 0 THEN s.record ELSE size

(* gnutls_record_send of the size pieces from s.off on.                    *)
gnutls_record_send(s, size) ==
  LET n == Record(s, size)
      left == n - s.flushed
      k == IF left < s.room THEN left ELSE s.room
      t == [s EXCEPT !.room = @ - k,
                     !.wire = @ \o [i \in 1 .. k |-> s.off + s.flushed + i]]
  IN  IF k = left THEN [t EXCEPT !.record = 0, !.flushed = 0, !.off = @ + n]
      ELSE [UnsetWritable(t) EXCEPT !.record = n, !.flushed = @ + k]

(* sock_data_send_write of all the protocol has: GNUTLS_E_AGAIN counts for *)
(* nothing sent.                                                           *)
sock_data_send_write(s) ==
  LET t == IF s.complete THEN s ELSE do_handshake(s)
  IN  IF ~ t.complete THEN UnsetWritable(t)
      ELSE IF t.avail > t.off THEN gnutls_record_send(t, t.avail - t.off) ELSE t

(* The protocol: it reads the request, then it answers; a response that    *)
(* has nothing to send at the moment is not ready.                         *)
SslDoRead(s) ==
  LET t == sock_data_recv_read(s)
  IN  IF t.got = ReqSize /\ t.os["in"]
      THEN nxe_istream_set_ready(nxe_ostream_unset_ready([t EXCEPT !.avail = 1], "in"), "out")
      ELSE t
SslDoWrite(s) ==
  LET t == sock_data_send_write(s)
  IN  IF t.off = t.avail THEN nxe_istream_unset_ready(t, "out") ELSE t

-----------------------------------------------------------------------------
Open == ~ ssl.closed

Upcoming(e) == Open /\ at = "idle" /\ ssl.events # <<>> /\ Head(ssl.events) = e

SslDeliver ==
  /\ \E x \in SslStreams : Upcoming(x) /\ at' = x
  /\ ssl' = [ssl EXCEPT !.events = Tail(@)]

(* The protocol passes the error on to the connection ...                  *)
data_error_on_message ==
  /\ Upcoming("error") /\ UNCHANGED at
  /\ ssl' = nxe_publish([ssl EXCEPT !.events = Tail(@)], "close")

(* ... which closes it; what is left in the list goes with it.             *)
SslClose ==
  /\ Upcoming("close") /\ UNCHANGED at
  /\ ssl' = [ssl EXCEPT !.events = <<>>, !.closed = TRUE]

SslRound ==
  /\ Open /\ at # "idle" /\ Flowing(ssl, at) /\ UNCHANGED at
  /\ ssl' = CASE at = "in" -> SslDoRead(ssl)
              [] at = "out" -> SslDoWrite(ssl)
              [] at = "hin" -> handshake_stub_os_do_read(ssl)
              [] at = "hout" -> handshake_stub_is_do_write(ssl)

SslEndDelivery ==
  /\ Open /\ at # "idle" /\ ~ Flowing(ssl, at) /\ at' = "idle" /\ UNCHANGED ssl

(* epoll_wait, when all events are delivered, and fd_source_emit: an edge  *)
(* of either kind reports the socket's whole state; that the client has    *)
(* closed its end is an error (EPOLLRDHUP).                                *)
Poll ==
  /\ Open /\ at = "idle" /\ ssl.events = <<>> /\ ssl.edge /\ UNCHANGED at
  /\ LET s == [ssl EXCEPT !.edge = FALSE]
         t == IF s.rx # <<>> \/ s.rdclosed THEN SetReadable(s) ELSE s
         u == IF s.room > 0 THEN SetWritable(t) ELSE t
     IN  ssl' = IF s.rdclosed THEN nxe_publish(u, "error") ELSE u

(* The response grows while it is being sent.                              *)
ResponseGrows ==
  /\ Open /\ at = "idle" /\ ssl.avail \in 1 .. RespSize - 1 /\ UNCHANGED at
  /\ ssl' = nxe_istream_set_ready([ssl EXCEPT !.avail = @ + 1], "out")

(* The client: its handshake, which waits for what the server has to send  *)
(* before, then the request.  It need not wait for the server's last part. *)
Expected == \* how many pieces the client may have sent
  LET waits == {i \in ssl.step + 1 .. Len(Script) : Script[i] = "w"}
      upto == CHOOSE i \in 0 .. Len(Script) :
                /\ \A j \in waits : j > i
                /\ i < Len(Script) => i + 1 \in waits
  IN  IF Reads(upto) < Reads(Len(Script)) THEN Reads(upto) ELSE Reads(Len(Script)) + ReqSize

ClientSends ==
  /\ Open /\ ssl.sent < Expected /\ ~ ssl.rdclosed /\ UNCHANGED at
  /\ ssl' = [ssl EXCEPT !.sent = @ + 1, !.edge = TRUE,
       !.rx = Append(@, IF ssl.sent >= Reads(Len(Script)) THEN "d"
                        ELSE IF ssl.bad /\ ssl.sent = 0 THEN "bad" ELSE "h")]

ClientReceives ==
  /\ Open /\ ssl.room < SendRoom /\ UNCHANGED at
  /\ ssl' = [ssl EXCEPT !.room = @ + 1, !.edge = TRUE]

ClientCloses ==
  /\ Open /\ ~ ssl.rdclosed /\ UNCHANGED at
  /\ ssl' = [ssl EXCEPT !.rdclosed = TRUE, !.edge = TRUE]

SslProgress ==
  \/ SslDeliver \/ data_error_on_message \/ SslClose \/ SslRound \/ SslEndDelivery \/ Poll
  \/ ResponseGrows \/ ClientSends \/ ClientReceives
SslNext == SslProgress \/ ClientCloses
SslSpec == SslInit /\ [][SslNext]_sslVars

(* When a step of SslProgress can be taken; its ENABLED, spelt out.        *)
SslCanProgress ==
  /\ Open
  /\ \/ at # "idle" \/ ssl.events # <<>> \/ ssl.edge \/ ssl.avail \in 1 .. RespSize - 1
     \/ (ssl.sent < Expected /\ ~ ssl.rdclosed) \/ ssl.room < SendRoom

(* The loop runs, epoll reports, the client goes on, the response grows to *)
(* its end: this is WF_sslVars(SslProgress).                               *)
SslFairness == []<>~ SslCanProgress \/ []<><<SslProgress>>_sslVars

-----------------------------------------------------------------------------
(* Types; never more is taken for sent than the protocol has offered.      *)
SslTypeOK ==
  /\ at \in SslStreams \cup {"idle"} /\ ssl.pair \subseteq SslStreams
  /\ ssl.step \in 0 .. Len(Script) /\ ssl.room \in 0 .. SendRoom
  /\ ssl.got \in 0 .. ReqSize /\ ssl.off \in 0 .. ssl.avail /\ ssl.avail \in 0 .. RespSize

(* The handshake is not tried again after it has ended, well or not (the   *)
(* assertion in do_handshake), though events of both stubs may still be in *)
(* the list before the message that it has failed; no event is linked      *)
(* twice, and the protocol is connected to the socket on both sides or on  *)
(* none.                                                                   *)
HandshakeOnce ==
  /\ ~ ssl.tripped
  /\ ssl.pair = IF ssl.started /\ ~ ssl.complete THEN {"hin", "hout"} ELSE {"in", "out"}

(* The client gets the pieces of the response in order, each once, though  *)
(* GnuTLS keeps what it could not send and the protocol offers it again    *)
(* with what has come since ("so we can't change it anymore").             *)
RecordsInOrder ==
  /\ ssl.wire = [i \in 1 .. Len(ssl.wire) |-> i]
  /\ Len(ssl.wire) = ssl.off + ssl.flushed

(* The two together: what users of the socket may rely on                  *)
(* (nxd_ssl_socket.c).                                                     *)
TlsSound == HandshakeOnce /\ RecordsInOrder

(* A connection is through the handshake, its request and its response, or *)
(* it is closed.                                                           *)
TlsOver == ssl.closed \/ ssl.off = RespSize
=============================================================================
