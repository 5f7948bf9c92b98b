------------------------------- MODULE Socket -------------------------------
(***************************************************************************)
(* The two ends of a socket (nxd_socket.c) on the streams "in" and "out",  *)
(* on top of EventOps.  What they change of the record s, besides:         *)
(*   s.wire      pieces received by the kernel, not yet read;              *)
(*   s.rdclosed  the peer has closed its end;                              *)
(*   s.room      free pieces of the send buffer.                           *)
(***************************************************************************)
EXTENDS EventOps

Minimum(m, n) == IF m < n THEN m ELSE n

(* sock_data_recv_read: up to size pieces; a short read clears the ready   *)
(* flag, and a read of nothing from a closed socket is an error.           *)
sock_data_recv_read(s, size) ==
  LET n == IF s.is["in"] THEN Minimum(Len(s.wire), size) ELSE 0
      short == s.is["in"] /\ n < size
      t == [s EXCEPT !.wire = SubSeq(@, n + 1, Len(@)),
                     !.is["in"] = @ /\ ~ short]
  IN  IF short /\ n = 0 /\ s.rdclosed THEN nxe_publish(t, "data_error") ELSE t

(* Mutant of Sent: the size of the send buffer is ignored.                 *)
SentAll(s, size) == IF s.os["out"] THEN size ELSE 0

(* sock_data_send_write of size pieces: a short write clears the flag.     *)
Sent(s, size) == IF s.os["out"] THEN Minimum(s.room, size) ELSE 0
sock_data_send_write(s, size) ==
  [s EXCEPT !.room = @ - Sent(s, size),
            !.os["out"] = @ /\ Sent(s, size) = size]
=============================================================================
