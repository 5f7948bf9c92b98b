----------------------------- MODULE ChunkedCodec -----------------------------
(***************************************************************************)
(* Chunked transfer encoding: the encoder of http_utils.c as               *)
(* nxd_http_server_proto.c drives it for a response's body, and the        *)
(* decoder of http_utils.c as a peer that runs the same code would use it. *)
(* Between them is a socket that takes any number of bytes of a write and  *)
(* hands over any number of bytes to a read.                               *)
(*                                                                         *)
(* Bytes are the strings "CR", "LF", the digits and letters; a chunk's     *)
(* size is written with four digits.                                       *)
(***************************************************************************)
EXTENDS Integers, Sequences, SequencesExt

CONSTANTS Contents,   \* the bodies
          MaxChunk,   \* the largest chunk, 0xffff in the code
          MaxSend     \* most bytes the socket takes in one call

ASSUME CodecAssumption ==
  /\ Contents \subseteq Seq({"CR", "LF", "0", "1", "2", "x"})
  /\ MaxChunk \in 1 .. 9 /\ MaxSend \in Nat

VARIABLES
  content,  \* the body
  avail,    \* bytes of it the source has got
  eof,      \* and it knows that they are all
  enc,      \* nxweb_chunked_encoder_state, with the bytes sent so far
  dec       \* nxweb_chunked_decoder_state, with the bytes read so far

codecVars == <<content, avail, eof, enc, dec>>

Digit == <<"0", "1", "2", "3", "4", "5", "6", "7", "8", "9">>
Value(d) == CHOOSE v \in 0 .. 9 : Digit[v + 1] = d
IsDigit(b) == b \in Range(Digit)

(* _nxweb_encode_chunked_init                                              *)
CodecInit ==
  /\ content \in Contents /\ avail \in {0, Len(content)} /\ eof \in {FALSE, avail = Len(content)}
  /\ enc = [buf |-> <<"CR", "LF", "0", "0", "0", "0", "CR", "LF">>, chunk_size |-> 0, pos |-> 2,
            header_prepared |-> FALSE, final_chunk |-> FALSE, tripped |-> FALSE,
            off |-> 0,       \* bytes of the body that were sent
            wire |-> <<>>,   \* all bytes that were sent
            room |-> 0]      \* bytes the socket will take still in this call
  /\ dec = [state |-> "SIZE", left |-> 0, final |-> FALSE, res |-> 0,
            taken |-> 0,     \* bytes read
            out |-> <<>>]    \* bytes decoded

-----------------------------------------------------------------------------
(* The encoder.                                                            *)

(* _nxweb_encode_chunked_advance                                           *)
advance(e, n) ==
  LET pos == e.pos + n
  IN  IF n > 0 /\ pos = 8 + e.chunk_size THEN [e EXCEPT !.pos = 0, !.header_prepared = FALSE]
      ELSE [e EXCEPT !.pos = pos]

(* write() of the next socket: it takes what it has room for.              *)
Send(e, data) ==
  LET n == IF Len(data) < e.room THEN Len(data) ELSE e.room
  IN  advance([e EXCEPT !.wire = @ \o SubSeq(data, 1, n), !.room = @ - n], n)

Header(n) == <<"CR", "LF", "0", "0", "0", Digit[n + 1], "CR", "LF">>
Final == <<"CR", "LF", "0", "CR", "LF", "CR", "LF", "LF">>

(* What _nxweb_encode_chunked_stream returns: the encoder's state, the     *)
(* bytes to send before the data, and how much of the data may follow.     *)
Encoded(e, pre, size) == [e |-> e, pre |-> pre, size |-> size]

(* A chunk of the offered size starts.                                     *)
NewChunk(e, offered) ==
  LET n == IF offered > MaxChunk THEN MaxChunk ELSE offered
      f == [e EXCEPT !.chunk_size = n, !.header_prepared = TRUE, !.buf = Header(n)]
  IN  Encoded(f, SubSeq(f.buf, f.pos + 1, 8), n)

(* How much of the offered data belongs to the chunk.                      *)
Clipped(e, offered, left) == IF offered > left THEN left ELSE offered

nxweb_encode_chunked_stream(e, offered, last) ==
  CASE e.final_chunk ->
         Encoded([e EXCEPT !.tripped = @ \/ ~ last], SubSeq(e.buf, e.pos + 1, 7), offered)
    [] ~ e.final_chunk /\ e.pos <= 2 /\ ~ e.header_prepared ->
         IF offered > 0 THEN NewChunk(e, offered)
         ELSE IF last
              THEN Encoded([e EXCEPT !.final_chunk = TRUE, !.buf = Final],
                           SubSeq(Final, e.pos + 1, 7), 0)
              ELSE Encoded(e, SubSeq(e.buf, e.pos + 1, 2), 0)
    [] ~ e.final_chunk /\ (e.pos > 2 \/ e.header_prepared) /\ e.pos < 8 ->
         Encoded([e EXCEPT !.tripped = @ \/ offered < e.chunk_size],
                 SubSeq(e.buf, e.pos + 1, 8), Clipped(e, offered, e.chunk_size))
    [] ~ e.final_chunk /\ e.pos >= 8 ->
         LET left == e.chunk_size - (e.pos - 8)
         IN  Encoded([e EXCEPT !.tripped = @ \/ offered < left], <<>>, Clipped(e, offered, left))

(* resp_body_in_write_or_sendfile of data: what is before the chunk's      *)
(* data, the data, and, when all that was written, the end of the chunk or *)
(* of the body.                                                            *)
resp_body_in_write(e, data, last) ==
  LET x == nxweb_encode_chunked_stream(e, Len(data), last)
      a == Send(x.e, x.pre)
      skip1 == e.room < Len(x.pre)
      b == IF skip1 THEN a ELSE Send(a, SubSeq(data, 1, x.size))
      sent == IF skip1 THEN 0 ELSE Len(b.wire) - Len(a.wire)
      skip2 == skip1 \/ sent # x.size
      y == nxweb_encode_chunked_stream(b, 0, last /\ x.size = Len(data))
  IN  [(IF skip2 THEN b ELSE Send(y.e, y.pre)) EXCEPT !.off = e.off + sent, !.room = 0]

(* _nxweb_encode_chunked_is_complete: request_complete.                    *)
IsComplete(e) == e.final_chunk /\ e.pos = 7

-----------------------------------------------------------------------------
(* The decoder: the loop of _nxweb_decode_chunked_stream over a buffer.    *)
(* x.buf[1 .. x.p] has been looked at, x.buf[1 .. x.d] is decoded.         *)

(* Mutant of AfterSize: the digits are not removed.                        *)
AfterSizeKept(x) == [x EXCEPT !.state = "DATA", !.p = @ + 1]

(* LF2: memmove, what was framing is removed from the buffer.              *)
AfterSize(x) ==
  [x EXCEPT !.state = "DATA", !.p = x.d,
            !.buf = SubSeq(@, 1, x.d) \o SubSeq(@, x.p + 2, Len(@))]

DecodeStep(x) ==
  LET b == x.buf[x.p + 1]
      error == [x EXCEPT !.res = 3]
  IN  CASE x.state = "DATA" ->
             IF Len(x.buf) - x.p >= x.left
             THEN [x EXCEPT !.p = @ + x.left, !.d = x.p + x.left, !.left = 0, !.state = "CR1"]
             ELSE [x EXCEPT !.left = @ - (Len(x.buf) - x.p), !.p = Len(x.buf), !.d = Len(x.buf)]
        [] x.state = "CR1" -> IF b # "CR" THEN error ELSE [x EXCEPT !.p = @ + 1, !.state = "LF1"]
        [] x.state = "LF1" ->
             IF b # "LF" THEN error
             ELSE IF x.final THEN [x EXCEPT !.res = 1]
             ELSE [x EXCEPT !.p = @ + 1, !.state = "SIZE"]
        [] x.state = "SIZE" ->
             IF b = "CR" THEN [x EXCEPT !.final = @ \/ x.left = 0, !.p = @ + 1, !.state = "LF2"]
             ELSE IF IsDigit(b) THEN [x EXCEPT !.left = @ * 16 + Value(b), !.p = @ + 1]
             ELSE error
        [] x.state = "LF2" -> IF b # "LF" THEN error ELSE AfterSize(x)

(* while (p < end)                                                         *)
nxweb_decode_chunked_stream(s, buf) ==
  LET start == [state |-> s.state, left |-> s.left, final |-> s.final, res |-> 0,
                buf |-> buf, p |-> 0, d |-> 0]
      loop[k \in 0 .. 2 * Len(buf) + 2] ==
        IF k = 0 THEN start
        ELSE LET x == loop[k - 1] IN IF x.p < Len(x.buf) /\ x.res = 0 THEN DecodeStep(x) ELSE x
      x == loop[2 * Len(buf) + 2]
  IN  [state |-> x.state, left |-> x.left, final |-> x.final, res |-> x.res,
       taken |-> s.taken + Len(buf), out |-> s.out \o SubSeq(x.buf, 1, x.d)]

-----------------------------------------------------------------------------
(* The source gets a byte, or learns that there are no more.               *)
SourceGets ==
  /\ ~ eof /\ UNCHANGED <<content, enc, dec>>
  /\ \/ avail < Len(content) /\ avail' = avail + 1 /\ UNCHANGED eof
     \/ avail = Len(content) /\ eof' = TRUE /\ UNCHANGED avail

(* The source writes all it has; the socket takes n bytes.                 *)
Write ==
  /\ ~ IsComplete(enc) /\ (avail > enc.off \/ (eof /\ avail = Len(content)))
  /\ \E n \in 0 .. MaxSend :
       enc' = resp_body_in_write([enc EXCEPT !.room = n], SubSeq(content, enc.off + 1, avail),
                                 eof /\ avail = Len(content))
  /\ UNCHANGED <<content, avail, eof, dec>>

(* The peer reads some of the bytes that were sent.                        *)
Receive ==
  /\ dec.res = 0 /\ UNCHANGED <<content, avail, eof, enc>>
  /\ \E n \in dec.taken + 1 .. Len(enc.wire) :
       dec' = nxweb_decode_chunked_stream(dec, SubSeq(enc.wire, dec.taken + 1, n))

CodecNext == SourceGets \/ Write \/ Receive
CodecSpec == CodecInit /\ [][CodecNext]_codecVars

-----------------------------------------------------------------------------
(* The reference: _nxweb_decode_chunked of a whole body, the chunks one    *)
(* after another; here from position p, at most n chunks, or Bad.          *)
Bad == <<"bad">>
SizeEnd(w, p) == CHOOSE q \in p .. Len(w) : w[q] = "LF" /\ \A i \in p .. q - 1 : w[i] # "LF"
ChunkSize(w, p) ==
  LET digits == SelectSeq(SubSeq(w, p, SizeEnd(w, p)), IsDigit)
  IN  FoldLeft(LAMBDA v, d : v * 16 + Value(d), 0, digits)
nxweb_decode_chunked(w) ==
  LET from[n \in 0 .. Len(w), p \in 1 .. Len(w)] ==
        IF n = 0 \/ ~ \E q \in p .. Len(w) : w[q] = "LF" THEN Bad
        ELSE LET size == ChunkSize(w, p)
                 data == SizeEnd(w, p) + 1
                 next == data + size + 2
             IN  IF size = 0 THEN <<>>
                 ELSE IF next > Len(w) \/ w[next - 2] # "CR" \/ w[next - 1] # "LF" THEN Bad
                 ELSE SubSeq(w, data, data + size - 1) \o from[n - 1, next]
  IN  IF w = <<>> THEN Bad ELSE from[Len(w), 1]

-----------------------------------------------------------------------------
CodecTypeOK ==
  /\ content \in Contents /\ avail \in 0 .. Len(content) /\ eof \in BOOLEAN
  /\ enc.pos \in Nat /\ enc.off \in 0 .. avail /\ enc.room = 0
  /\ dec.state \in {"DATA", "CR1", "LF1", "SIZE", "LF2"} /\ dec.taken <= Len(enc.wire)

(* The encoder's assertions hold however few bytes the socket takes and    *)
(* however the source grows ("can't reduce offered_size").                 *)
EncoderAssertions == ~ enc.tripped

(* However the bytes are cut by writes and by reads, the decoder gives the *)
(* body's bytes in order, has them all when it says it is at the end, and  *)
(* never refuses what the encoder sends.                                   *)
DecodesSent ==
  /\ dec.res # 3 /\ IsPrefix(dec.out, content)
  /\ dec.res = 1 => dec.out = content

(* A body that the encoder takes for complete is one that the decoder      *)
(* finds complete as soon as it has read it, and is the body as the        *)
(* decoder of whole buffers reads it.                                      *)
CompleteForBoth ==
  IsComplete(enc) =>
    /\ enc.off = Len(content) /\ nxweb_decode_chunked(enc.wire) = content
    /\ dec.taken = Len(enc.wire) => dec.res = 1

(* The encoder of _nxweb_encode_chunked_stream and the decoder of          *)
(* _nxweb_decode_chunked_stream are each other's inverse, whatever the     *)
(* sizes of writes and reads.                                              *)
CodecSound == EncoderAssertions /\ DecodesSent /\ CompleteForBoth
=============================================================================
