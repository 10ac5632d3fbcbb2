---------------------------- MODULE QuicStreams ----------------------------
(***************************************************************************)
(* NnrpQuicConnection (adapters/quic.py): control packets share one        *)
(* bidirectional stream, a submit or a result has a unidirectional stream  *)
(* of its own, and the bytes of a stream arrive in chunks of any size,     *)
(* interleaved with those of others.                                       *)
(*                                                                         *)
(* A stream id is as in QUIC: bit 1 is set for a unidirectional stream.    *)
(***************************************************************************)
EXTENDS RuntimeFrames

NoStream == -1

IsUnidirectionalStream(stream) == (stream \div 2) % 2 = 1

---------------------------------------------------------------------------
(* Sending: the streams a side has written, its control stream and the     *)
(* stream ids QUIC gives out next (external).                              *)

QuicSender(control, bidi, uni) == [streams |-> <<>>, control |-> control, bidi |-> bidi, uni |-> uni]

EnsureControlStream(s) == IF s.control = NoStream THEN [s EXCEPT !.control = s.bidi, !.bidi = @ + 4] ELSE s

Written(s, stream) == IF stream \in DOMAIN s.streams THEN s.streams[stream] ELSE <<>>

WriteStream(s, stream, p) == [s EXCEPT !.streams = (stream :> Append(Written(s, stream), p)) @@ @]

SendUnidirectionalPacket(s, p) == [WriteStream(s, s.uni, p) EXCEPT !.uni = @ + 4]

(* send_control_packet, send_submit_packet and send_result_packet, which   *)
(* refuse a packet of another type.                                        *)
SendQuic(s, how, p) ==
    CASE how = "control" -> WriteStream(EnsureControlStream(s), EnsureControlStream(s).control, p)
      [] how = "submit" -> IF p.header.msg_type = 16 THEN SendUnidirectionalPacket(s, p) ELSE s
      [] how = "result" -> IF p.header.msg_type \in {18, 19} THEN SendUnidirectionalPacket(s, p) ELSE s

---------------------------------------------------------------------------
(* Receiving *)

QuicReceiver(control) ==
    [control |-> control, buffers |-> <<>>, queues |-> [q \in {"control", "submit", "result"} |-> <<>>], failed |-> FALSE]

BadHeader(buffer) == ~Holds(buffer, 0, 40, "header") \/ Unpack("Header", Read(buffer, 0)) = Refused

(* _try_unpack_packet until there is no whole packet left; n is the length *)
(* of the first one.                                                       *)
RECURSIVE UnpackPackets(_, _)
UnpackPackets(buffer, n) ==
    CASE Len(buffer) >= 40 /\ BadHeader(buffer) -> [packets |-> <<>>, rest |-> <<>>, bad |-> TRUE]
      [] n > 0 -> LET rest == Slice(buffer, n, Len(buffer) - n)
                  IN [UnpackPackets(rest, FrameLength(rest)) EXCEPT !.packets = <<DecodeFrame(SubSeq(buffer, 1, n))>> \o @]
      [] OTHER -> [packets |-> <<>>, rest |-> buffer, bad |-> FALSE]

Cut(buffer) == UnpackPackets(buffer, FrameLength(buffer))

RoutePacket(control, stream, p) ==
    CASE stream = control -> "control"
      [] stream # control /\ p.header.msg_type = 16 -> "submit"
      [] stream # control /\ p.header.msg_type \in {18, 19} -> "result"
      [] OTHER -> "control"

Routed(c, stream, packets) ==
    [c EXCEPT !.queues = [q \in DOMAIN @ |-> @[q] \o SelectSeq(packets, LAMBDA p : RoutePacket(c.control, stream, p) = q)]]

Forgotten(c, stream) == [c EXCEPT !.buffers = [s \in DOMAIN @ \ {stream} |-> @[s]]]

(* A receiver that knows no control stream takes the first bidirectional  *)
(* one for it.                                                             *)
Known(c, stream) == [c EXCEPT !.control = IF @ = NoStream /\ ~IsUnidirectionalStream(stream) THEN stream ELSE @]

Buffered(c, stream) == IF stream \in DOMAIN c.buffers THEN c.buffers[stream] ELSE <<>>

KeepRest(c, stream, cut, end) ==
    IF cut.bad \/ end THEN [Forgotten(c, stream) EXCEPT !.failed = @ \/ cut.bad \/ cut.rest # <<>>]
    ELSE [c EXCEPT !.buffers = (stream :> cut.rest) @@ @]

\* Mutant of HandleStreamData: what is left of a chunk is not kept.
HandleStreamData_Drops(c, stream, data, end) ==
    LET cut == Cut(data) IN Forgotten(KeepRest(Routed(Known(c, stream), stream, cut.packets), stream, cut, end), stream)

HandleStreamData(c, stream, data, end) ==
    LET cut == Cut(Buffered(c, stream) \o data) IN KeepRest(Routed(Known(c, stream), stream, cut.packets), stream, cut, end)

StreamReset(c, stream)         == [Forgotten(c, stream) EXCEPT !.failed = TRUE]
StopSendingReceived(c, stream) == Forgotten(c, stream)
ConnectionTerminated(c)        == [c EXCEPT !.failed = TRUE]

=============================================================================
