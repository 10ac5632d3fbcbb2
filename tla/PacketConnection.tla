-------------------------- MODULE PacketConnection --------------------------
(***************************************************************************)
(* NnrpTcpConnection of src/nnrp/adapters/tcp.py: one end of a TCP         *)
(* connection.  A reader task cuts the byte stream into packets and sorts  *)
(* them into three queues; coroutines wait on a queue and on the end of    *)
(* the connection at once; a first failure is kept and ends every later    *)
(* call.  Everything runs on an event loop, so an action is what happens   *)
(* between two awaits.                                                     *)
(*                                                                         *)
(* Bytes are counted in half packets, so that a chunk may end inside one.  *)
(***************************************************************************)
EXTENDS Integers, EventQueues

CONSTANTS
  Callers,   \* coroutines that receive packets, each from a queue of its own
  NoPacket   \* a queue_task that is not done

Queues == {"control", "submit", "result"}

\* garbage: bytes whose header or body does not unpack.  torn: a packet of
\* which only the first half will ever arrive.
Kinds == {"hello", "ack", "flow", "submit", "result", "bad_result", "garbage", "torn"}

VARIABLES
  inflight,  \* packets on their way here, the head perhaps half read
  outbox,    \* packets on their way to the peer
  shut,      \* the connection is closed or broken: nothing more is sent
  writer,    \* _writer: "open", or "ending" once this end closed it or the
             \* connection broke; the peer's close alone leaves it open
  half,      \* half packets in _read_packets's buffer (0 or 1)
  reader,    \* whether _reader_task still runs
  failed,    \* whether _terminal_error is set, and with it _terminated
  queue,     \* _incoming_control_packets, _submit_packets, _result_packets
  call       \* per caller: its _receive_from_queue, if one is under way

wireVars  == <<inflight, outbox, shut, writer>>
innerVars == <<half, reader, failed, queue, call>>
connVars  == <<wireVars, innerVars>>

NoCall == [q |-> "none", got |-> NoPacket]

ConnInit ==
  /\ inflight = <<>>
  /\ outbox   = <<>>
  /\ shut     = FALSE
  /\ writer   = "open"
  /\ half     = 0
  /\ reader   = TRUE
  /\ failed   = FALSE
  /\ queue    = [q \in Queues |-> <<>>]
  /\ call     = [t \in Callers |-> NoCall]

-----------------------------------------------------------------------------
(* The reader task *)

\* Half packets that can still be read.
Avail ==
  2 * Len(inflight) - half
    - (IF inflight # <<>> /\ inflight[Len(inflight)].kind = "torn" THEN 1 ELSE 0)

\* _route_packet: the queue a packet belongs to.
QueueOf(p) ==
  CASE p.kind = "submit" -> "submit"
    [] p.kind \in {"result", "bad_result"} -> "result"
    [] OTHER -> "control"

\* The packets before the first one that does not unpack.
Decodable(ps) ==
  LET bad == {i \in DOMAIN ps : ps[i].kind = "garbage"}
  IN  SubSeq(ps, 1, IF bad = {} THEN Len(ps)
                    ELSE (CHOOSE i \in bad : \A j \in bad : i <= j) - 1)

\* A mutant of Sorted: a chunk's later packets are put before its earlier ones.
Sorted_Reversed(ps) ==
  LET back == [i \in DOMAIN ps |-> ps[Len(ps) + 1 - i]]
  IN  [q \in Queues |-> queue[q] \o At(back, {i \in DOMAIN back : QueueOf(back[i]) = q})]

\* The queues after ps were routed.
Sorted(ps) ==
  [q \in Queues |-> queue[q] \o At(ps, {i \in DOMAIN ps : QueueOf(ps[i]) = q})]

\* One turn of the loop of _read_packets: a chunk of n half packets arrives and
\* every complete packet of the buffer is routed; one that does not unpack fails
\* the connection and ends the task.
ReadChunk(n) ==
  LET ps == SubSeq(inflight, 1, (half + n) \div 2)
      ok == Decodable(ps)
  IN  /\ reader
      /\ queue'    = Sorted(ok)
      /\ inflight' = SubSeq(inflight, Len(ps) + 1, Len(inflight))
      /\ half'     = (half + n) % 2
      /\ reader'   = (ok = ps)
      /\ failed'   = (failed \/ ok # ps)
      /\ UNCHANGED <<outbox, shut, writer, call>>

\* A mutant of ReadEnd: trailing bytes end the task without an error.
ReadEnd_SilentTail ==
  /\ reader /\ shut /\ Avail = 0
  /\ reader' = FALSE
  /\ failed' = (failed \/ half = 0)
  /\ UNCHANGED <<wireVars, half, queue, call>>

\* The end of the stream, with or without trailing bytes, or a reset.
ReadEnd ==
  /\ reader /\ shut /\ Avail = 0
  /\ reader' = FALSE
  /\ failed' = TRUE
  /\ UNCHANGED <<wireVars, half, queue, call>>

\* The idle timeout, while no chunk is there to read, fails the connection but
\* leaves the socket open.
ReadIdle ==
  /\ reader /\ ~shut /\ Avail = 0
  /\ reader' = FALSE
  /\ failed' = TRUE
  /\ UNCHANGED <<wireVars, half, queue, call>>

-----------------------------------------------------------------------------
(* Sending and closing *)

\* What remains of a stream of which only n half packets get through: a packet
\* that is cut stays as one that is never completed.
Cut(s, n) ==
  LET whole == SubSeq(s, 1, n \div 2)
  IN  IF n % 2 = 0 THEN whole ELSE Append(whole, [s[n \div 2 + 1] EXCEPT !.kind = "torn"])

\* _send_packet, which writes before its first await.  Bytes written to a
\* connection that is shut vanish.
Send(p) ==
  /\ ~failed
  /\ outbox' = IF shut THEN outbox ELSE Append(outbox, p)

\* _send_packet whose drain raises: _fail_connection while the reader goes on.
SendFails ==
  /\ ~failed /\ shut
  /\ failed' = TRUE

\* A mutant of CloseWriter: only the sending side is shut down (write_eof).
CloseWriter_Half ==
  /\ shut' = TRUE
  /\ \E n \in half..(half + Avail) :
       inflight' = IF shut THEN inflight ELSE Cut(inflight, n)
  /\ UNCHANGED <<outbox, writer>>

\* close(): the transport stops reading, so that of what is under way only what
\* its StreamReader holds is read; what was written is flushed.
CloseWriter ==
  /\ shut' = TRUE
  /\ writer' = "ending"
  /\ \E n \in half..(half + Avail) :
       inflight' = IF shut THEN inflight ELSE Cut(inflight, n)
  /\ UNCHANGED outbox

\* External: the peer sends a packet.
PeerSend(p) == inflight' = IF shut THEN inflight ELSE Append(inflight, p)

\* External: the connection breaks, perhaps after the peer has closed it, and bytes
\* under way are lost.
NetworkCut ==
  /\ writer = "open"
  /\ writer' = "ending"
  /\ shut' = TRUE
  /\ \E n \in half..(half + Avail) : inflight' = Cut(inflight, n)
  /\ \E n \in 0..Len(outbox) : outbox' = SubSeq(outbox, 1, n)
  /\ UNCHANGED innerVars

\* wait_closed returns: _terminated is set, the writer's transport is gone and the
\* reader task is over.  None of the three is ever undone, so the order of the awaits
\* does not show.  An ending transport is gone once what was written is flushed;
\* nothing but wait_closed sees that.
WaitClosedReturns == failed /\ writer = "ending" /\ ~reader

-----------------------------------------------------------------------------
(* _receive_from_queue *)

Waiting(t) == call[t].q # "none"
Got(t)     == Waiting(t) /\ call[t].got # NoPacket

\* Past the first check: queue_task and terminated_task have been created.
Receive(q) == [q |-> q, got |-> NoPacket]

\* queue_task takes a packet; the coroutine resumes later.
QueueTask(t) ==
  LET q == call[t].q
  IN  /\ Waiting(t) /\ ~Got(t)
      /\ queue[q] # <<>>
      /\ call'  = [call EXCEPT ![t].got = Head(queue[q])]
      /\ queue' = [queue EXCEPT ![q] = Tail(@)]
      /\ UNCHANGED <<wireVars, half, reader, failed>>

\* The coroutine resumes because the connection ended.  The loop runs queue_task
\* first when a packet was there before; after a failed send the reader goes on,
\* and a packet may then come too late.
Terminated(t) ==
  /\ Waiting(t) /\ ~Got(t)
  /\ failed
  /\ queue[call[t].q] = <<>> \/ reader

\* The timeout passes with nothing done.
TimedOut(t) == Waiting(t) /\ ~Got(t) /\ ~failed

=============================================================================
