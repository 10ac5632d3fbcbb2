--------------------------- MODULE PacketExchange ---------------------------
(***************************************************************************)
(* The packet-transport roles over one TCP connection: the client session  *)
(* and ResultRouter of src/nnrp/client/transport.py, and accept and        *)
(* ServerSession of src/nnrp/server/transport.py.  The client says hello   *)
(* and waits for the ack, then submits frames; the server answers the      *)
(* frames it holds in any order; the router's task sorts results into one  *)
(* queue per frame, from which receivers take them.  A sentinel per queue  *)
(* wakes the receivers when the router stops.                              *)
(***************************************************************************)
EXTENDS PacketConnection, SequencesExt

CONSTANTS
  Frames,      \* frame ids
  Receivers,   \* tasks that call ResultRouter.receive
  FrameFor,    \* the frame each receiver asks for
  Requested,   \* the session id in the client's hello
  Resolved,    \* session ids the server may choose
  PeerSends,   \* what the server side sends besides results
  MaxSubmits,  \* bound: submits the client sends
  MaxSends,    \* bound: packets the open server sends
  Sentinel     \* _RESULT_ROUTER_CLOSED

ASSUME CallersAssumption  == Callers = {"connector", "router"}
ASSUME FrameAssumption    == Frames # {} /\ FrameFor \in [Receivers -> Frames]
SessionIds == Resolved \cup {Requested}
ASSUME PeerAssumption     == PeerSends \subseteq {"flow", "bad_result", "garbage"}
ASSUME BoundAssumption    == {MaxSubmits, MaxSends} \subseteq Nat

AnyPacket == [kind : Kinds, frame : Frames, sid : SessionIds, n : 0..MaxSends]
ASSUME MarkAssumption     == {NoPacket, Sentinel} \cap AnyPacket = {}

VARIABLES
  client,      \* phase of the client's session context and its session id
  server,      \* phase of accept and of the server session, and its id
  submits,     \* submits the client has sent
  router,      \* _task, _closed and _error of the router
  keys,        \* the frames that have a queue in _queues
  rq,          \* _queues
  receiver,    \* per receiver: "idle", "waiting", "result" or "raised"
  sends,       \* packets the open server wrote before the connection was shut
  sent,        \* history: per frame, the results among them
  delivered,   \* history: per frame, the results that receivers returned
  refused      \* history: receive_submit rejected a session id

sessionVars == <<client, server, submits, sends, sent, refused>>
routerVars  == <<router, keys, rq, receiver, delivered>>
vars        == <<connVars, sessionVars, routerVars>>

\* n tells apart two packets of one kind.
Packet(kind, frame, sid, n) == [kind |-> kind, frame |-> frame, sid |-> sid, n |-> n]
AnyFrame == CHOOSE f \in Frames : TRUE

Init ==
  /\ ConnInit
  /\ client    = [phase |-> "start", sid |-> Requested]
  /\ server    = [phase |-> "start", sid |-> Requested]
  /\ submits   = 0
  /\ router    = [task |-> "none", closed |-> FALSE, error |-> FALSE]
  /\ keys      = {}
  /\ rq        = [f \in Frames |-> <<>>]
  /\ receiver  = [r \in Receivers |-> "idle"]
  /\ sends     = 0
  /\ sent      = [f \in Frames |-> <<>>]
  /\ delivered = [f \in Frames |-> <<>>]
  /\ refused   = FALSE

-----------------------------------------------------------------------------
(* The connection by itself *)

Network ==
  /\ \/ \E n \in 1..Avail : ReadChunk(n)
     \/ ReadEnd
     \/ ReadIdle
     \/ \E t \in Callers : QueueTask(t)
     \/ NetworkCut
  /\ UNCHANGED <<sessionVars, routerVars>>

-----------------------------------------------------------------------------
(* The client's session context *)

\* _bootstrap_connected_client up to the receive of the ack.
ClientHello ==
  /\ client.phase = "start"
  /\ Send(Packet("hello", AnyFrame, Requested, 0))
  /\ client' = [client EXCEPT !.phase = "awaiting"]
  /\ call' = [call EXCEPT !["connector"] = Receive("control")]
  /\ UNCHANGED <<inflight, shut, writer, half, reader, failed, queue, server, submits,
                 sends, sent, refused, routerVars>>

\* A mutant of ClientAck: the session keeps the id it asked for.
ClientAck_RequestedId ==
  /\ client.phase = "awaiting" /\ Got("connector")
  /\ call["connector"].got.kind = "ack"
  /\ client' = [client EXCEPT !.phase = "open"]
  /\ call' = [call EXCEPT !["connector"] = NoCall]
  /\ UNCHANGED <<wireVars, half, reader, failed, queue, server, submits, sends, sent,
                 refused, routerVars>>

\* The ack opens the session with the id the server chose.
ClientAck ==
  /\ client.phase = "awaiting" /\ Got("connector")
  /\ call["connector"].got.kind = "ack"
  /\ client' = [phase |-> "open", sid |-> call["connector"].got.sid]
  /\ call' = [call EXCEPT !["connector"] = NoCall]
  /\ UNCHANGED <<wireVars, half, reader, failed, queue, server, submits, sends, sent,
                 refused, routerVars>>

\* The context is left: by an error or a timeout of the handshake, or by the
\* application.  connect_tcp closes the connection on every way out of its body and
\* then awaits wait_closed.
ClientExit ==
  /\ \/ client.phase = "start" /\ failed
     \/ client.phase = "awaiting" /\ \/ Terminated("connector")
                                     \/ TimedOut("connector")
                                     \/ Got("connector") /\ call["connector"].got.kind # "ack"
     \/ client.phase = "open" /\ ~Waiting("connector")
  /\ client' = [client EXCEPT !.phase = "leaving"]
  /\ call' = [call EXCEPT !["connector"] = NoCall]
  /\ CloseWriter
  /\ UNCHANGED <<half, reader, failed, queue, server, submits, sends, sent, refused,
                 routerVars>>

\* The exit of connect_tcp is over.
ClientExited ==
  /\ client.phase = "leaving"
  /\ WaitClosedReturns
  /\ client' = [client EXCEPT !.phase = "closed"]
  /\ UNCHANGED <<connVars, server, submits, sends, sent, refused, routerVars>>

\* send_submit of a session that was never migrated: the frame id is not checked,
\* so that any stands for all.
ClientSubmit ==
  /\ client.phase = "open" /\ submits < MaxSubmits
  /\ submits' = submits + 1
  /\ Send(Packet("submit", AnyFrame, client.sid, 0))
  /\ UNCHANGED <<inflight, shut, writer, innerVars, client, server, sends, sent, refused, routerVars>>

\* A hello, submit or flow update whose drain fails.
ClientSendFails ==
  /\ client.phase \in {"start", "open"}
  /\ SendFails
  /\ UNCHANGED <<wireVars, half, reader, queue, call, sessionVars, routerVars>>

\* receive_flow_update: any other control packet is an error of this call.
ClientFlow ==
  /\ client.phase = "open"
  /\ \/ /\ ~Waiting("connector") /\ ~failed
        /\ queue["control"] # <<>>
        /\ call' = [call EXCEPT !["connector"] = Receive("control")]
     \/ /\ Got("connector") \/ Terminated("connector") \/ TimedOut("connector")
        /\ call' = [call EXCEPT !["connector"] = NoCall]
  /\ UNCHANGED <<wireVars, half, reader, failed, queue, sessionVars, routerVars>>

-----------------------------------------------------------------------------
(* The server: accept_server_connection and ServerSession.  Its end of the *)
(* connection is the queue outbox and what is appended to inflight.        *)

\* The hello is received and parsed, the session id resolved; the resolver may
\* be awaited.
ServerResolve ==
  /\ server.phase = "start" /\ outbox # <<>>
  /\ \E sid \in Resolved : server' = [phase |-> "resolved", sid |-> sid]
  /\ outbox' = Tail(outbox)
  /\ UNCHANGED <<inflight, shut, writer, innerVars, client, submits, sends, sent, refused,
                 routerVars>>

ServerAck ==
  /\ server.phase = "resolved"
  /\ PeerSend(Packet("ack", AnyFrame, server.sid, 0))
  /\ server' = [server EXCEPT !.phase = "open"]
  /\ UNCHANGED <<outbox, shut, writer, innerVars, client, submits, sends, sent, refused,
                 routerVars>>

\* Every exception of the handshake closes the connection, and so does
\* ServerSession.close.  The server's end no longer reads.
ServerClose ==
  /\ server.phase # "closed"
  /\ server' = [server EXCEPT !.phase = "closed"]
  /\ shut' = TRUE
  /\ outbox' = <<>>
  /\ UNCHANGED <<inflight, writer, innerVars, client, submits, sends, sent, refused, routerVars>>

\* receive_submit: a submit of another session is refused.
ServerReceive ==
  /\ server.phase = "open" /\ outbox # <<>>
  /\ refused' = (refused \/ Head(outbox).sid # server.sid)
  /\ outbox' = Tail(outbox)
  /\ UNCHANGED <<inflight, shut, writer, innerVars, client, server, submits, sends, sent, routerVars>>

\* send_result and send_result_drop for any frame, and the control sends; a peer
\* of another make may send a result whose body does not validate, or bytes that
\* do not unpack.
ServerSend ==
  /\ server.phase = "open" /\ sends < MaxSends
  /\ \E p \in [kind : {"result"}, frame : Frames, sid : {server.sid}, n : {sends + 1}]
         \cup [kind : PeerSends, frame : {AnyFrame}, sid : {server.sid}, n : {sends + 1}] :
       /\ PeerSend(p)
       /\ sends' = IF shut THEN sends ELSE sends + 1
       /\ sent' = IF shut \/ p.kind # "result" THEN sent
                  ELSE [sent EXCEPT ![p.frame] = Append(@, p)]
  /\ UNCHANGED <<outbox, shut, writer, innerVars, client, server, submits, refused, routerVars>>

-----------------------------------------------------------------------------
(* The result router *)

\* __aenter__ creates the task; it has not run yet.
RouterEnter ==
  /\ client.phase = "open" /\ router.task = "none" /\ ~router.closed
  /\ router' = [router EXCEPT !.task = "created"]
  /\ UNCHANGED <<connVars, sessionVars, keys, rq, receiver, delivered>>

\* A mutant of Stopped: the queues that hold nothing get no sentinel.
Stopped_OnlyFilled(queues, ks) ==
  [f \in Frames |-> IF f \in ks /\ queues[f] # <<>> THEN Append(queues[f], Sentinel)
                    ELSE queues[f]]

\* The finally of _run: one sentinel for every queue there is.
Stopped(queues, ks) ==
  [f \in Frames |-> IF f \in ks THEN Append(queues[f], Sentinel) ELSE queues[f]]

RouterStops(err) ==
  /\ router' = [task |-> "done", closed |-> TRUE, error |-> err]
  /\ rq' = Stopped(rq, keys)
  /\ call' = [call EXCEPT !["router"] = NoCall]
  /\ UNCHANGED <<wireVars, half, reader, failed, queue, sessionVars, keys, receiver,
                 delivered>>

\* The first step of the task: receive_result raises at once, or waits.
RouterStart ==
  /\ router.task = "created"
  /\ \/ failed /\ RouterStops(TRUE)
     \/ /\ ~failed
        /\ router' = [router EXCEPT !.task = "running"]
        /\ call' = [call EXCEPT !["router"] = Receive("result")]
        /\ UNCHANGED <<wireVars, half, reader, failed, queue, sessionVars, keys, rq,
                       receiver, delivered>>

\* A mutant of Filed: a result nobody has asked for yet is dropped.
Filed_OnlyAsked(p) == IF p.frame \in keys THEN [rq EXCEPT ![p.frame] = Append(@, p)] ELSE rq

\* _queue_for(...).put.
Filed(p) == [rq EXCEPT ![p.frame] = Append(@, p)]

\* A result is put into its frame's queue and the loop turns: the next
\* receive_result raises at once when the connection has failed meanwhile.
RouterPut ==
  /\ router.task = "running" /\ Got("router")
  /\ LET p  == call["router"].got
         qs == Filed(p)
     IN  /\ p.kind = "result"
         /\ keys' = keys \cup {p.frame}
         /\ IF failed
            THEN /\ router' = [task |-> "done", closed |-> TRUE, error |-> TRUE]
                 /\ rq' = Stopped(qs, keys')
                 /\ call' = [call EXCEPT !["router"] = NoCall]
            ELSE /\ rq' = qs
                 /\ call' = [call EXCEPT !["router"] = Receive("result")]
                 /\ UNCHANGED router
  /\ UNCHANGED <<wireVars, half, reader, failed, queue, sessionVars, receiver,
                 delivered>>

\* receive_result raises: the connection ended, or the result does not decode.
RouterFails ==
  /\ router.task = "running"
  /\ \/ Terminated("router")
     \/ Got("router") /\ call["router"].got.kind = "bad_result"
  /\ RouterStops(TRUE)

\* close(): cancels the task.  A task that never ran does not reach its finally;
\* one that holds a packet loses it.
RouterClose ==
  /\ \/ router.task = "running" /\ RouterStops(FALSE)
     \/ /\ router.task \in {"none", "created"}
        /\ router' = [router EXCEPT !.task = "dropped", !.closed = router.task = "none"]
        /\ UNCHANGED <<connVars, sessionVars, keys, rq, receiver, delivered>>

\* A mutant of Take: what was taken stays in the queue.
Take_Keeps(r) ==
  LET f == FrameFor[r]
      x == Head(rq[f])
  IN  /\ rq[f] # <<>>
      /\ receiver' = [receiver EXCEPT ![r] = IF x = Sentinel THEN "raised" ELSE "idle"]
      /\ delivered' = IF x = Sentinel \/ Len(delivered[f]) >= MaxSends THEN delivered
                      ELSE [delivered EXCEPT ![f] = Append(@, x)]
      /\ UNCHANGED rq

\* A receiver takes what is first in its queue.
Take(r) ==
  LET f == FrameFor[r]
      x == Head(rq[f])
  IN  /\ rq[f] # <<>>
      /\ rq' = [rq EXCEPT ![f] = Tail(@)]
      /\ receiver' = [receiver EXCEPT ![r] = IF x = Sentinel THEN "raised" ELSE "idle"]
      /\ delivered' = IF x = Sentinel THEN delivered
                      ELSE [delivered EXCEPT ![f] = Append(@, x)]

\* receive: raises when the router has stopped and nothing is queued, returns
\* what is there, or waits.
ReceiveBegin(r) ==
  LET f == FrameFor[r]
  IN  /\ receiver[r] = "idle"
      /\ keys' = keys \cup {f}
      /\ \/ Take(r)
         \/ /\ rq[f] = <<>>
            /\ receiver' = [receiver EXCEPT ![r] =
                              IF router.error \/ router.closed THEN "raised" ELSE "waiting"]
            /\ UNCHANGED <<rq, delivered>>
      /\ UNCHANGED <<connVars, sessionVars, router>>

ReceiveTake(r) ==
  /\ receiver[r] = "waiting"
  /\ Take(r)
  /\ UNCHANGED <<connVars, sessionVars, router, keys>>

ReceiveTimeout(r) ==
  /\ receiver[r] = "waiting" /\ rq[FrameFor[r]] = <<>>
  /\ receiver' = [receiver EXCEPT ![r] = "idle"]
  /\ UNCHANGED <<connVars, sessionVars, router, keys, rq, delivered>>

-----------------------------------------------------------------------------

Client == ClientHello \/ ClientAck \/ ClientExit \/ ClientExited \/ ClientSendFails \/ ClientFlow
            \/ ClientSubmit
Server == ServerResolve \/ ServerAck \/ ServerClose \/ ServerReceive \/ ServerSend
Router == RouterEnter \/ RouterStart \/ RouterPut \/ RouterFails \/ RouterClose
            \/ \E r \in Receivers : ReceiveBegin(r) \/ ReceiveTake(r) \/ ReceiveTimeout(r)

Next == Network \/ Client \/ Server \/ Router

Spec == Init /\ [][Next]_vars

\* The event loop runs what is ready, a closed stream comes to its end, and what was
\* written to a writer that is closed is flushed, or the connection breaks; nothing is
\* assumed of timeouts, of the peer or of the application.
FairSpec ==
  /\ Spec
  /\ WF_vars((\E n \in 1..Avail : ReadChunk(n)) /\ UNCHANGED <<sessionVars, routerVars>>)
  /\ WF_vars(ReadEnd /\ UNCHANGED <<sessionVars, routerVars>>)
  /\ WF_vars(ClientExited)
  /\ WF_vars(QueueTask("router") /\ UNCHANGED <<sessionVars, routerVars>>)
  /\ WF_vars(RouterStart)
  /\ WF_vars(RouterPut)
  /\ WF_vars(RouterFails)
  /\ \A r \in Receivers : WF_vars(ReceiveTake(r))

-----------------------------------------------------------------------------
(* Properties *)

\* The fields have the shapes the code gives them.
TypeOK ==
  /\ inflight \in Seq(AnyPacket)
  /\ outbox \in Seq(AnyPacket)
  /\ half \in 0..1
  /\ {shut, reader, failed, refused} \subseteq BOOLEAN
  /\ queue \in [Queues -> Seq(AnyPacket)]
  /\ call \in [Callers -> [q : Queues \cup {"none"}, got : AnyPacket \cup {NoPacket}]]
  /\ writer \in {"open", "ending"}
  /\ client \in [phase : {"start", "awaiting", "open", "leaving", "closed"}, sid : SessionIds]
  /\ server \in [phase : {"start", "resolved", "open", "closed"}, sid : SessionIds]
  /\ submits \in 0..MaxSubmits
  /\ router \in [task : {"none", "created", "running", "done", "dropped"}, closed : BOOLEAN,
                 error : BOOLEAN]
  /\ keys \subseteq Frames
  /\ rq \in [Frames -> Seq(AnyPacket \cup {Sentinel})]
  /\ receiver \in [Receivers -> {"idle", "waiting", "raised"}]
  /\ sends \in 0..MaxSends
  /\ sent \in [Frames -> Seq(AnyPacket)]
  /\ delivered \in [Frames -> Seq(AnyPacket)]

ResultsOf(f, s) == At(s, {i \in DOMAIN s : s[i].kind = "result" /\ s[i].frame = f})

\* What a frame's receivers got or can still get.
Landed(f) == delivered[f] \o At(rq[f], {i \in DOMAIN rq[f] : rq[f][i] # Sentinel})

\* The packets on their way from the server to the router's queues, the nearest
\* first: in the router's hand, in _result_packets, and those yet to be read.
Underway ==
  ((IF Got("router") THEN <<call["router"].got>> ELSE <<>>) \o queue["result"])
    \o (IF reader THEN inflight ELSE <<>>)

RouterAlive == router.task \in {"none", "created", "running"}

\* Until the connection ends or the router stops, every result the server sent is
\* delivered, in its frame's queue or on its way there, whoever asked for the
\* frame and whatever timed out: _receive_from_queue and ResultRouter._run drop
\* nothing.
NothingLost ==
  ~shut /\ reader /\ RouterAlive =>
    \A f \in Frames : Landed(f) \o ResultsOf(f, Underway) = sent[f]

\* However the stream is cut into chunks and whenever the connection fails, the
\* results a frame's receivers got or can still get are the first ones the
\* server sent for the frame: none is skipped, repeated or overtaken on the way
\* through _read_packets, _receive_from_queue and ResultRouter._run, and none is
\* lost before the end.  The types of the state are checked with it.
ResultsInOrder ==
  /\ TypeOK
  /\ NothingLost
  /\ \A f \in Frames : IsPrefix(Landed(f), sent[f])

\* The id the server resolved in accept_server_connection is the one the client
\* puts into its submits: ServerSession.receive_submit refuses none of them.
SubmitsAccepted == ~refused

\* A receiver that waits without a timeout is woken when the connection fails or
\* the router is closed, once the router's task has begun to run: a sentinel
\* reaches every queue somebody waits on.
ReceiversWake ==
  \A r \in Receivers :
    (/\ receiver[r] = "waiting"
     /\ router.task = "done" \/ (router.task = "running" /\ failed))
      ~> receiver[r] # "waiting"

\* Every exit of a connect_tcp block ends: wait_closed returns once this end has closed
\* its writer, whatever the reader task was in the middle of (trailing bytes, garbage,
\* an idle timeout, a failed send), whoever closed first and however the connection
\* broke.  It would not do so on the peer's close alone, which leaves the writer open:
\* _handle_connection, which closes nothing itself, waits on until somebody does.
CloseEnds == client.phase = "leaving" ~> client.phase = "closed"

-----------------------------------------------------------------------------
(* To the receivers of a frame the whole is a queue of what was sent for it. *)
Delivery == INSTANCE OrderedDelivery
              WITH Keys <- Frames,
                   Items <- {p \in AnyPacket : p.kind = "result"},
                   produced <- sent,
                   consumed <- delivered

\* What ResultRouter.receive returns for a frame is, call by call, the next of the
\* results ServerSession.send_result sent for it: at most once and never taken
\* back, over every interleaving of the reader task, the router and the receivers.
DeliveryKept == Delivery!Spec

=============================================================================
