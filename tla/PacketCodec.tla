---------------------------- MODULE PacketCodec ----------------------------
(***************************************************************************)
(* A sender and a receiver with the codecs between them: something is      *)
(* written, by this code or by a peer that fills the wire as it likes, and *)
(* then read; a message that was read may be written again.  A job says    *)
(* what is being written.  Over QUIC the reading takes many steps: chunks  *)
(* arrive, and an application receives results meanwhile.  And a client    *)
(* may buffer results, whatever order a connection hands them to it.       *)
(***************************************************************************)
EXTENDS RuntimeSenders, QuicStreams, FrameResultBuffer

CONSTANTS
    Objects,        \* pairs of a message class and an object of it
    PeerWords,      \* pairs of a message class and words a peer sends as it
    DataPackets,    \* pairs of a data packet builder and its arguments
    CrossedPackets, \* pairs of built packets: the metadata of one, the body of the other
    ControlPackets, \* a control packet builder, session, object and body
    Blocks,         \* extension entries with the types the reader knows
    ExtensionBodies, \* extension frames with the kinds the reader knows
    HelloExtensions, \* a hello extension with the class it is parsed as
    PatchBodies,    \* a block or none of a session patch, with the length announced for it
    RuntimeSends,   \* a runtime message type with metadata and tail
    AppSends,       \* a helper or session method with its arguments, and the session it is called on
    Tickets,        \* a recovery ticket, with how many of its bytes are kept and what is behind them
    Batches,        \* WebSocket frames, how many bytes of them arrive, and the reader's limit
    QuicRuns,       \* packets sent over QUIC, what both ends know, and a stream that is cut
    ChunkSizes      \* bytes that may arrive at once, besides all of them

VARIABLES stage, job, wire, got

vars == <<stage, job, wire, got>>

BuildData(b, a) ==
    CASE b = "submit" -> BuildSubmit(a)
      [] b = "submitTyped" -> BuildSubmitTyped(a)
      [] b = "submitMixed" -> BuildSubmitMixed(a)
      [] b = "result" -> BuildResult(a)
      [] b = "partial" -> BuildPartialResult(a)
      [] b = "stale" -> BuildStaleResult(a)
      [] b = "degraded" -> BuildDegradedResult(a)
      [] b = "resultTyped" -> BuildResultTyped(a)
      [] b = "resultMixed" -> BuildResultMixed(a)

DataMessage(b) == IF b \in {"submit", "submitTyped", "submitMixed"} THEN "FrameSubmit" ELSE "ResultPush"

BuildControl(b, session, o, body) ==
    CASE b = "FlowUpdate" -> BuildFlowUpdate(session, o)
      [] b = "TransportProbe" -> BuildTransportProbe(session, o, body)
      [] b = "ResultHint" -> BuildResultHint(session, o)
      [] b = "TransportProbeAck" -> BuildTransportProbeAck(session, o)
      [] b = "SessionMigrate" -> BuildSessionMigrate(session, o, body)
      [] b = "SessionMigrateAck" -> BuildSessionMigrateAck(session, o, body)
      [] b = "ResultDrop" -> BuildResultDrop(session)
      [] OTHER -> BuildHeaderOnly(b, session)

(* What is sent as a runtime message: by the native client or server, or   *)
(* by the runtime itself (external), which puts a body behind the metadata *)
(* of a submit or a result.                                                *)
BuildRuntime(x) ==
    CASE x.type \in DOMAIN MetadataKind \cup {"CACHE_INVALIDATE"} -> EncodeNativeRuntimeFrame(x.type, x.class, x.obj, x.tail)
      [] x.class = "None" -> x.tail
      [] OTHER -> IF Pack(x.class, x.obj) = Refused THEN Refused ELSE Metadata(x.class, Pack(x.class, x.obj)) \o x.tail

(* What a client connection's helper makes of its arguments. *)
HelperMessage(helper, a, tail) ==
    CASE helper = "cancel" -> CancelRuntimeOperation(a, tail)
      [] helper = "abort" -> AbortRuntimeOperation(a, tail)
      [] helper = "priority" -> UpdateRuntimePriority(a)
      [] helper = "deadline" -> UpdateRuntimeDeadline(a)
      [] helper = "expire" -> ExpireRuntimeOperationAt(a)
      [] helper = "supersede" -> SupersedeRuntimeOperation(a, tail)
      [] helper = "budget" -> UpdateRuntimeBudget(a)
      [] helper = "route" -> SendRuntimeRouteHint(a, tail)
      [] helper = "execution" -> SendRuntimeExecutionHint(a, tail)
      [] helper = "negotiate" -> NegotiateRuntimeCapabilities(a, tail)
      [] helper = "degrade" -> DegradeRuntimeProfile(a, tail)

Methods(side) == IF side = "client" THEN ClientSends ELSE ServerSends

SentMessage(x) ==
    IF x.side = "helper" THEN HelperMessage(x.name, x.args, x.body)
    ELSE LET type == Methods(x.side)[x.name]
         IN Message(type, x.class, x.args, JoinRuntimeObjectTail(x.metadata_body, x.body))

(* The message m of a call goes through the session. *)
AppSend(x, m) ==
    LET side == IF x.side = "server" THEN "server" ELSE "client"
    IN SendRuntimeFrame(side, x.session, m, IF x.name = "send_trace_context" THEN TraceFrame(x.session, x.operation) ELSE None)

EncodeBatch(frames) == FlattenSeq([i \in DOMAIN frames |-> EncodeFrame(frames[i].header, frames[i].meta, frames[i].body)])

ExtensionBody(frames) ==
    PackBody([EmptyRegions EXCEPT !.extDescs = PackDescriptors(frames, 16, "ext"), !.ext = PackPayloads(frames)])

---------------------------------------------------------------------------
(* What the receiver makes of the bytes, for each kind of job. *)

Validated(msg, m, body) ==
    IF m # Refused /\ Accepted(msg, m, body) THEN [meta |-> m, contents |-> Contents(msg, m, body)] ELSE Refused

ReadData(msg, bytes) ==
    IF PacketReads(bytes) THEN Validated(msg, Unpack(msg, PacketMeta(bytes)), PacketBody(bytes)) ELSE Refused

ReadControl(msg, bytes) ==
    IF ~PacketReads(bytes) THEN Refused
    ELSE [session |-> PacketHeader(bytes).session_id, type |-> PacketHeader(bytes).msg_type,
          meta |-> IF PacketMeta(bytes) = <<>> THEN <<>> ELSE Unpack(msg, PacketMeta(bytes)), body |-> PacketBody(bytes)]

ReadExtensions(body, known) ==
    IF BodyReads(body) /\ ExtensionsRead(ExtDescs(Regions(body)), known)
    THEN [frames |-> UnpackExtensions(ExtDescs(Regions(body)), Regions(body).ext, known)] ELSE Refused

(* The part of the bytes that is still there when they are read. *)
Kept == SubSeq(wire, 1, Min({job.keep, Len(wire)}))

---------------------------------------------------------------------------
Idle == [do |-> "idle"]

Init == stage = "idle" /\ job = Idle /\ wire = Refused /\ got = Refused /\ BufferInit

Begin(j, bytes) ==
    /\ stage = "idle"
    /\ stage' = "sent" /\ job' = j /\ wire' = bytes /\ got' = Refused /\ UNCHANGED bufferVars

WriteMessage == \E x \in Objects : Begin([do |-> "message", class |-> x[1], obj |-> x[2], relayed |-> FALSE], Pack(x[1], x[2]))

PeerWrites == \E x \in PeerWords : Begin([do |-> "peer", class |-> x[1]], x[2])

WriteData == \E x \in DataPackets :
    Begin([do |-> "data", class |-> DataMessage(x[1]), builder |-> x[1], args |-> x[2]], BuildData(x[1], x[2]))

PeerCrosses == \E x \in CrossedPackets :
    Begin([do |-> "crossed", class |-> DataMessage(x[1].builder), builder |-> x[2].builder, args |-> x[2].args],
          PacketBytes(DataMessage(x[1].builder), 1, PacketMeta(x[1].bytes), PacketBody(x[2].bytes)))

WriteControl == \E x \in ControlPackets :
    Begin([do |-> "control", class |-> x.class, session |-> x.session, obj |-> x.obj, body |-> x.body],
          BuildControl(x.class, x.session, x.obj, x.body))

WriteBlock == \E x \in Blocks :
    Begin([do |-> "block", entries |-> x.entries, known |-> x.known], PackExtensionBlock(x.entries))

WriteExtensions == \E x \in ExtensionBodies :
    Begin([do |-> "extensions", frames |-> x.frames, known |-> x.known], ExtensionBody(x.frames))

WriteHello == \E x \in HelloExtensions :
    Begin([do |-> "hello", class |-> x.class, obj |-> x.obj, as |-> x.as],
          IF Pack(x.class, x.obj) = Refused THEN Refused ELSE PackExtensionBlock(<<BuildHelloExtension(x.class, x.obj)>>))

WritePatch == \E x \in PatchBodies :
    Begin([do |-> "patch", class |-> x.class, block |-> x.block, announced |-> x.announced],
          PackPatchBody(x.class, x.block))

WriteRuntime == \E x \in RuntimeSends :
    Begin([do |-> "runtime", type |-> x.type, class |-> x.class, obj |-> x.obj, tail |-> x.tail], BuildRuntime(x))

ApplicationSends == \E x \in AppSends :
    LET m    == SentMessage(x)
        sent == AppSend(x, m)
    IN Begin([do |-> "send", type |-> m.type, call |-> x, frame |-> sent.frame, after |-> sent.session], sent.payload)

KeepTicket == \E x \in Tickets :
    Begin([do |-> "ticket", ticket |-> x.ticket, keep |-> x.keep, behind |-> x.behind], TicketToBytes(x.ticket))

WriteBatch == \E x \in Batches :
    Begin([do |-> "batch", frames |-> x.frames, keep |-> x.keep, limit |-> x.limit], EncodeBatch(x.frames))

(* An empty patch, event or batch is no bytes, and is read. *)
MayBeEmpty == {"patch", "runtime", "batch"}

Receive(kinds, reading) ==
    /\ stage = "sent" /\ job.do \in kinds /\ (wire # Refused \/ job.do \in MayBeEmpty)
    /\ stage' = "read" /\ got' = reading
    /\ UNCHANGED <<job, wire, bufferVars>>

ReadMessage    == Receive({"message", "peer"}, Unpack(job.class, wire))
ReadDataPacket == Receive({"data", "crossed"}, ReadData(job.class, wire))
ReadControlPacket == Receive({"control"}, ReadControl(job.class, wire))
ReadBlock      == Receive({"block"}, IF ExtensionBlockReads(wire, job.known)
                                     THEN [entries |-> ExtensionEntries(wire, 0, job.known)] ELSE Refused)
ReadExtensionFrames == Receive({"extensions"}, ReadExtensions(wire, job.known))
ReadHello      == Receive({"hello"}, ParseHelloExtension(job.as, ExtensionEntries(wire, 0, Range(HelloType))[1]))
ReadPatch      == Receive({"patch"}, IF PatchBodyReads(job.class, wire, job.announced)
                                     THEN [block |-> UnpackPatchBody(job.class, wire)] ELSE Refused)
ReadRuntime    == Receive({"runtime", "send"}, DecodeWireRuntimeEvent(job.type, wire))
ReadTicket     == Receive({"ticket"}, TicketFromBytes(Kept \o job.behind))
ReadBatch      == Receive({"batch"}, DecodeBatch(Kept, job.limit))

Reads ==
    \/ ReadMessage \/ ReadDataPacket \/ ReadControlPacket \/ ReadBlock \/ ReadExtensionFrames
    \/ ReadHello \/ ReadPatch \/ ReadRuntime \/ ReadTicket \/ ReadBatch

(* What came from the peer is sent on. *)
Relay ==
    /\ stage = "read" /\ job.do = "peer" /\ got # Refused
    /\ stage' = "sent" /\ job' = [do |-> "message", class |-> job.class, obj |-> got, relayed |-> TRUE]
    /\ wire' = Pack(job.class, got) /\ got' = Refused /\ UNCHANGED bufferVars

Done ==
    /\ (stage = "read" \/ (stage = "sent" /\ wire = Refused /\ job.do \notin MayBeEmpty))
    /\ stage' = "idle" /\ job' = Idle /\ wire' = Refused /\ got' = Refused /\ UNCHANGED bufferVars

---------------------------------------------------------------------------
(* QUIC: the streams that were written, what of them is still under way,   *)
(* which have ended, and what the application was handed.                  *)

StreamBytes(packets) == EncodeBatch(packets)

QuicConnect == \E x \in QuicRuns :
    LET s == FoldLeft(LAMBDA acc, send : SendQuic(acc, send.how, send.packet), x.sender, x.sends)
        bytes(st) == StreamBytes(s.streams[st])
    IN /\ stage = "idle" /\ stage' = "stream" /\ wire' = Refused /\ UNCHANGED bufferVars
       /\ job' = [do |-> "quic", sends |-> x.sends, sent |-> s.streams, ended |-> {}, stopped |-> {}, broken |-> FALSE,
                  left |-> [st \in DOMAIN s.streams |-> IF st \in DOMAIN x.cut THEN SubSeq(bytes(st), 1, x.cut[st]) ELSE bytes(st)],
                  read |-> [st \in DOMAIN s.streams |-> 0], received |-> <<>>]
       /\ got' = [conn |-> QuicReceiver(x.receiver)]

Streaming == stage = "stream"
Open      == DOMAIN job.left \ job.ended

(* A chunk, or with the last one the end of a unidirectional stream. *)
ChunkArrives == \E st \in IF Streaming THEN Open ELSE {} :
    \E n \in {Min({k, Len(job.left[st])}) : k \in ChunkSizes} \cup {Len(job.left[st])} : \E end \in BOOLEAN :
        /\ n > 0 \/ end
        /\ end => IsUnidirectionalStream(st) /\ n = Len(job.left[st])
        /\ got' = [got EXCEPT !.conn = HandleStreamData(@, st, SubSeq(job.left[st], 1, n), end)]
        /\ job' = [job EXCEPT !.left[st] = SubSeq(@, n + 1, Len(@)), !.read[st] = @ + n,
                                !.ended = IF end THEN @ \cup {st} ELSE @]
        /\ UNCHANGED <<stage, wire, bufferVars>>

PeerResets == \E st \in IF Streaming THEN Open ELSE {} :
    /\ got' = [got EXCEPT !.conn = StreamReset(@, st)]
    /\ job' = [job EXCEPT !.ended = @ \cup {st}, !.broken = TRUE]
    /\ UNCHANGED <<stage, wire, bufferVars>>

(* Of the streams that carry bytes to this side only the control stream    *)
(* may be one it sends on too.                                             *)
PeerStopsReading == \E st \in IF Streaming THEN {st \in Open \ job.stopped : ~IsUnidirectionalStream(st)} ELSE {} :
    /\ got' = [got EXCEPT !.conn = StopSendingReceived(@, st)]
    /\ job' = [job EXCEPT !.stopped = @ \cup {st}]
    /\ UNCHANGED <<stage, wire, bufferVars>>

PeerTerminates ==
    /\ Streaming /\ Open # {}
    /\ got' = [got EXCEPT !.conn = ConnectionTerminated(@)]
    /\ job' = [job EXCEPT !.ended = DOMAIN job.left, !.broken = TRUE]
    /\ UNCHANGED <<stage, wire, bufferVars>>

(* receive_result_packet. *)
ReceiveResult ==
    /\ Streaming /\ ~got.conn.failed /\ got.conn.queues["result"] # <<>>
    /\ got' = [got EXCEPT !.conn.queues["result"] = Tail(@)]
    /\ job' = [job EXCEPT !.received = Append(@, Head(got.conn.queues["result"]))]
    /\ UNCHANGED <<stage, wire, bufferVars>>

QuicCloses ==
    /\ Streaming /\ \A st \in DOMAIN job.left : st \in job.ended \/ (~IsUnidirectionalStream(st) /\ job.left[st] = <<>>)
    /\ stage' = "idle" /\ job' = Idle /\ wire' = Refused /\ got' = Refused /\ UNCHANGED bufferVars

QuicStep ==
    \/ ChunkArrives \/ PeerResets \/ PeerStopsReading \/ PeerTerminates
    \/ ReceiveResult \/ QuicCloses

(* A FrameResultBuffer is made and used. *)
BufferMade == stage = "idle" /\ stage' = "buffer" /\ UNCHANGED <<job, wire, got, bufferVars>>
BufferUsed == stage = "buffer" /\ BufferNext /\ UNCHANGED vars

Next ==
    \/ QuicConnect \/ QuicStep
    \/ WriteMessage \/ PeerWrites \/ WriteData \/ PeerCrosses \/ WriteControl \/ WriteBlock \/ WriteExtensions
    \/ WriteHello \/ WritePatch \/ WriteRuntime \/ ApplicationSends \/ KeepTicket \/ WriteBatch \/ Reads \/ Relay \/ Done
    \/ BufferMade \/ BufferUsed

Spec == Init /\ [][Next]_<<vars, bufferVars>>

---------------------------------------------------------------------------
(* What a data packet was given to carry, as the reader sees it: objects   *)
(* sent by reference are not in it, and a section has a codec for each of  *)
(* its tiles whether or not a codec table was worth writing.               *)
TileCodecs(s) == [i \in DOMAIN s.tiles |-> IF s.codecs = <<>> THEN B(s.codec) ELSE s.codecs[i]]

Seen(sections) ==
    [i \in DOMAIN sections |-> [role |-> sections[i].role, codecs |-> TileCodecs(sections[i]), tiles |-> sections[i].tiles]]

Typed == {"submitTyped", "resultTyped"}
Mixed == {"submitMixed", "resultMixed"}

Carried(b, a) ==
    LET byRef == IF b = "submit" THEN a.given ELSE {}
        bytesOf(s) == [s EXCEPT !.codecs = [i \in DOMAIN @ |-> B(@[i])]]
    IN [camera |-> IF b \in {"submit", "submitMixed"} /\ 1 \notin byRef THEN a.camera ELSE <<>>,
        tiles |-> IF b \in Typed \/ 2 \in byRef THEN <<>> ELSE a.tiles,
        sections |-> IF b \in Typed \/ 3 \in byRef THEN <<>> ELSE Seen([i \in DOMAIN a.sections |-> bytesOf(a.sections[i])]),
        frames |-> IF b \in Typed \cup Mixed THEN a.frames ELSE <<>>,
        refs |-> SelectSeq(<<1, 2, 3>>, LAMBDA k : k \in byRef)]

Reading(do) == stage = "read" /\ job.do = do

(* Every word that is written fits its field, and an object that was read  *)
(* has only values its class lets through.                                 *)
TypeOK ==
    /\ stage \in {"idle", "sent", "read", "stream", "buffer"}
    /\ job.do = "message" /\ wire # Refused =>
          \A i \in DOMAIN wire : wire[i] \in 0 .. Top(Layout[job.class][i].width)
    /\ job.do \in {"message", "peer"} /\ got # Refused =>
          \A i \in Fields(job.class) : Word(Layout[job.class][i], got[Layout[job.class][i].name]) \in Layout[job.class][i].in

(* What pack of a message class accepts, unpack of the class reads back as *)
(* the same object, for every class of control.py, data.py, schema.py and  *)
(* runtime/types.py.  Object kinds, roles and hints that are integers and  *)
(* no member of their enum are written, and then refused as a whole.       *)
Unknown(k, o) == \E i \in Fields(k) : Layout[k][i].kind = "read" /\ o[Layout[k][i].name] \notin Layout[k][i].in

WrittenIsRead == Reading("message") => got = IF Unknown(job.class, job.obj) THEN Refused ELSE job.obj

(* What unpack accepted from a peer, pack accepts: a session that passes a *)
(* message on cannot fail on it.  The one exception is the flags of a      *)
(* control request, which unpack does not check.                           *)
Unchecked(k, o) == \E i \in Fields(k) : Layout[k][i].kind = "written" /\ o[Layout[k][i].name] \notin Layout[k][i].out

ReadCanBeSentOn == job.do = "message" /\ job.relayed => (wire = Refused) = Unchecked(job.class, job.obj)

(* The message classes as a whole, with the types of words and fields:     *)
(* unpack reads what pack writes, and pack writes what unpack accepted.    *)
MessagesAreRead == TypeOK /\ WrittenIsRead /\ ReadCanBeSentOn

(* A data packet that a builder yields is accepted by the validators of    *)
(* the other side, which read from it exactly what it was given.  Two      *)
(* cases are left out, where the builders do not call the validators: a    *)
(* typed frame of the tensor profile, and build_frame_submit_packet with   *)
(* payload kinds and no tensor.                                            *)
BuiltIsRead ==
    /\ Reading("data")
    /\ job.builder \in Typed \cup Mixed => \A i \in DOMAIN job.args.frames : job.args.frames[i].profile # 1
    /\ job.builder = "submit" => job.args.kinds % 2 = 1 \/ job.args.kinds = 0
    => /\ got # Refused
       /\ [got.contents EXCEPT !.sections = Seen(@)] = Carried(job.builder, job.args)

(* A body that comes with the metadata of another packet is refused, or    *)
(* the two agree: camera, sections, frames and references are those its    *)
(* sender meant, with the counts of the metadata.                          *)
CrossedAgrees ==
    Reading("crossed") /\ got # Refused =>
        LET c == Carried(job.builder, job.args)
        IN /\ Seen(got.contents.sections) = c.sections /\ got.meta.section_count >= Len(c.sections)
           /\ got.contents.camera = c.camera /\ got.contents.frames = c.frames /\ got.contents.refs = c.refs
           /\ c.sections # <<>> => got.meta.tile_count = Len(job.args.tiles)
           /\ got.meta.payload_frame_count = Len(c.frames)

(* Metadata and body of a data packet say the same to both sides: the      *)
(* validators of packet.py accept what the builders make, and nothing      *)
(* whose halves disagree.                                                  *)
DataAgrees == BuiltIsRead /\ CrossedAgrees

(* Control packets arrive with their session, metadata and body.           *)
ControlIsRead ==
    Reading("control") =>
        got = [session |-> job.session, type |-> MessageCode[job.class], body |-> job.body,
               meta |-> IF job.class \in DOMAIN Layout THEN job.obj ELSE <<>>]

(* Extensions of the hello messages and of a body: those the reader knows  *)
(* arrive whole and in order, others are passed over, and the whole is     *)
(* refused exactly when one the reader does not know is critical.  A hello *)
(* extension is read as its class and not as another.                      *)
ExtensionsAreRead ==
    /\ Reading("hello") => got = IF job.as = job.class THEN job.obj ELSE Refused
    /\ Reading("block") =>
          IF \E i \in DOMAIN job.entries : job.entries[i].critical /\ job.entries[i].type \notin job.known
          THEN got = Refused
          ELSE got = [entries |-> SelectSeq(job.entries, LAMBDA e : e.type \in job.known)]
    /\ Reading("extensions") =>
          IF \E i \in DOMAIN job.frames : job.frames[i].critical /\ job.frames[i].kind \notin job.known
          THEN got = Refused
          ELSE got = [frames |-> SelectSeq(job.frames, LAMBDA f : f.kind \in job.known)]

(* The block of a session patch is read when the metadata announces it,    *)
(* and nothing else is taken for one.                                      *)
PatchIsRead ==
    Reading("patch") => got = IF job.announced = 16 * Len(job.block) THEN [block |-> job.block] ELSE Refused

(* Whatever rides behind a control message, a body, extensions or a patch  *)
(* block, is read as what it was sent as, or refused as a whole.           *)
ControlsAreRead == ControlIsRead /\ ExtensionsAreRead /\ PatchIsRead

(* A runtime message arrives as an event of its class with its metadata,   *)
(* and its tail in the part of the event that the metadata's length field  *)
(* is named for: no table of message types drops or misplaces one.         *)
TailMeant(k, o, tail) ==
    CASE k = "ObjectDelta" -> WithDelta(SubSeq(tail, 1, o.metadata_bytes), SubSeq(tail, o.metadata_bytes + 1, Len(tail)))
      [] k # "None" /\ "diagnostic_bytes" \in Names(k) -> WithDiagnostic(tail)
      [] OTHER -> WithBody(tail)

RuntimeIsRead ==
    Reading("runtime") /\ (wire # Refused \/ job.class = "None") =>
        got = IF job.class # "None" /\ Unknown(job.class, job.obj) THEN Refused
              ELSE Event(job.class, job.obj, TailMeant(job.class, job.obj, job.tail))

(* What an application passes to a helper or a method arrives: every       *)
(* argument in the field it is named for, the bytes whole and in the part  *)
(* of the event they were passed as.  A priority update has no deadline.   *)
FieldNamed(n) == IF n = "expire_at_unix_ms" THEN "deadline_unix_ms" ELSE n

PassedArrives ==
    Reading("send") /\ got # Refused =>
        LET x == job.call IN
        /\ \A n \in DOMAIN x.args : got.value[FieldNamed(n)] = x.args[n]
        /\ x.name = "priority" => got.value.deadline_unix_ms = 0
        /\ got.tail.metadata_body = x.metadata_body
        /\ x.body \in {got.tail.body, got.tail.diagnostic, got.tail.delta}

(* A runtime message is the same event on both sides of the wire, from the *)
(* arguments of the helper that sends it to the parts of the event that    *)
(* the receiving session decodes.                                          *)
RuntimeArrives == RuntimeIsRead /\ PassedArrives

(* The sender's choice of a frame and the receiver's attribution of the    *)
(* event name the same operation, though each side has a table of its own: *)
(* what the receiver attributes to an operation was sent on the frame that *)
(* operation is bound to, and not at all when it is bound to none.  A send *)
(* releases the binding of the operation it gives up and no other, and     *)
(* nothing when it is refused.                                             *)
SentOnItsFrame ==
    /\ Reading("send") /\ got # Refused =>
          LET op == IF job.call.operation # None THEN job.call.operation ELSE EventOperationId(job.type, got.value)
              s  == job.call.session
          IN /\ op # 0 => op \in DOMAIN s.frames /\ job.frame = s.frames[op]
             /\ DOMAIN s.frames \ DOMAIN job.after.frames =
                   {p \in DOMAIN s.frames : p = op /\ job.type \in {"CANCEL", "ABORT", "SUPERSEDE"}}
    /\ job.do = "send" /\ wire = Refused => job.after = job.call.session

(* A recovery ticket kept as bytes is read back as it was, and bytes that  *)
(* lost their end or gained one are refused.                               *)
TicketIsRead ==
    Reading("ticket") => got = IF job.keep >= Len(wire) /\ job.behind = <<>> THEN job.ticket ELSE Refused

(* A batch is read as exactly the frames in it, or refused: when it ends   *)
(* inside a frame, and when it holds more frames than the limit.           *)
Whole(n) == Total([i \in 1 .. n |-> 40 + Len(job.frames[i].meta) + Len(job.frames[i].body)])

BatchIsRead ==
    Reading("batch") =>
        LET kept == {n \in 0 .. Len(job.frames) : Whole(n) = Len(Kept)}
        IN got = IF kept = {} \/ (job.limit # 0 /\ \A n \in kept : n > job.limit) THEN Refused
                 ELSE [frames |-> SubSeq(job.frames, 1, CHOOSE n \in kept : TRUE)]

(* Bytes that were cut or lengthened are never read as something else: not *)
(* as a ticket by NativeSessionRecoveryTicket.from_bytes and not as a      *)
(* batch by decode_websocket_binary_frame_batch.                           *)
CutIsRefused == TicketIsRead /\ BatchIsRead

(* However the bytes of the streams are cut and interleaved, each packet   *)
(* is queued once, as soon as its last byte is there, in the queue of the  *)
(* call that sent it and behind the earlier ones of its stream; and the    *)
(* connection has failed exactly when the peer broke it off or a stream    *)
(* ended inside a packet.  A STOP_SENDING for the control stream, which    *)
(* drops what was read of it, is left out.                                 *)
Arrived(q) == (IF q = "result" THEN job.received ELSE <<>>) \o got.conn.queues[q]

Complete(st) ==
    Max({k \in 0 .. Len(job.sent[st]) : Len(StreamBytes(SubSeq(job.sent[st], 1, k))) <= job.read[st]})

SentAs(p, how) == \E i \in DOMAIN job.sends : job.sends[i].packet = p /\ job.sends[i].how = how

CutShort == \E st \in job.ended : job.read[st] > Len(StreamBytes(SubSeq(job.sent[st], 1, Complete(st))))

QuicDelivers ==
    Streaming /\ job.stopped = {} =>
        /\ \A q \in DOMAIN got.conn.queues : \A st \in DOMAIN job.sent :
              SelectSeq(Arrived(q), LAMBDA p : p \in Range(job.sent[st]))
                = SelectSeq(SubSeq(job.sent[st], 1, Complete(st)), LAMBDA p : SentAs(p, q))
        /\ got.conn.failed = (job.broken \/ CutShort)
=============================================================================
