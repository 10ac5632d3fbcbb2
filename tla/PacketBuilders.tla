--------------------------- MODULE PacketBuilders ---------------------------
(***************************************************************************)
(* The packet builders of core/packet.py.  A builder refuses its arguments *)
(* (a ValueError) or yields a packet: a header, the words of its metadata  *)
(* and its body.  What a receiver makes of a packet is at the end.         *)
(*                                                                         *)
(* Arguments of the data builders: tile ids, index mode and base, camera   *)
(* block, sections, typed frames, payload kinds, the references given for  *)
(* the camera, tile index and section slots (a set of kinds out of 1 .. 3),*)
(* object_ref_mask and submit mode; for results the class, flags, covered  *)
(* and dropped counts and the reused frame.                                *)
(***************************************************************************)
EXTENDS PacketBodies

(* The object of a class with every field at the least value it takes. *)
Blank(k) == [n \in Names(k) |-> LET f == CHOOSE i \in Fields(k) : Layout[k][i].name = n
                                IN IF Layout[k][f].kind = "in" THEN Min(Layout[k][f].in) ELSE 0]

MessageCode ==
    [FlowUpdate |-> 23, ResultHint |-> 24, TransportProbe |-> 25, TransportProbeAck |-> 26, SessionMigrate |-> 27,
     SessionMigrateAck |-> 28, FrameSubmit |-> 16, FrameCancel |-> 17, ResultPush |-> 18, ResultDrop |-> 19,
     Ping |-> 32, Pong |-> 33]

MetaBytes(k) == Total([i \in DOMAIN Layout[k] |-> Layout[k][i].width \div 8])

(* NnrpPacket.build and pack: the header carries the lengths of the rest. *)
PacketBytes(msg, session, meta, body) ==
    LET h == [Blank("Header") EXCEPT !["msg_type"] = MessageCode[msg], !["session_id"] = session, !["version_major"] = 1,
                                     !["meta_len"] = IF meta = <<>> THEN 0 ELSE MetaBytes(msg),
                                     !["body_len"] = Len(body)]
    IN Struct(40, "header", Pack("Header", h))
       \o (IF meta = <<>> THEN <<>> ELSE Struct(MetaBytes(msg), "meta", meta)) \o body

(* NnrpPacket.unpack: a header, and exactly the bytes it announces. *)
PacketHeader(bytes) == Unpack("Header", Read(bytes, 0))

PacketLength(h) == 40 + h.meta_len + h.body_len

HeaderFits(h, n) == h # Refused /\ n = PacketLength(h)

PacketReads(bytes)  == Holds(bytes, 0, 40, "header") /\ HeaderFits(PacketHeader(bytes), Len(bytes))
PacketMeta(bytes)   == IF PacketHeader(bytes).meta_len = 0 THEN <<>> ELSE Read(bytes, 40)
BodyBehind(h, bytes) == Slice(bytes, 40 + h.meta_len, h.body_len)
PacketBody(bytes)   == BodyBehind(PacketHeader(bytes), bytes)

---------------------------------------------------------------------------
(* Control packets *)

BuildHeaderOnly(msg, session) ==
    IF msg \in {"FrameCancel", "Ping", "Pong"} THEN PacketBytes(msg, session, <<>>, <<>>) ELSE Refused

BuildResultDrop(session) == PacketBytes("ResultDrop", session, <<>>, <<>>)

Control(msg, session, m, body) ==
    IF Pack(msg, m) = Refused THEN Refused ELSE PacketBytes(msg, session, Pack(msg, m), body)

(* FLOW_UPDATE: the connection scope and only it goes without a session. *)
BuildFlowUpdate(session, m) ==
    IF (m.scope_kind = 0) = (session = 0) THEN Control("FlowUpdate", session, m, <<>>) ELSE Refused

BuildTransportProbe(session, m, body) ==
    IF m.probe_payload_bytes = Len(body) THEN Control("TransportProbe", session, m, body) ELSE Refused

BuildResultHint(session, m)             == Control("ResultHint", session, m, <<>>)
BuildTransportProbeAck(session, m)      == Control("TransportProbeAck", session, m, <<>>)
BuildSessionMigrate(session, m, body)   == Control("SessionMigrate", session, m, body)
BuildSessionMigrateAck(session, m, body) == Control("SessionMigrateAck", session, m, body)

---------------------------------------------------------------------------
(* Data packets *)

Packet(msg, m, body) == IF Pack(msg, m) = Refused THEN Refused ELSE PacketBytes(msg, 1, Pack(msg, m), body)

SubmitInline(a) ==
    (IF a.camera # <<>> THEN InlineBlock(1, a.camera) ELSE <<>>)
    \o (IF a.tiles # <<>> THEN InlineBlock(2, PackTileIndex(a.tiles, a.mode, a.base)) ELSE <<>>)
    \o (IF a.sections # <<>> THEN InlineBlock(3, PackSections(a.sections)) ELSE <<>>)

ResultInline(a) ==
    (IF a.tiles # <<>> THEN InlineBlock(2, PackTileIndex(a.tiles, a.mode, a.base)) ELSE <<>>)
    \o (IF a.sections # <<>> THEN InlineBlock(3, PackSections(a.sections)) ELSE <<>>)

TensorPackable(a) ==
    SectionsPackable(a.sections, Len(a.tiles)) /\ TileIndexPackable(a.tiles, a.mode, a.base)

(* _build_frame_submit_object_regions: each object by reference where one  *)
(* is given, else inline, which the reference mode does not allow.         *)
ObjectsPlaced(a) ==
    a.submit_mode = 1 => /\ a.camera # <<>> => 1 \in a.given
                         /\ a.tiles # <<>> => 2 \in a.given
                         /\ a.sections # <<>> => 3 \in a.given

ReferencedRegions(a) ==
    [EmptyRegions EXCEPT
        !.inline = SubmitInline([a EXCEPT !.camera = IF 1 \in a.given THEN <<>> ELSE @,
                                          !.sections = IF 3 \in a.given THEN <<>> ELSE @,
                                          !.tiles = IF 2 \in a.given THEN <<>> ELSE @]),
        !.refs = PackReferences(SelectSeq(<<[kind |-> 1, key |-> 1], [kind |-> 2, key |-> 1], [kind |-> 3, key |-> 1]>>,
                                          LAMBDA r : r.kind \in a.given))]

GivenMask(a) == SumSet({2^(i - 1) : i \in a.given})

SubmitMeta(a) ==
    [Blank("FrameSubmit") EXCEPT
        !["tile_count"] = Len(a.tiles), !["section_count"] = Len(a.sections), !["tile_index_mode"] = a.mode,
        !["tile_base_id"] = a.base, !["camera_bytes"] = IF 1 \in a.given THEN 0 ELSE Len(a.camera),
        !["tile_index_bytes"] = IF 2 \in a.given THEN 0 ELSE Len(PackTileIndex(a.tiles, a.mode, a.base)),
        !["operation_id"] = 1, !["submit_mode"] = a.submit_mode, !["object_ref_mask"] = a.mask,
        !["payload_kind_bitmap"] = a.kinds, !["payload_frame_count"] = Len(a.frames)]

BuildSubmit(a) ==
    LET tensor == a.kinds % 2 = 1
        m == IF tensor THEN SubmitMeta([a EXCEPT !.frames = <<>>])
                       ELSE SubmitMeta([a EXCEPT !.frames = <<>>, !.base = 0])
        body == CASE ~tensor -> PackBody(EmptyRegions)
                  [] a.submit_mode = 0 -> PackBody([EmptyRegions EXCEPT !.inline = SubmitInline(a)])
                  [] OTHER -> PackBody(ReferencedRegions(a))
    IN IF /\ a.submit_mode = 0 => a.mask = 0 /\ a.given = {}
          /\ a.submit_mode = 1 => a.given # {}
          /\ a.submit_mode = 2 => a.mask # 0
          /\ IF tensor THEN TensorPackable(a) /\ ObjectsPlaced(a)
                       ELSE a.tiles = <<>> /\ a.sections = <<>> /\ a.camera = <<>> /\ a.given = {}
          /\ a.submit_mode # 0 => a.mask = GivenMask(a)
          /\ FrameSubmitRules(m)
          /\ tensor => SubmitBodyAccepted(m, body)
       THEN Packet("FrameSubmit", m, body) ELSE Refused

(* The default of covered_tile_count. *)
EveryTile == 99
Covered(a) == IF a.covered = EveryTile THEN Len(a.tiles) ELSE a.covered

CoverageGiven(a) == Covered(a) + a.dropped = Len(a.tiles)

ResultMeta(a) ==
    [Blank("ResultPush") EXCEPT
        !["result_flags"] = a.flags, !["section_count"] = Len(a.sections), !["tile_count"] = Len(a.tiles),
        !["tile_base_id"] = a.base, !["tile_index_bytes"] = Len(PackTileIndex(a.tiles, a.mode, a.base)),
        !["result_class"] = a.class, !["reused_frame_id"] = a.reused, !["covered_tile_count"] = Covered(a),
        !["dropped_tile_count"] = a.dropped, !["payload_kind_bitmap"] = a.kinds,
        !["payload_frame_count"] = Len(a.frames)]

ResultRules(m) == NonTensorResultRules(m) /\ ResultPushRules(m)

BuildResult(a) ==
    LET tensor == a.kinds % 2 = 1
        m == ResultMeta([a EXCEPT !.frames = <<>>, !.base = IF tensor THEN @ ELSE 0])
        body == PackBody([EmptyRegions EXCEPT !.inline = IF tensor THEN ResultInline(a) ELSE <<>>])
    IN IF /\ a.mode \in {0, 1}
          /\ IF tensor THEN TensorPackable(a) /\ CoverageGiven(a)
                       ELSE a.tiles = <<>> /\ a.sections = <<>> /\ Covered(a) = 0 /\ a.dropped = 0
          /\ ResultRules(m) /\ TensorCoverage(m) /\ ResultBodyAccepted(m, body)
       THEN Packet("ResultPush", m, body) ELSE Refused

BuildPartialResult(a)  == BuildResult([a EXCEPT !.flags = 4, !.class = 1, !.reused = 0, !.kinds = 1])
BuildStaleResult(a)    == BuildResult([a EXCEPT !.flags = 1, !.class = 2, !.kinds = 1])
BuildDegradedResult(a) == BuildResult([a EXCEPT !.flags = 2, !.class = 3, !.reused = 0, !.kinds = 1])

(* _build_typed_payload_regions: at least one frame, each a typed one *)
TypedPackable(frames) == frames # <<>> /\ \A i \in DOMAIN frames : FramePackable(frames[i])

TypedRegions(frames, inline) ==
    [EmptyRegions EXCEPT !.inline = inline, !.descs = PackDescriptors(frames, 24, "typed"), !.frames = PackPayloads(frames)]

NoTensor(a) == [a EXCEPT !.tiles = <<>>, !.sections = <<>>, !.camera = <<>>, !.base = 0, !.mode = 1, !.given = {},
                         !.mask = 0, !.submit_mode = 0, !.covered = 0, !.dropped = 0]

BuildSubmitTyped(a) ==
    LET m == SubmitMeta([NoTensor(a) EXCEPT !.kinds = KindUnion(a.frames)])
    IN IF TypedPackable(a.frames) /\ m.payload_kind_bitmap < 128
       THEN Packet("FrameSubmit", m, PackBody(TypedRegions(a.frames, <<>>))) ELSE Refused

BuildResultTyped(a) ==
    LET m == ResultMeta([NoTensor(a) EXCEPT !.kinds = KindUnion(a.frames)])
    IN IF TypedPackable(a.frames) /\ m.payload_kind_bitmap < 128 /\ ResultRules(m)
       THEN Packet("ResultPush", m, PackBody(TypedRegions(a.frames, <<>>))) ELSE Refused

BuildSubmitMixed(a) ==
    LET m == SubmitMeta([a EXCEPT !.kinds = 1 + KindUnion(a.frames), !.given = {}, !.mask = 0, !.submit_mode = 0])
    IN IF /\ TypedPackable(a.frames) /\ TensorPackable(a) /\ m.payload_kind_bitmap < 128
          /\ a.camera # <<>> \/ a.tiles # <<>> \/ a.sections # <<>>
       THEN Packet("FrameSubmit", m, PackBody(TypedRegions(a.frames, SubmitInline(a)))) ELSE Refused

BuildResultMixed(a) ==
    LET m == ResultMeta([a EXCEPT !.kinds = 1 + KindUnion(a.frames)])
    IN IF /\ TypedPackable(a.frames) /\ a.mode \in {0, 1} /\ TensorPackable(a) /\ m.payload_kind_bitmap < 128
          /\ a.tiles # <<>> \/ a.sections # <<>>
          /\ CoverageGiven(a) /\ ResultRules(m)
       THEN Packet("ResultPush", m, PackBody(TypedRegions(a.frames, ResultInline(a)))) ELSE Refused

---------------------------------------------------------------------------
(* The receiver: the metadata is read, the body validated against it, and  *)
(* taken apart.                                                            *)

Accepted(msg, m, body) ==
    IF msg = "FrameSubmit" THEN SubmitBodyAccepted(m, body) ELSE ResultBodyAccepted(m, body)

ModeOf(msg, m) == IF msg = "FrameSubmit" THEN m.tile_index_mode ELSE ResultMode(m)

Inline(r, kind) == LET b == OfKind(InlineBlocks(r.inline, 0), kind) IN IF b = <<>> THEN <<>> ELSE b[1].payload

(* unpack_current_tensor_body with unpack_tile_index_block, and            *)
(* unpack_typed_payload_frames                                             *)
Contents(msg, m, body) ==
    LET r == Regions(body)
        has(kind) == OfKind(InlineBlocks(r.inline, 0), kind) # <<>>
    IN [camera |-> Inline(r, 1),
        tiles |-> IF has(2) THEN UnpackTileIndex(Inline(r, 2), ModeOf(msg, m), m.tile_count, m.tile_base_id) ELSE <<>>,
        sections |-> IF has(3) THEN UnpackTensorBody(Inline(r, 3), m.section_count) ELSE <<>>,
        frames |-> UnpackFrames(Descs(r), r.frames),
        refs |-> [i \in DOMAIN Refs(r) |-> Refs(r)[i].kind]]
=============================================================================
