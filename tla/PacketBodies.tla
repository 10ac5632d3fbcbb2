---------------------------- MODULE PacketBodies ----------------------------
(***************************************************************************)
(* core/packet.py: how FRAME_SUBMIT and RESULT_PUSH bodies are built,      *)
(* validated and taken apart, the control extension block of               *)
(* core/messages/control.py, and the packet around them.                   *)
(*                                                                         *)
(* A byte string is a sequence of cells.  A payload or padding byte is     *)
(* B(v); a fixed-width structure of n bytes is the cell that holds it      *)
(* followed by n - 1 filler cells, so that lengths, offsets and alignment  *)
(* are the code's and a structure can be read only where it was written.   *)
(***************************************************************************)
EXTENDS WireMessages, SequencesExt

B(v)             == <<"byte", v>>
Filler           == <<"filler", 0>>
Struct(n, k, v)  == <<<<k, v>>>> \o [i \in 1 .. n - 1 |-> Filler]
Zeros(n)         == [i \in 1 .. n |-> B(0)]
Slice(s, from, n) == SubSeq(s, from + 1, from + n)
AllZero(s)       == \A i \in DOMAIN s : s[i] = B(0)

(* The structure of kind k and n bytes at an offset is there to be read. *)
Holds(s, offset, n, k) == offset + n <= Len(s) /\ s[offset + 1][1] = k
Read(s, offset)        == s[offset + 1][2]

Total(lengths) == SumFunctionOnSet(lengths, DOMAIN lengths)

AlignUp(n)  == ((n + 7) \div 8) * 8
Aligned(s)  == s \o Zeros(AlignUp(Len(s)) - Len(s))

---------------------------------------------------------------------------
(* Tile index blocks.  Modes: 0 dense range, 1 raw u16, 2 delta u16, 3 bit *)
(* set.                                                                    *)

Increasing(ids) == \A i \in 1 .. Len(ids) - 1 : ids[i] < ids[i + 1]

TileIndexPackable(ids, mode, base) ==
    /\ \A i \in DOMAIN ids : ids[i] <= Top(16)
    /\ mode = 0 => \A i \in DOMAIN ids : ids[i] = base + i - 1
    /\ mode \in {2, 3} => Increasing(ids)

U16(v)    == <<B(v % 256), B(v \div 256)>>
U16s(vs)  == FlattenSeq([i \in DOMAIN vs |-> U16(vs[i])])

BitByte(ids, b) == B(SumSet({2^(t % 8) : t \in {t \in Range(ids) : t \div 8 = b}}))

PackTileIndex(ids, mode, base) ==
    CASE mode = 0 \/ ids = <<>> -> <<>>
      [] mode = 1 -> U16s(ids)
      [] mode = 2 -> U16s([i \in DOMAIN ids |-> IF i = 1 THEN ids[1] ELSE ids[i] - ids[i - 1]])
      [] mode = 3 -> [b \in 1 .. Last(ids) \div 8 + 1 |-> BitByte(ids, b - 1)]

U16Read(block) == [i \in 1 .. Len(block) \div 2 |-> block[2 * i - 1][2] + 256 * block[2 * i][2]]

BitsRead(block) ==
    SetToSortSeq({t \in 0 .. 8 * Len(block) - 1 : (block[t \div 8 + 1][2] \div 2^(t % 8)) % 2 = 1}, <)

TileIndexReads(block, mode, count, base) ==
    CASE mode = 0 -> block = <<>>
      [] mode \in {1, 2} -> Len(block) = 2 * count
      [] mode = 3 -> Len(BitsRead(block)) = count

UnpackTileIndex(block, mode, count, base) ==
    CASE mode = 0 -> [i \in 1 .. count |-> base + i - 1]
      [] mode = 1 -> U16Read(block)
      [] mode = 2 -> [i \in 1 .. count |-> SumFunctionOnSet(U16Read(block), 1 .. i)]
      [] mode = 3 -> BitsRead(block)

---------------------------------------------------------------------------
(* Tensor sections.  A section is given by its role, its default codec, a  *)
(* codec for each tile (or none), the payload of each tile and a stride    *)
(* (0: payloads are laid end to end).                                      *)

CodecTable(s) ==
    IF \A i \in DOMAIN s.codecs : s.codecs[i] = s.codec THEN <<>> ELSE [i \in DOMAIN s.codecs |-> B(s.codecs[i])]

PayloadBlob(s) ==
    FlattenSeq([i \in DOMAIN s.tiles |->
                   IF s.stride = 0 THEN s.tiles[i] ELSE s.tiles[i] \o Zeros(s.stride - Len(s.tiles[i]))])

SectionPackable(s) ==
    /\ s.codecs = <<>> \/ Len(s.codecs) = Len(s.tiles)
    /\ s.stride # 0 => \A i \in DOMAIN s.tiles : Len(s.tiles[i]) <= s.stride

(* flags: bit 0 mixed codecs, bit 1 fixed stride *)
PackSection(s) ==
    LET lengths == FlattenSeq([i \in DOMAIN s.tiles |-> Struct(4, "u32", Len(s.tiles[i]))])
        desc == [role_id |-> s.role, codec_id |-> s.codec,
                 flags |-> (IF CodecTable(s) # <<>> THEN 1 ELSE 0) + (IF s.stride # 0 THEN 2 ELSE 0),
                 codec_table_bytes |-> Len(CodecTable(s)), length_table_bytes |-> Len(lengths),
                 payload_bytes |-> Len(PayloadBlob(s)), payload_stride_bytes |-> s.stride]
    IN Struct(32, "section", desc) \o CodecTable(s) \o lengths \o PayloadBlob(s)

SectionsPackable(sections, tile_count) ==
    /\ \A i \in 1 .. Len(sections) - 1 : sections[i].role < sections[i + 1].role
    /\ \A i \in DOMAIN sections : Len(sections[i].tiles) = tile_count /\ SectionPackable(sections[i])

PackSections(sections) == FoldLeft(LAMBDA region, s : Aligned(region) \o PackSection(s), <<>>, sections)

(* The view of the section at an offset: its tables and its payload. *)
SectionView(view, at) ==
    LET d == Read(view, at)
        codecEnd == at + 32 + d.codec_table_bytes
        entries == d.length_table_bytes \div 4
    IN [desc |-> d, size |-> 32 + d.codec_table_bytes + d.length_table_bytes + d.payload_bytes,
        codecs |-> Slice(view, at + 32, d.codec_table_bytes),
        lengths |-> [i \in 1 .. entries |-> Read(view, codecEnd + 4 * (i - 1))],
        payload |-> Slice(view, codecEnd + d.length_table_bytes, d.payload_bytes)]

SliceStart(v, i) == IF v.desc.payload_stride_bytes # 0 THEN (i - 1) * v.desc.payload_stride_bytes
                                                  ELSE SumFunctionOnSet(v.lengths, 1 .. i - 1)

PayloadSlices(v) == [i \in DOMAIN v.lengths |-> Slice(v.payload, SliceStart(v, i), v.lengths[i])]

SlicesOk(v) ==
    LET stride == v.desc.payload_stride_bytes
    IN IF stride = 0 THEN Total(v.lengths) = Len(v.payload)
       ELSE /\ Len(v.payload) = stride * Len(v.lengths)
            /\ \A i \in DOMAIN v.lengths :
                  /\ v.lengths[i] <= stride
                  /\ AllZero(Slice(v.payload, SliceStart(v, i) + v.lengths[i], stride - v.lengths[i]))

SectionReads(view, at) ==
    /\ Holds(view, at, 32, "section")
    /\ LET d == Read(view, at)
       IN /\ at + 32 + d.codec_table_bytes + d.length_table_bytes + d.payload_bytes <= Len(view)
          /\ d.length_table_bytes % 4 = 0
          /\ (d.flags \div 2) % 2 = 1 <=> d.payload_stride_bytes # 0
          /\ d.flags % 2 = 1 <=> d.codec_table_bytes # 0
          /\ d.codec_table_bytes \in {0, d.length_table_bytes \div 4}
    /\ SlicesOk(SectionView(view, at))

SizeAt(view, at) == IF SectionReads(view, at) THEN SectionView(view, at).size ELSE Len(view) + 1

(* The cursor of unpack_tensor_body before each section and after the last *)
Cursors(view, count) ==
    LET end[i \in 0 .. count] == IF i = 0 THEN 0 ELSE AlignUp(end[i - 1]) + SizeAt(view, AlignUp(end[i - 1]))
    IN end

\* Mutant of TensorBodyReads: what follows the last section is not looked at.
TensorBodyReads_Trailing(view, count, tile_count) ==
    \A i \in 1 .. count : /\ Cursors(view, count)[i] <= Len(view)
                         /\ Len(SectionView(view, AlignUp(Cursors(view, count)[i - 1])).lengths) = tile_count

TensorBodyReads(view, count, tile_count) ==
    LET end == Cursors(view, count)
    IN /\ end[count] = Len(view)
       /\ \A i \in 1 .. count : AllZero(Slice(view, end[i - 1], AlignUp(end[i - 1]) - end[i - 1]))
       /\ \A i \in 1 .. count :
             LET v == SectionView(view, AlignUp(end[i - 1]))
             IN /\ Len(v.lengths) = tile_count
                /\ i > 1 => v.desc.role_id > SectionView(view, AlignUp(end[i - 2])).desc.role_id

UnpackTensorBody(view, count) ==
    [i \in 1 .. count |-> LET v == SectionView(view, AlignUp(Cursors(view, count)[i - 1]))
                          IN [role |-> v.desc.role_id, codec |-> v.desc.codec_id,
                              codecs |-> v.codecs, tiles |-> PayloadSlices(v)]]

---------------------------------------------------------------------------
(* Inline object blocks and object references.  Kinds: 1 camera, 2 tile    *)
(* index, 3 section table, 6 payload layout template.                      *)

InlineBlock(kind, payload) ==
    Aligned(Struct(16, "inline", [object_kind |-> kind, object_bytes |-> Len(payload)]) \o payload)

RECURSIVE InlineBlocks(_, _)
(* _split_inline_object_region with unpack_inline_object_block on each     *)
(* part; a last block of kind 0 says that the region cannot be read.       *)
InlineBlocks(region, at) ==
    IF at >= Len(region) THEN <<>>
    ELSE IF ~Holds(region, at, 16, "inline") THEN <<[kind |-> 0, payload |-> <<>>]>>
    ELSE LET h == Read(region, at)
             size == AlignUp(16 + h.object_bytes)
         IN IF at + size > Len(region) \/ ~AllZero(Slice(region, at + 16 + h.object_bytes, size - 16 - h.object_bytes))
            THEN <<[kind |-> 0, payload |-> <<>>]>>
            ELSE <<[kind |-> h.object_kind, payload |-> Slice(region, at + 16, h.object_bytes)]>>
                 \o InlineBlocks(region, at + size)

InlineReads(region) == \A i \in DOMAIN InlineBlocks(region, 0) : InlineBlocks(region, 0)[i].kind # 0

OfKind(blocks, kind) == SelectSeq(blocks, LAMBDA b : b.kind = kind)

(* A reference names a kind and a cache key (namespace, hi and lo as one). *)
PackReferences(refs) == FlattenSeq([i \in DOMAIN refs |-> Struct(24, "ref", refs[i])])

Table(region, size, k)      == [i \in 1 .. Len(region) \div size |-> Read(region, size * (i - 1))]
TableReads(region, size, k) ==
    Len(region) % size = 0 /\ \A i \in 1 .. Len(region) \div size : Holds(region, size * (i - 1), size, k)

---------------------------------------------------------------------------
(* Typed payload frames and extension frames: a descriptor table and the   *)
(* payloads end to end.                                                    *)

FramePackable(f) == f.kind \in {2^i : i \in 1 .. 7} /\ f.profile <= Top(16)

Offset(frames, i) == SumFunctionOnSet([j \in DOMAIN frames |-> Len(frames[j].payload)], 1 .. i - 1)

PackDescriptors(frames, size, k) ==
    FlattenSeq([i \in DOMAIN frames |->
        Struct(size, k, [kind |-> frames[i].kind, profile |-> frames[i].profile, critical |-> frames[i].critical,
                         offset |-> Offset(frames, i), length |-> Len(frames[i].payload)])])

PackPayloads(frames) == FlattenSeq([i \in DOMAIN frames |-> frames[i].payload])

OffsetsOk(ds, length) ==
    /\ \A i \in 1 .. Len(ds) - 1 : ds[i].offset + ds[i].length <= ds[i + 1].offset
    /\ \A i \in DOMAIN ds : ds[i].offset + ds[i].length <= length

UnpackFrames(ds, payloads) ==
    [i \in DOMAIN ds |-> [kind |-> ds[i].kind, profile |-> ds[i].profile, critical |-> ds[i].critical,
                          payload |-> Slice(payloads, ds[i].offset, ds[i].length)]]

KindUnion(ds) == SumSet({ds[i].kind : i \in DOMAIN ds})

ExtensionsRead(ds, known)   == \A i \in DOMAIN ds : ds[i].kind \in known \/ ~ds[i].critical
UnpackExtensions(ds, payloads, known) ==
    SelectSeq(UnpackFrames(ds, payloads), LAMBDA f : f.kind \in known)

---------------------------------------------------------------------------
(* The control extension block of the hello messages. *)

\* Mutant of PackExtensionEntry: the payload is not padded.
PackExtensionEntry_Unpadded(e) ==
    Struct(8, "entry", [type |-> e.type, critical |-> e.critical, length |-> Len(e.payload)]) \o e.payload

PackExtensionEntry(e) ==
    Struct(8, "entry", [type |-> e.type, critical |-> e.critical, length |-> Len(e.payload)])
    \o e.payload \o Zeros(AlignUp(Len(e.payload)) - Len(e.payload))

PackExtensionBlock(entries) == FlattenSeq([i \in DOMAIN entries |-> PackExtensionEntry(entries[i])])

RECURSIVE ExtensionEntries(_, _, _)
(* unpack_control_extension_block; an entry of type 0 says that the block  *)
(* is refused.                                                             *)
ExtensionEntries(block, at, known) ==
    IF at >= Len(block) THEN <<>>
    ELSE IF ~Holds(block, at, 8, "entry") THEN <<[type |-> 0, critical |-> FALSE, payload |-> <<>>]>>
    ELSE LET h == Read(block, at)
             padding == AlignUp(h.length) - h.length
             payloadEnd == at + 8 + h.length
         IN CASE \/ payloadEnd + padding > Len(block)
                 \/ ~AllZero(Slice(block, payloadEnd, padding))
                 \/ h.type \notin known /\ h.critical -> <<[type |-> 0, critical |-> FALSE, payload |-> <<>>]>>
              [] OTHER ->
                 (IF h.type \notin known THEN <<>>
                  ELSE <<[type |-> h.type, critical |-> h.critical, payload |-> Slice(block, at + 8, h.length)]>>)
                 \o ExtensionEntries(block, payloadEnd + padding, known)

ExtensionBlockReads(block, known) ==
    LET es == ExtensionEntries(block, 0, known) IN \A i \in DOMAIN es : es[i].type # 0

(* The extensions of the hello messages: an entry for each class. *)
HelloType ==
    [ClientTransportPolicy |-> 257, ServerTransportPolicy |-> 258, ClientLossTolerance |-> 259, ServerLossTolerance |-> 260,
     ClientPayloadCapabilities |-> 261, ServerPayloadCapabilities |-> 262]

BuildHelloExtension(k, o) == [type |-> HelloType[k], critical |-> FALSE, payload |-> Struct(8, "hello", Pack(k, o))]

ParseHelloExtension(k, e) ==
    IF e.type = HelloType[k] /\ Len(e.payload) = 8 THEN Unpack(k, Read(e.payload, 0)) ELSE Refused

(* The body of SESSION_PATCH and of its ack: no block, or one of 16 bytes, *)
(* as the metadata announces.                                              *)
PackPatchBody(k, block) == IF block = <<>> THEN <<>> ELSE Struct(16, k, Pack(k, block[1]))

PatchBodyReads(k, body, announced) ==
    /\ announced \in {0, 16} /\ Len(body) = announced
    /\ announced = 16 => Holds(body, 0, 16, k)

UnpackPatchBody(k, body) == IF body = <<>> THEN <<>> ELSE <<Unpack(k, Read(body, 0))>>

---------------------------------------------------------------------------
(* The body: a prelude and six regions. *)

Prelude(r) ==
    [inline_object_bytes |-> Len(r.inline), object_reference_bytes |-> Len(r.refs),
     typed_payload_descriptor_bytes |-> Len(r.descs), typed_payload_frame_bytes |-> Len(r.frames),
     extension_descriptor_bytes |-> Len(r.extDescs), extension_payload_bytes |-> Len(r.ext),
     body_flags |-> 0, reserved |-> 0]

EmptyRegions == [inline |-> <<>>, refs |-> <<>>, descs |-> <<>>, frames |-> <<>>, extDescs |-> <<>>, ext |-> <<>>]

PackBody(r) ==
    Struct(32, "prelude", Prelude(r)) \o r.inline \o r.refs \o r.descs \o r.frames \o r.extDescs \o r.ext

Regions(body) ==
    LET p == Read(body, 0)
        at1 == 32 + p.inline_object_bytes
        at2 == at1 + p.object_reference_bytes
        at3 == at2 + p.typed_payload_descriptor_bytes
        at4 == at3 + p.typed_payload_frame_bytes
        at5 == at4 + p.extension_descriptor_bytes
    IN [inline |-> Slice(body, 32, p.inline_object_bytes), refs |-> Slice(body, at1, p.object_reference_bytes),
        descs |-> Slice(body, at2, p.typed_payload_descriptor_bytes),
        frames |-> Slice(body, at3, p.typed_payload_frame_bytes),
        extDescs |-> Slice(body, at4, p.extension_descriptor_bytes),
        ext |-> Slice(body, at5, p.extension_payload_bytes)]

Descs(r)    == Table(r.descs, 24, "typed")
ExtDescs(r) == Table(r.extDescs, 16, "ext")
Refs(r)     == Table(r.refs, 24, "ref")

(* unpack_body: the lengths add up and every region can be read *)
BodyReads(body) ==
    /\ Holds(body, 0, 32, "prelude")
    /\ BodyPreludeRules(Read(body, 0))
    /\ LET p == Read(body, 0)
       IN Len(body) = 32 + p.inline_object_bytes + p.object_reference_bytes + p.typed_payload_descriptor_bytes
                         + p.typed_payload_frame_bytes + p.extension_descriptor_bytes + p.extension_payload_bytes
    /\ LET r == Regions(body)
       IN /\ InlineReads(r.inline)
          /\ TableReads(r.refs, 24, "ref") /\ TableReads(r.descs, 24, "typed") /\ TableReads(r.extDescs, 16, "ext")
          /\ OffsetsOk(Descs(r), Len(r.frames)) /\ OffsetsOk(ExtDescs(r), Len(r.ext))

(* The typed payload descriptors agree with the metadata m. *)
TypedPayloadsAgree(m, r) ==
    /\ Len(Descs(r)) = m.payload_frame_count
    /\ m.payload_frame_count = 0 => r.frames = <<>>
    /\ \A i \in DOMAIN Descs(r) : Descs(r)[i].kind # 1 /\ Descs(r)[i].profile # 1
    /\ KindUnion(Descs(r)) = m.payload_kind_bitmap - (m.payload_kind_bitmap % 2)

(* The slots of object_ref_mask: bit i - 1 stands for kind Slots[i]. *)
Slots == <<1, 2, 3, 6>>
Masked(mask, i) == (mask \div 2^(i - 1)) % 2 = 1

TileIndexAgrees(m, blocks, mode, referenced) ==
    /\ IF blocks # <<>>
       THEN /\ Len(blocks[1].payload) = m.tile_index_bytes
            /\ TileIndexReads(blocks[1].payload, mode, m.tile_count, m.tile_base_id)
       ELSE m.tile_count > 0 => referenced
    /\ referenced => m.tile_index_bytes = 0

SectionsAgree(m, blocks, referenced) ==
    IF blocks # <<>> THEN TensorBodyReads(blocks[1].payload, m.section_count, m.tile_count)
                     ELSE m.section_count > 0 => referenced

(* submit_mode: 0 inline, 1 reference, 2 mixed *)
SubmitObjectsAgree(m, r) ==
    LET blocks == InlineBlocks(r.inline, 0)
        refs == Refs(r)
        camera == OfKind(blocks, 1)
    IN /\ m.object_ref_mask < 16
       /\ m.submit_mode = 0 => m.object_ref_mask = 0 /\ refs = <<>>
       /\ \A i \in DOMAIN Slots :
             /\ Len(OfKind(blocks, Slots[i])) <= 1
             /\ Masked(m.object_ref_mask, i) => OfKind(blocks, Slots[i]) = <<>>
             /\ m.submit_mode = 1 => OfKind(blocks, Slots[i]) = <<>>
       /\ [i \in DOMAIN refs |-> refs[i].kind]
             = FlattenSeq([i \in DOMAIN Slots |-> IF Masked(m.object_ref_mask, i) THEN <<Slots[i]>> ELSE <<>>])
       /\ IF camera # <<>> THEN Len(camera[1].payload) = m.camera_bytes ELSE m.camera_bytes = 0
       /\ TileIndexAgrees(m, OfKind(blocks, 2), m.tile_index_mode, Masked(m.object_ref_mask, 2))
       /\ SectionsAgree(m, OfKind(blocks, 3), Masked(m.object_ref_mask, 3))

(* RESULT_PUSH carries no tile index mode: bytes mean raw, none means dense. *)
ResultMode(m) == IF m.tile_index_bytes # 0 THEN 1 ELSE 0

ResultObjectsAgree(m, r) ==
    LET blocks == InlineBlocks(r.inline, 0)
        refs == Refs(r)
        refsOf(kind) == SelectSeq(refs, LAMBDA b : b.kind = kind)
    IN /\ \A i \in 1 .. Len(refs) - 1 :
             \/ refs[i].kind < refs[i + 1].kind
             \/ refs[i].kind = refs[i + 1].kind /\ refs[i].key < refs[i + 1].key
       /\ \A kind \in {2, 3} : Len(OfKind(blocks, kind)) + Len(refsOf(kind)) <= 1
       /\ TileIndexAgrees(m, OfKind(blocks, 2), ResultMode(m), refsOf(2) # <<>>)
       /\ SectionsAgree(m, OfKind(blocks, 3), refsOf(3) # <<>>)

TensorCoverage(m) ==
    Tensor(m) => /\ m.covered_tile_count + m.dropped_tile_count = m.tile_count
                 /\ (m.result_class = 1 \/ m.result_flags \div 4 = 1) => m.dropped_tile_count > 0

SubmitBodyAccepted(m, body) ==
    BodyReads(body) /\ TypedPayloadsAgree(m, Regions(body)) /\ SubmitObjectsAgree(m, Regions(body))

ResultBodyAccepted(m, body) ==
    BodyReads(body) /\ TensorCoverage(m) /\ TypedPayloadsAgree(m, Regions(body)) /\ ResultObjectsAgree(m, Regions(body))
=============================================================================
