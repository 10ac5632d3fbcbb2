---------------------------- MODULE WireMessages ----------------------------
(***************************************************************************)
(* The fixed-width messages of nnrp: every metadata class of               *)
(* core/messages/control.py and core/messages/data.py, the descriptors of  *)
(* schema.py and the header of core/header.py, with those of the runtime   *)
(* (RuntimeMessages); how they are packed and unpacked, and the rules that *)
(* relate several fields of a class.                                       *)
(***************************************************************************)
EXTENDS RuntimeMessages

---------------------------------------------------------------------------
(* core/header.py *)

Magic == 7

MessageTypes == (1 .. 10) \cup (16 .. 28) \cup {32, 33} \cup (48 .. 73)

Header ==
    <<Const(32, Magic), U("version_major", 8), In("wire_format", 8, {0}),
      In("msg_type", 8, MessageTypes), In("header_len", 8, {40})>>
    \o Us(32, <<"flags", "meta_len", "body_len", "session_id", "frame_id">>)
    \o <<U("view_id", 16), U("route_id", 16), U("trace_id", 64)>>

---------------------------------------------------------------------------
(* core/messages/control.py *)

SessionOpen ==
    <<U("requested_session_id", 32), U("profile_id", 16), In("priority_class", 8, 0 .. 2),
      In("session_flags", 8, Bits(4))>>
    \o Us(32, <<"schema_id", "schema_version", "default_deadline_ms">>)
    \o <<U("max_in_flight_operations", 16), Zero(16)>>
    \o Us(32, <<"lease_ttl_hint_ms", "resume_token_bytes", "auth_bytes", "session_extension_bytes">>)
    \o <<U("client_session_tag", 64)>>

FlowUpdate ==
    <<In("scope_kind", 8, 0 .. 2), In("update_reason", 8, 0 .. 4), In("backpressure_level", 8, 0 .. 2), Pad(8)>>
    \o Us(16, <<"connection_credit", "session_credit", "operation_credit">>)
    \o <<Pad(16), U("operation_id", 64), U("retry_after_ms", 32), U("credit_epoch", 32), In("flags", 32, Bits(4))>>

(* scope 0 is the connection, 1 the session, 2 an operation; bit 1 of the  *)
(* flags says that retry_after_ms is meant.                                *)
FlowUpdateRules(o) ==
    /\ o.retry_after_ms # 0 => (o.flags \div 2) % 2 = 1
    /\ o.scope_kind = 0 => o.session_credit = 0 /\ o.operation_credit = 0 /\ o.operation_id = 0
    /\ o.scope_kind = 1 => o.connection_credit = 0 /\ o.operation_credit = 0 /\ o.operation_id = 0
    /\ o.scope_kind = 2 => o.connection_credit = 0 /\ o.session_credit = 0 /\ o.operation_id # 0

ResultHint ==
    <<In("applied_budget_policy", 32, 0 .. 4), In("congestion_state", 32, 0 .. 3), In("reason", 32, 0 .. 4),
      U("retry_after_ms", 32)>>

TransportProbe    == Us(32, <<"probe_id", "probe_payload_bytes">>) \o <<U("client_send_ts_us", 64)>>
TransportProbeAck == Us(32, <<"probe_id", "reserved">>) \o <<U("server_recv_ts_us", 64)>>

TransportIds == 0 .. 4

SessionMigrate ==
    <<In("old_transport_id", 32, TransportIds \ {0}), In("new_transport_id", 32, TransportIds \ {0})>>
    \o Us(64, <<"last_result_frame_id", "client_migrate_ts_us">>)

SessionMigrateAck ==
    <<U("accept_code", 32), U("resume_from_frame_id", 64), U("grace_window_ms", 32), U("server_migrate_ts_us", 64)>>

ClientTransportPolicy ==
    <<In("transport_policy", 8, 0 .. 8), Pad(8), Pad(16), In("preferred_transport_id", 32, TransportIds)>>

ServerTransportPolicy ==
    <<In("transport_policy", 8, 0 .. 8), In("accepted_transport_policy", 8, 0 .. 8), Pad(16),
      In("active_transport_id", 32, TransportIds)>>

ClientLossTolerance == <<In("session_loss_tolerance", 8, 0 .. 3), Zero(8), Zero(16), Zero(32)>>
ServerLossTolerance == <<In("accepted_loss_tolerance", 8, 0 .. 3), Zero(8), Zero(16), Zero(32)>>

(* The critical extension bitmap is a field, but only 0 is let through. *)
PayloadCapabilities(kinds, critical) == <<In(kinds, 32, Bits(7)), In(critical, 32, {0})>>

ClientPayloadCapabilities == PayloadCapabilities("payload_kind_bitmap", "critical_extension_frame_bitmap")

ServerPayloadCapabilities ==
    PayloadCapabilities("accepted_payload_kind_bitmap", "accepted_critical_extension_frame_bitmap")

ClientHello ==
    <<U("min_version_major", 8), U("max_version_major", 8), U("supported_wire_format_bitmap", 16)>>
    \o Us(32, <<"supported_profile_bitmap", "supported_payload_kind_bitmap", "supported_codec_bitmap",
                "supported_compression_bitmap", "supported_dtype_bitmap", "supported_layout_bitmap">>)
    \o Us(16, <<"cache_digest_bitmap", "cache_object_bitmap", "cache_namespace_count", "max_lane_count">>)
    \o Us(32, <<"max_cache_entries", "max_cache_bytes">>)
    \o Us(16, <<"target_cadence_x100", "latency_budget_ms", "quality_tier", "degrade_policy">>)
    \o Us(32, <<"requested_session_id", "auth_bytes", "control_extension_bytes">>)

ServerHelloAck ==
    Us(8, <<"selected_version_major", "selected_wire_format", "auth_status", "reserved0">>)
    \o Us(32, <<"session_id", "accepted_profile_bitmap", "accepted_payload_kind_bitmap", "accepted_codec_bitmap",
                "accepted_compression_bitmap", "accepted_dtype_bitmap", "accepted_layout_bitmap",
                "cache_digest_bitmap", "cache_object_bitmap", "max_cache_entries", "max_cache_bytes">>)
    \o Us(16, <<"max_lane_count", "max_concurrent_frames", "target_cadence_x100", "latency_budget_ms",
                "quality_tier", "degrade_policy">>)
    \o Us(32, <<"max_body_bytes", "token_ttl_ms", "retry_after_ms", "control_extension_bytes", "server_flags">>)

(* patch_mask is an IntFlag, which keeps bits it does not know. *)
SessionPatch ==
    Us(16, <<"profile_id", "reserved0">>) \o Us(32, <<"patch_mask", "target_cadence_x100">>)
    \o Us(16, <<"quality_tier", "degrade_policy">>) \o <<U("active_lane_mask", 64)>>
    \o Us(32, <<"preferred_codec_bitmap", "preferred_compression_bitmap", "profile_patch_bytes">>)

SessionPatchAck ==
    <<In("ack_status", 16, 0 .. 2), In("reject_reason", 16, 0 .. 5)>>
    \o Us(32, <<"applied_patch_mask", "rejected_patch_mask", "retry_after_ms">>)
    \o Us(16, <<"effective_profile_id", "reserved0">>) \o <<U("effective_target_cadence_x100", 32)>>
    \o Us(16, <<"effective_quality_tier", "effective_degrade_policy">>) \o <<U("effective_lane_mask", 64)>>
    \o Us(32, <<"effective_codec_bitmap", "effective_compression_bitmap", "profile_patch_ack_bytes">>)

TensorProfilePatch    == Us(32, <<"min_width", "min_height", "max_width", "max_height">>)
TensorProfilePatchAck == Us(32, <<"min_width", "min_height", "max_width", "max_height">>)

Error ==
    <<U("error_code", 32), In("error_scope", 32, 0 .. 2)>>
    \o Us(32, <<"is_fatal", "retry_after_ms", "related_session_id", "related_frame_id", "related_view_id",
                "diagnostic_bytes">>)

ObjectKinds == 1 .. 9

CachePut ==
    <<U("cache_namespace", 32), In("object_kind", 32, ObjectKinds), U("cache_key_hi", 64), U("cache_key_lo", 64)>>
    \o Us(32, <<"ttl_ms", "object_bytes", "codec_bitmap">>) \o <<In("flags", 32, Bits(2))>>

CacheAck ==
    <<U("cache_namespace", 32), In("status", 32, 0 .. 2), U("cache_key_hi", 64), U("cache_key_lo", 64)>>
    \o Us(32, <<"accepted_ttl_ms", "max_object_bytes", "detail_code">>) \o <<Zero(32)>>

CacheInvalidate ==
    <<In("invalidate_scope", 32, 0 .. 3), U("cache_namespace", 32), U("cache_key_hi", 64), U("cache_key_lo", 64),
      U("reason_code", 32), Zero(32)>>

(* scope 0 is the whole session, 1 a namespace, 2 an object kind (held in  *)
(* 32 bits of cache_key_hi), 3 one key.                                    *)
CacheInvalidateRules(o) ==
    /\ o.invalidate_scope = 0 => o.cache_namespace = 0
    /\ o.invalidate_scope \in {0, 1} => o.cache_key_hi = 0
    /\ o.invalidate_scope = 2 => o.cache_key_hi <= Top(32)
    /\ o.invalidate_scope \in 0 .. 2 => o.cache_key_lo = 0

---------------------------------------------------------------------------
(* core/messages/data.py *)

BodyPrelude ==
    Us(32, <<"inline_object_bytes", "object_reference_bytes", "typed_payload_descriptor_bytes",
             "typed_payload_frame_bytes", "extension_descriptor_bytes", "extension_payload_bytes">>)
    \o <<In("body_flags", 32, {0}), In("reserved", 32, {0})>>

BodyPreludeRules(o) ==
    /\ o.object_reference_bytes % 24 = 0
    /\ o.typed_payload_descriptor_bytes % 24 = 0
    /\ o.extension_descriptor_bytes % 16 = 0

InlineObjectHeader ==
    <<In("object_kind", 16, ObjectKinds), In("object_flags", 16, {0}), U("profile_id", 16), In("reserved0", 16, {0}),
      U("object_bytes", 32), In("reserved1", 32, {0})>>

ObjectReference ==
    <<In("object_kind", 16, ObjectKinds), In("ref_flags", 16, {0}), U("cache_namespace", 32), U("cache_key_hi", 64),
      U("cache_key_lo", 64)>>

ExtensionDescriptor ==
    <<U("extension_kind", 16), In("extension_flags", 16, Bits(1)), U("profile_id", 16), In("reserved0", 16, {0}),
      U("payload_offset", 32), U("payload_length", 32)>>

FrameSubmit ==
    Us(16, <<"src_width", "src_height", "tile_width", "tile_height", "tile_count", "section_count">>)
    \o <<U("frame_class", 8), In("input_profile", 8, 0 .. 2), In("tile_index_mode", 8, 0 .. 3), U("reserved0", 8)>>
    \o Us(16, <<"latency_budget_ms", "target_fps_x100">>)
    \o Us(32, <<"retry_of_frame", "tile_base_id", "camera_bytes", "tile_index_bytes", "reserved1">>)
    \o <<U("operation_id", 64), U("reserved2", 32), In("submit_mode", 8, 0 .. 2), In("budget_policy", 8, Bits(4)),
         In("loss_tolerance_policy", 8, 0 .. 3 \cup {255}), U("reserved3", 8)>>
    \o Us(32, <<"object_ref_mask", "dependency_frame_id">>)
    \o <<In("payload_kind_bitmap", 32, Bits(7)), U("payload_frame_count", 16), U("reserved4", 16)>>

Tensor(o) == o.payload_kind_bitmap % 2 = 1

FrameSubmitRules(o) ==
    /\ o.operation_id # 0
    /\ ~Tensor(o) =>
          \A f \in {"src_width", "src_height", "tile_width", "tile_height", "tile_count", "section_count",
                    "tile_base_id", "camera_bytes", "tile_index_bytes", "input_profile"} : o[f] = 0

TensorSection ==
    <<U("role_id", 16), U("codec_id", 8), In("dtype_id", 8, 0 .. 7), In("layout_id", 8, 0 .. 1),
      In("scale_policy", 8, 0 .. 2), U("flags", 16)>>
    \o Us(32, <<"element_count_per_tile", "codec_table_bytes", "length_table_bytes", "payload_bytes",
                "payload_stride_bytes", "reserved">>)

ResultPush ==
    <<U("status_code", 16), In("result_flags", 16, Bits(3))>>
    \o Us(16, <<"section_count", "tile_count", "active_profile_id", "reserved0", "inference_ms", "queue_ms",
                "server_total_ms", "reserved1">>)
    \o Us(32, <<"tile_base_id", "tile_index_bytes">>) \o Us(64, <<"reserved2", "reserved3">>)
    \o <<In("result_class", 8, 0 .. 3), In("applied_budget_policy", 8, Bits(4)), U("reserved4", 16),
         U("reused_frame_id", 32), U("covered_tile_count", 16), U("dropped_tile_count", 16),
         In("payload_kind_bitmap", 32, Bits(7)), U("payload_frame_count", 16), U("reserved5", 16)>>

(* result_flags: bit 0 stale, bit 1 fallback, bit 2 partial; result_class: *)
(* 0 complete, 1 partial, 2 stale reuse, 3 degraded.                       *)
NonTensorResultRules(o) ==
    ~Tensor(o) => \A f \in {"section_count", "tile_count", "tile_base_id", "tile_index_bytes",
                            "covered_tile_count", "dropped_tile_count"} : o[f] = 0

ResultPushRules(o) ==
    /\ (o.result_class = 2 \/ o.result_flags % 2 = 1) <=> o.reused_frame_id # 0
    /\ Tensor(o) => /\ (o.result_class = 1 \/ o.result_flags \div 4 = 1) => o.dropped_tile_count # 0
                    /\ o.covered_tile_count + o.dropped_tile_count = o.tile_count

---------------------------------------------------------------------------
(* schema.py.  PayloadKind keeps bits it does not know, so a descriptor    *)
(* takes any single bit of its byte.                                       *)

SchemaDescriptor ==
    <<U("schema_id", 32), U("schema_version", 32), U("profile_id", 16), In("schema_flags", 16, Bits(4)),
      U("min_version_major", 8), U("max_version_major", 8), Zero(16), U("body_bytes", 32),
      U("dependency_count", 16), U("default_stream_semantics", 16), U("schema_hash", 64)>>

TypedPayloadDescriptor ==
    <<U("profile_id", 16), In("payload_kind", 8, {2^i : i \in 0 .. 7}), In("descriptor_flags", 8, Bits(4)),
      U("schema_id", 32), U("schema_version", 32), U("stream_semantics", 16), Zero(16),
      U("offset", 32), U("length", 32)>>

---------------------------------------------------------------------------
Layout ==
    [Header |-> Header, SessionOpen |-> SessionOpen, FlowUpdate |-> FlowUpdate, ResultHint |-> ResultHint,
     TransportProbe |-> TransportProbe, TransportProbeAck |-> TransportProbeAck, SessionMigrate |-> SessionMigrate,
     SessionMigrateAck |-> SessionMigrateAck, ClientTransportPolicy |-> ClientTransportPolicy,
     ServerTransportPolicy |-> ServerTransportPolicy, ClientLossTolerance |-> ClientLossTolerance,
     ServerLossTolerance |-> ServerLossTolerance, ClientPayloadCapabilities |-> ClientPayloadCapabilities,
     ServerPayloadCapabilities |-> ServerPayloadCapabilities, ClientHello |-> ClientHello,
     ServerHelloAck |-> ServerHelloAck, SessionPatch |-> SessionPatch, SessionPatchAck |-> SessionPatchAck,
     TensorProfilePatch |-> TensorProfilePatch, TensorProfilePatchAck |-> TensorProfilePatchAck, Error |-> Error,
     CachePut |-> CachePut, CacheAck |-> CacheAck, CacheInvalidate |-> CacheInvalidate, BodyPrelude |-> BodyPrelude,
     InlineObjectHeader |-> InlineObjectHeader, ObjectReference |-> ObjectReference,
     ExtensionDescriptor |-> ExtensionDescriptor, FrameSubmit |-> FrameSubmit, TensorSection |-> TensorSection,
     ResultPush |-> ResultPush, SchemaDescriptor |-> SchemaDescriptor,
     TypedPayloadDescriptor |-> TypedPayloadDescriptor]
    @@ RuntimeLayout

Rules(k, o) ==
    CASE k = "FlowUpdate"      -> FlowUpdateRules(o)
      [] k = "CacheInvalidate" -> CacheInvalidateRules(o)
      [] k = "BodyPrelude"     -> BodyPreludeRules(o)
      [] k = "FrameSubmit"     -> FrameSubmitRules(o)
      [] k = "RecoveryTicket"  -> RecoveryTicketRules(o)
      [] k = "ResultPush"      -> NonTensorResultRules(o) /\ ResultPushRules(o)
      [] OTHER                 -> TRUE

(* A layout is the sequence of its fields; one without a name is reserved. *)
Named(fs)   == {i \in DOMAIN fs : fs[i].name # ""}
NamesIn(fs) == {fs[i].name : i \in Named(fs)}
Fields(k)   == Named(Layout[k])
Names(k)    == NamesIn(Layout[k])

(* The refusal of either direction: a ValueError or a struct.error. *)
Refused == <<>>

WordsOf(fs, o) == [i \in DOMAIN fs |-> IF i \in Named(fs) THEN Word(fs[i], o[fs[i].name]) ELSE Min(fs[i].out)]

Words(k, o) == WordsOf(Layout[k], o)

Writable(fs, o) == \A i \in Named(fs) : o[fs[i].name] \in fs[i].out

(* pack: an object of the class (its constructor's checks and the ones of  *)
(* pack itself), then the struct, which refuses what does not fit.         *)
Pack(k, o) == IF Writable(Layout[k], o) /\ Rules(k, o) THEN Words(k, o) ELSE Refused

Readable(fs, words) == Len(words) = Len(fs) /\ \A i \in DOMAIN words : words[i] \in fs[i].in

ObjectOf(fs, words) ==
    [n \in NamesIn(fs) |-> LET i == CHOOSE i \in Named(fs) : fs[i].name = n IN Value(fs[i], words[i])]

Checked(k, o) == IF Rules(k, o) THEN o ELSE Refused

\* Mutant of Unpack: the fields are not related again.
Unpack_NoRules(k, words) == IF Readable(Layout[k], words) THEN ObjectOf(Layout[k], words) ELSE Refused

(* unpack: the length, the enums, masks and reserved fields, and the rules *)
(* again on the object that was read.                                      *)
Unpack(k, words) == IF Readable(Layout[k], words) THEN Checked(k, ObjectOf(Layout[k], words)) ELSE Refused
=============================================================================
