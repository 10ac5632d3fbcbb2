-------------------------- MODULE RuntimeMessages --------------------------
(***************************************************************************)
(* The runtime metadata classes of runtime/types.py: control requests and  *)
(* replies of an operation, and the objects and cache entries they name.   *)
(***************************************************************************)
EXTENDS WireFields, TLC

Flags(w, n) == In("flags", w, Bits(n))
Ids(names)  == Us(64, names)

SessionClose ==
    <<In("close_reason", 16, 0 .. 5), In("in_flight_policy", 8, 0 .. 1), Zero(8), U("drain_timeout_ms", 32),
      U("last_operation_id", 64), U("session_error_code", 32), U("session_close_tag", 32)>>

(* The flags are checked by pack and not by unpack. *)
ControlRequest ==
    Ids(<<"operation_id", "control_sequence">>)
    \o <<U("reason_code", 16), U("source_role", 8), WrittenIn("flags", 8, Bits(2)), U("diagnostic_bytes", 32), Zero(64)>>

Scheduling ==
    Ids(<<"operation_id", "control_sequence">>)
    \o <<U("priority_class", 16), Signed("priority_delta", 16), U("deadline_unix_ms", 64), Flags(32, 2)>>

Supersede ==
    Ids(<<"old_operation_id", "new_operation_id", "control_sequence">>)
    \o <<U("drop_reason_code", 16), Flags(16, 1), U("diagnostic_bytes", 32)>>

Budget ==
    Ids(<<"operation_id", "compute_budget_units", "memory_budget_bytes", "bandwidth_budget_bytes">>)
    \o <<U("token_budget", 32), Flags(32, 2)>>

Progress ==
    Ids(<<"operation_id", "progress_sequence">>)
    \o <<U("stage_code", 16), In("percent_x100", 16, 0 .. 10000 \cup {65535}), U("object_id", 64), U("body_bytes", 32)>>

PartialResult ==
    Ids(<<"operation_id", "result_sequence", "object_id", "delta_sequence">>) \o <<U("body_bytes", 32), Flags(32, 2)>>

Pressure ==
    Ids(<<"scope_id", "credit_window">>)
    \o <<U("pressure_level", 16), U("pressure_reason", 16), U("retry_after_ms", 32), Flags(32, 2), Zero(32)>>

Capability ==
    Us(16, <<"profile_id", "capability_count", "cost_model_id", "preference_rank">>)
    \o Ids(<<"limit_bytes", "limit_units">>) \o <<U("body_bytes", 32), Flags(32, 2)>>

RouteHint ==
    <<U("operation_id", 64), U("route_id", 32), U("executor_class", 16), U("affinity_class", 16),
      U("deadline_unix_ms", 64), U("body_bytes", 32), Flags(32, 2)>>

TraceContext ==
    Ids(<<"trace_id", "span_id", "parent_span_id">>) \o <<U("stage_code", 16), Flags(16, 2), U("body_bytes", 32)>>

ResultDropReason ==
    Ids(<<"operation_id", "result_sequence">>)
    \o <<U("drop_reason_code", 16), U("source_role", 8), Flags(8, 2), U("diagnostic_bytes", 32), Zero(64)>>

RecoverableError ==
    Us(32, <<"error_code", "error_scope">>) \o <<U("recovery_action", 16), U("source_role", 8), Flags(8, 2)>>
    \o Us(32, <<"retry_after_ms", "related_session_id", "related_frame_id", "related_view_id", "diagnostic_bytes">>)

RetryAfter ==
    Ids(<<"scope_id", "control_sequence">>) \o Us(32, <<"retry_after_ms", "jitter_ms">>)
    \o <<U("reason_code", 16), U("source_role", 8), Flags(8, 2), U("diagnostic_bytes", 32)>>

(* Kinds, roles and hints of objects are declared as their enum or any     *)
(* integer: pack writes either, unpack reads only the members.             *)
ObjectDescriptor ==
    <<U("object_id", 64), ReadIn("object_kind", 16, 0 .. 12), ReadIn("producer_role", 8, 0 .. 7),
      ReadIn("consumer_role", 8, 0 .. 7), U("session_id", 32), U("byte_size", 64), U("compute_cost_units", 32),
      ReadIn("memory_location_hint", 16, 0 .. 6), ReadIn("ownership_hint", 16, 0 .. 6),
      U("lifetime_hint_ms", 32), U("metadata_bytes", 32), Zero(64)>>

RuntimeObjectReference ==
    Ids(<<"object_id", "operation_id", "object_version", "offset", "length">>) \o <<Flags(32, 3), U("metadata_bytes", 32)>>

ObjectRelease ==
    Ids(<<"object_id", "operation_id">>)
    \o <<ReadIn("release_reason", 16, 0 .. 7), ReadIn("source_role", 8, 0 .. 7), Flags(8, 2), U("diagnostic_bytes", 32),
         Zero(64)>>

ObjectDelta ==
    Ids(<<"object_id", "delta_sequence", "region_offset">>)
    \o <<U("region_bytes", 32), U("delta_bytes", 32), Flags(32, 3), U("metadata_bytes", 32)>>

CacheReference ==
    <<U("cache_namespace", 32), U("profile_id", 16), ReadIn("reuse_scope", 16, 0 .. 5)>>
    \o Ids(<<"cache_key_hi", "cache_key_lo", "lease_id", "producer_trace_id">>)
    \o <<U("expiration_hint_ms", 32), U("metadata_bytes", 32), Flags(32, 2), Zero(32)>>

CacheMiss ==
    <<U("cache_namespace", 32), U("profile_id", 16), ReadIn("miss_reason", 16, 0 .. 7)>>
    \o Ids(<<"cache_key_hi", "cache_key_lo">>) \o <<U("diagnostic_bytes", 32), Zero(32)>>

(* The prefix of a recovery ticket (client/native.py): magic, version and  *)
(* flags, then the token's length among the fields.                        *)
TicketMagic == 8

RecoveryTicket ==
    <<Const(32, TicketMagic), Const(16, 1), In("flags", 16, Bits(1)), U("session_id", 32),
      U("token_bytes", 32), U("resume_window_ms", 32), U("operation_id", 64)>>

(* An operation id is present, and then not 0, exactly when its flag is set. *)
RecoveryTicketRules(o) == o.session_id # 0 /\ o.token_bytes # 0 /\ ((o.flags = 1) <=> (o.operation_id # 0))

RuntimeLayout ==
    [SessionClose |-> SessionClose, ControlRequest |-> ControlRequest, Scheduling |-> Scheduling,
     Supersede |-> Supersede, Budget |-> Budget, Progress |-> Progress, PartialResult |-> PartialResult,
     Pressure |-> Pressure, Capability |-> Capability, RouteHint |-> RouteHint, TraceContext |-> TraceContext,
     ResultDropReason |-> ResultDropReason, RecoverableError |-> RecoverableError, RetryAfter |-> RetryAfter,
     ObjectDescriptor |-> ObjectDescriptor, RuntimeObjectReference |-> RuntimeObjectReference,
     ObjectRelease |-> ObjectRelease, ObjectDelta |-> ObjectDelta, CacheReference |-> CacheReference,
     CacheMiss |-> CacheMiss, RecoveryTicket |-> RecoveryTicket]
=============================================================================
