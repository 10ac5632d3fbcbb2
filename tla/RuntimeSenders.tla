--------------------------- MODULE RuntimeSenders ---------------------------
(***************************************************************************)
(* How an application sends a runtime message: through the helpers of a    *)
(* client connection, which make the metadata from their arguments         *)
(* (client/native.py), or through the methods of a client or server        *)
(* session (native.py), which choose the frame it is sent on.              *)
(*                                                                         *)
(* A session here is what a send reads and writes: whether it is open (and *)
(* the connection too, for a helper), the frames its active operations are *)
(* bound to (_operation_frames) and the next frame id                      *)
(* (_next_runtime_frame_id).  The arguments of a helper are a record of    *)
(* its parameters' names.                                                  *)
(***************************************************************************)
EXTENDS RuntimeFrames

Message(type, k, o, tail) == [type |-> type, class |-> k, obj |-> o, tail |-> tail]

SendControlRequest(type, a, diagnostic) ==
    Message(type, "ControlRequest",
            [operation_id |-> a.operation_id, control_sequence |-> a.control_sequence, reason_code |-> a.reason_code,
             source_role |-> a.source_role, flags |-> a.flags, diagnostic_bytes |-> Len(diagnostic)], diagnostic)

SendScheduling(type, a, deadline) ==
    Message(type, "Scheduling",
            [operation_id |-> a.operation_id, control_sequence |-> a.control_sequence,
             priority_class |-> a.priority_class, priority_delta |-> a.priority_delta, deadline_unix_ms |-> deadline,
             flags |-> a.flags], <<>>)

SendRouteControl(type, a, body) ==
    Message(type, "RouteHint",
            [operation_id |-> a.operation_id, route_id |-> a.route_id, executor_class |-> a.executor_class,
             affinity_class |-> a.affinity_class, deadline_unix_ms |-> a.deadline_unix_ms, body_bytes |-> Len(body),
             flags |-> a.flags], body)

SendCapabilityControl(type, a, body) ==
    Message(type, "Capability",
            [profile_id |-> a.profile_id, capability_count |-> a.capability_count, cost_model_id |-> a.cost_model_id,
             preference_rank |-> a.preference_rank, limit_bytes |-> a.limit_bytes, limit_units |-> a.limit_units,
             body_bytes |-> Len(body), flags |-> a.flags], body)

CancelRuntimeOperation(a, tail) == SendControlRequest("CANCEL", a, tail)
AbortRuntimeOperation(a, tail)  == SendControlRequest("ABORT", a, tail)
UpdateRuntimePriority(a)        == SendScheduling("PRIORITY_UPDATE", a, 0)
UpdateRuntimeDeadline(a)        == SendScheduling("DEADLINE", a, a.deadline_unix_ms)
ExpireRuntimeOperationAt(a)     == SendScheduling("EXPIRE_AT", a, a.expire_at_unix_ms)

SupersedeRuntimeOperation(a, tail) ==
    Message("SUPERSEDE", "Supersede",
            [old_operation_id |-> a.old_operation_id, new_operation_id |-> a.new_operation_id,
             control_sequence |-> a.control_sequence, drop_reason_code |-> a.drop_reason_code, flags |-> a.flags,
             diagnostic_bytes |-> Len(tail)], tail)

UpdateRuntimeBudget(a) ==
    Message("BUDGET_UPDATE", "Budget",
            [operation_id |-> a.operation_id, compute_budget_units |-> a.compute_budget_units,
             memory_budget_bytes |-> a.memory_budget_bytes, bandwidth_budget_bytes |-> a.bandwidth_budget_bytes,
             token_budget |-> a.token_budget, flags |-> a.flags], <<>>)

SendRuntimeRouteHint(a, tail)         == SendRouteControl("ROUTE_HINT", a, tail)
SendRuntimeExecutionHint(a, tail)     == SendRouteControl("EXECUTION_HINT", a, tail)
NegotiateRuntimeCapabilities(a, tail) == SendCapabilityControl("CAPABILITY_NEGOTIATION", a, tail)
DegradeRuntimeProfile(a, tail)        == SendCapabilityControl("DEGRADE_PROFILE", a, tail)

---------------------------------------------------------------------------
(* The methods of the sessions, with the message type each one sends. *)

ObjectSends ==
    [declare_object |-> "OBJECT_DECLARE", reference_object |-> "OBJECT_REF", release_object |-> "OBJECT_RELEASE",
     patch_object |-> "OBJECT_PATCH", send_object_delta |-> "OBJECT_DELTA", reference_cache |-> "CACHE_REFERENCE",
     report_cache_miss |-> "CACHE_MISS", invalidate_cache |-> "CACHE_INVALIDATE"]

ClientSends ==
    ObjectSends @@
    [cancel_operation |-> "CANCEL", abort_operation |-> "ABORT", update_priority |-> "PRIORITY_UPDATE",
     update_deadline |-> "DEADLINE", expire_at |-> "EXPIRE_AT", supersede |-> "SUPERSEDE",
     update_budget |-> "BUDGET_UPDATE", negotiate_capabilities |-> "CAPABILITY_NEGOTIATION",
     degrade_profile |-> "DEGRADE_PROFILE", send_route_hint |-> "ROUTE_HINT", send_execution_hint |-> "EXECUTION_HINT",
     send_trace_context |-> "TRACE_CONTEXT"]

ServerSends ==
    ObjectSends @@
    [send_backpressure |-> "BACKPRESSURE", send_credit_update |-> "CREDIT_UPDATE",
     negotiate_capabilities |-> "CAPABILITY_NEGOTIATION", degrade_profile |-> "DEGRADE_PROFILE",
     send_trace_context |-> "TRACE_CONTEXT", send_recoverable_error |-> "ERROR_RECOVERABLE",
     send_retry_after |-> "RETRY_AFTER"]

JoinRuntimeObjectTail(metadata_body, delta) == metadata_body \o delta

None == -1

\* Mutant of RuntimeOperationId: the operation that takes over is the one that is meant.
RuntimeOperationId_New(type, o) ==
    CASE type = "SUPERSEDE" -> o.new_operation_id
      [] type \in {"CANCEL", "ABORT", "PRIORITY_UPDATE", "DEADLINE", "EXPIRE_AT", "BUDGET_UPDATE", "ROUTE_HINT",
                   "EXECUTION_HINT", "OBJECT_REF", "OBJECT_RELEASE"} -> o.operation_id
      [] OTHER -> None

RuntimeOperationId(type, o) ==
    CASE type = "SUPERSEDE" -> o.old_operation_id
      [] type \in {"CANCEL", "ABORT", "PRIORITY_UPDATE", "DEADLINE", "EXPIRE_AT", "BUDGET_UPDATE", "ROUTE_HINT",
                   "EXECUTION_HINT", "OBJECT_REF", "OBJECT_RELEASE"} -> o.operation_id
      [] OTHER -> None

(* Messages that may name no operation. *)
SessionWide ==
    [client |-> {"CANCEL", "ABORT", "BUDGET_UPDATE", "OBJECT_REF", "OBJECT_RELEASE"},
     server |-> {"OBJECT_REF", "OBJECT_RELEASE"}]

NoFrame == -2

OperationFrameId(s, op) == IF op \in DOMAIN s.frames THEN s.frames[op] ELSE NoFrame

RuntimeFrameId(side, s, type, o) ==
    LET op == RuntimeOperationId(type, o)
    IN CASE op = None -> s.next
         [] op = 0 -> IF type \in SessionWide[side] THEN 0 ELSE NoFrame
         [] OTHER -> OperationFrameId(s, op)

(* After a send: the client forgets an operation it gave up, and a frame   *)
(* id that was counted is used.                                            *)
NextRuntimeFrameId(frame) == IF frame = Top(32) THEN 1 ELSE frame + 1

ClientForgets(type, op) == IF type \in {"CANCEL", "ABORT", "SUPERSEDE"} /\ op # 0 THEN {op} ELSE {}

AfterSend(side, s, type, o, given, frame) ==
    LET op == RuntimeOperationId(type, o)
        forgotten == IF side = "client" THEN ClientForgets(type, op) ELSE {}
    IN [s EXCEPT !.next = IF given = None /\ op = None THEN NextRuntimeFrameId(frame) ELSE @,
                 !.frames = [p \in DOMAIN @ \ forgotten |-> @[p]]]

Unsent(s) == [payload |-> Refused, frame |-> NoFrame, session |-> s]

(* given is the frame id the caller chose, or None; NoFrame when the       *)
(* operation it is looked up for is not active.                            *)
SendRuntimeFrame(side, s, x, given) ==
    LET payload == EncodeNativeRuntimeFrame(x.type, x.class, x.obj, x.tail)
        frame   == IF given = None THEN RuntimeFrameId(side, s, x.type, x.obj) ELSE given
    IN IF ~s.open \/ payload = Refused \/ frame = NoFrame THEN Unsent(s)
       ELSE [payload |-> payload, frame |-> frame, session |-> AfterSend(side, s, x.type, x.obj, given, frame)]

(* A trace context says nothing of an operation: the caller may name one,  *)
(* and its frame is then the one that is given.                            *)
TraceFrame(s, op) == IF op = None THEN 0 ELSE OperationFrameId(s, op)

(* The operation a received message is attributed to when the runtime's    *)
(* diagnostic names none.                                                  *)
EventOperationId(type, o) ==
    CASE type = "SUPERSEDE" -> o.old_operation_id
      [] OTHER -> IF "operation_id" \in DOMAIN o THEN o.operation_id ELSE 0
=============================================================================
