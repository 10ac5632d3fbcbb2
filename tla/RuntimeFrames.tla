--------------------------- MODULE RuntimeFrames ---------------------------
(***************************************************************************)
(* Runtime frames: metadata with a tail whose length the metadata declares *)
(* (runtime/__init__.py), how the native client and server encode what     *)
(* they send and decode the events they are handed (native.py), recovery   *)
(* tickets (client/native.py), and frames on a WebSocket, one by one and   *)
(* in batches.                                                             *)
(***************************************************************************)
EXTENDS PacketBuilders

(* The class whose metadata a message type carries. *)
RuntimeControlTypes ==
    [ControlRequest |-> {"CANCEL", "ABORT"}, Scheduling |-> {"PRIORITY_UPDATE", "DEADLINE", "EXPIRE_AT"},
     Supersede |-> {"SUPERSEDE"}, Budget |-> {"BUDGET_UPDATE"}, Progress |-> {"PROGRESS"},
     PartialResult |-> {"PARTIAL_RESULT"}, Pressure |-> {"BACKPRESSURE", "CREDIT_UPDATE"},
     Capability |-> {"CAPABILITY_NEGOTIATION", "DEGRADE_PROFILE"}, RouteHint |-> {"ROUTE_HINT", "EXECUTION_HINT"},
     TraceContext |-> {"TRACE_CONTEXT"}, ResultDropReason |-> {"RESULT_DROP_REASON"},
     RecoverableError |-> {"ERROR_RECOVERABLE"}, RetryAfter |-> {"RETRY_AFTER"}]

RuntimeObjectTypes ==
    [ObjectDescriptor |-> {"OBJECT_DECLARE"}, RuntimeObjectReference |-> {"OBJECT_REF"},
     ObjectRelease |-> {"OBJECT_RELEASE"}, ObjectDelta |-> {"OBJECT_PATCH", "OBJECT_DELTA"},
     CacheReference |-> {"CACHE_REFERENCE"}, CacheMiss |-> {"CACHE_MISS"}]

Carries(table, type) == {k \in DOMAIN table : type \in table[k]}

(* No class has two of the three fields. *)
DeclaredTail(k, o) ==
    LET named == {"diagnostic_bytes", "body_bytes", "metadata_bytes"} \cap Names(k)
    IN IF k = "ObjectDelta" THEN o.metadata_bytes + o.delta_bytes
       ELSE IF named = {} THEN 0 ELSE o[CHOOSE n \in named : TRUE]

Metadata(k, words) == Struct(MetaBytes(k), "runtime", words)

EncodeRuntime(table, type, k, o, tail) ==
    IF k \in Carries(table, type) /\ Pack(k, o) # Refused /\ DeclaredTail(k, o) = Len(tail)
    THEN Metadata(k, Pack(k, o)) \o tail ELSE Refused

(* The classes' own fixed part at the front, the rest is tail. *)
Prefixed(k, payload) == Holds(payload, 0, MetaBytes(k), "runtime") /\ Unpack(k, Read(payload, 0)) # Refused
Fixed(k, payload)    == Unpack(k, Read(payload, 0))
TailOf(k, payload)   == Slice(payload, MetaBytes(k), Len(payload) - MetaBytes(k))

RuntimeReads(k, payload) ==
    Prefixed(k, payload) /\ DeclaredTail(k, Fixed(k, payload)) = Len(TailOf(k, payload))

---------------------------------------------------------------------------
(* native.py *)

EncodeNativeRuntimeFrame(type, k, o, tail) ==
    CASE type = "CACHE_INVALIDATE" ->
            IF k = "CacheInvalidate" /\ tail = <<>> /\ Pack(k, o) # Refused THEN Metadata(k, Pack(k, o)) ELSE Refused
      [] Carries(RuntimeObjectTypes, type) # {} -> EncodeRuntime(RuntimeObjectTypes, type, k, o, tail)
      [] OTHER -> EncodeRuntime(RuntimeControlTypes, type, k, o, tail)

(* The kind of event a message type becomes. *)
MetadataKind ==
    ("CANCEL" :> "ControlRequest") @@ ("ABORT" :> "ControlRequest") @@ ("PRIORITY_UPDATE" :> "Scheduling")
    @@ ("DEADLINE" :> "Scheduling") @@ ("EXPIRE_AT" :> "Scheduling") @@ ("SUPERSEDE" :> "Supersede")
    @@ ("BUDGET_UPDATE" :> "Budget") @@ ("PROGRESS" :> "Progress") @@ ("PARTIAL_RESULT" :> "PartialResult")
    @@ ("BACKPRESSURE" :> "Pressure") @@ ("CREDIT_UPDATE" :> "Pressure") @@ ("CAPABILITY_NEGOTIATION" :> "Capability")
    @@ ("DEGRADE_PROFILE" :> "Capability") @@ ("ROUTE_HINT" :> "RouteHint") @@ ("EXECUTION_HINT" :> "RouteHint")
    @@ ("TRACE_CONTEXT" :> "TraceContext") @@ ("RESULT_DROP_REASON" :> "ResultDropReason")
    @@ ("ERROR_RECOVERABLE" :> "RecoverableError") @@ ("RETRY_AFTER" :> "RetryAfter")
    @@ ("OBJECT_DECLARE" :> "ObjectDescriptor") @@ ("OBJECT_REF" :> "RuntimeObjectReference")
    @@ ("OBJECT_RELEASE" :> "ObjectRelease") @@ ("OBJECT_PATCH" :> "ObjectDelta") @@ ("OBJECT_DELTA" :> "ObjectDelta")
    @@ ("CACHE_REFERENCE" :> "CacheReference") @@ ("CACHE_MISS" :> "CacheMiss")

BodyTypes ==
    {"PROGRESS", "PARTIAL_RESULT", "CAPABILITY_NEGOTIATION", "DEGRADE_PROFILE", "ROUTE_HINT", "EXECUTION_HINT",
     "TRACE_CONTEXT", "OBJECT_DECLARE", "OBJECT_REF", "CACHE_REFERENCE"}

DiagnosticTypes ==
    {"CANCEL", "ABORT", "SUPERSEDE", "RESULT_DROP_REASON", "ERROR_RECOVERABLE", "RETRY_AFTER", "OBJECT_RELEASE",
     "CACHE_MISS"}

(* RuntimeEventTail: at most the parts its kind has are filled. *)
NoTail               == [body |-> <<>>, diagnostic |-> <<>>, metadata_body |-> <<>>, delta |-> <<>>]
WithBody(b)          == [NoTail EXCEPT !.body = b]
WithDiagnostic(d)    == [NoTail EXCEPT !.diagnostic = d]
WithDelta(m, d)      == [NoTail EXCEPT !.metadata_body = m, !.delta = d]

Event(k, o, tail) == [kind |-> k, value |-> o, tail |-> tail]

\* Mutant of RuntimeTail: everything declared is a body.
RuntimeTail_Body(type, o, tail) == WithBody(tail)

RuntimeTail(type, o, tail) ==
    CASE type \in {"OBJECT_PATCH", "OBJECT_DELTA"} ->
            WithDelta(SubSeq(tail, 1, o.metadata_bytes), Slice(tail, o.metadata_bytes, Len(tail) - o.metadata_bytes))
      [] type \in BodyTypes -> WithBody(tail)
      [] type \in DiagnosticTypes \/ Carries(RuntimeObjectTypes, type) # {} -> WithDiagnostic(tail)
      [] OTHER -> NoTail

WholeTypes == [SESSION_CLOSE |-> "SessionClose", FLOW_UPDATE |-> "FlowUpdate", RESULT_HINT |-> "ResultHint",
               CACHE_INVALIDATE |-> "CacheInvalidate"]

PrefixTypes == [FRAME_SUBMIT |-> "FrameSubmit", RESULT_PUSH |-> "ResultPush"]

DecodeWireRuntimeEvent(type, payload) ==
    CASE type \in {"FRAME_CANCEL", "RESULT_DROP"} -> IF payload = <<>> THEN Event("None", <<>>, NoTail) ELSE Refused
      [] type \in DOMAIN WholeTypes ->
            LET k == WholeTypes[type]
            IN IF Len(payload) = MetaBytes(k) /\ Prefixed(k, payload) THEN Event(k, Fixed(k, payload), NoTail) ELSE Refused
      [] type \in DOMAIN PrefixTypes ->
            LET k == PrefixTypes[type]
            IN IF Prefixed(k, payload) THEN Event(k, Fixed(k, payload), WithBody(TailOf(k, payload))) ELSE Refused
      [] type \in DOMAIN MetadataKind ->
            LET table == IF Carries(RuntimeObjectTypes, type) # {} THEN RuntimeObjectTypes ELSE RuntimeControlTypes
                k == CHOOSE k \in Carries(table, type) : TRUE
            IN IF RuntimeReads(k, payload)
               THEN Event(MetadataKind[type], Fixed(k, payload), RuntimeTail(type, Fixed(k, payload), TailOf(k, payload)))
               ELSE Refused
      [] OTHER -> Refused

---------------------------------------------------------------------------
(* client/native.py: a ticket is made by the runtime, kept as bytes and    *)
(* read again.  An operation id of 0 stands for None.                      *)

TicketPrefix(t) ==
    [flags |-> IF t.operation # 0 THEN 1 ELSE 0, session_id |-> t.session, token_bytes |-> Len(t.token),
     resume_window_ms |-> t.window, operation_id |-> t.operation]

TicketToBytes(t) ==
    IF Pack("RecoveryTicket", TicketPrefix(t)) = Refused THEN Refused
    ELSE Metadata("RecoveryTicket", Pack("RecoveryTicket", TicketPrefix(t))) \o t.token

TicketFromBytes(bytes) ==
    LET k == "RecoveryTicket" IN
    IF Prefixed(k, bytes) /\ Len(TailOf(k, bytes)) = Fixed(k, bytes).token_bytes
    THEN [session |-> Fixed(k, bytes).session_id, operation |-> Fixed(k, bytes).operation_id,
          window |-> Fixed(k, bytes).resume_window_ms, token |-> TailOf(k, bytes)]
    ELSE Refused

---------------------------------------------------------------------------
(* WebSocket frames.  The header given is a RuntimeFrameHeader. *)

Framed(words, meta, body) == IF words = Refused THEN Refused ELSE Struct(40, "header", words) \o meta \o body

EncodeFrame(h, meta, body) ==
    Framed(Pack("Header", [h EXCEPT !["meta_len"] = Len(meta), !["body_len"] = Len(body)]), meta, body)

LengthIfWhole(h, n) == IF h # Refused /\ n >= PacketLength(h) THEN PacketLength(h) ELSE 0

(* The length of the frame at the front, 0 when it is not all there. *)
FrameLength(bytes) == IF Holds(bytes, 0, 40, "header") THEN LengthIfWhole(PacketHeader(bytes), Len(bytes)) ELSE 0

FrameParts(h, bytes) ==
    [header |-> [h EXCEPT !["meta_len"] = 0, !["body_len"] = 0], meta |-> Slice(bytes, 40, h.meta_len),
     body |-> BodyBehind(h, bytes)]

DecodeFrame(bytes) ==
    IF bytes = <<>> \/ FrameLength(bytes) # Len(bytes) THEN Refused ELSE FrameParts(PacketHeader(bytes), bytes)

Raises == [raises |-> TRUE]

(* n is the length of the first frame. *)
RECURSIVE BatchFrames(_, _, _, _)
BatchFrames(bytes, n, limit, read) ==
    CASE bytes = <<>> -> <<>>
      [] bytes # <<>> /\ ((limit # 0 /\ read >= limit) \/ n = 0) -> <<Raises>>
      [] OTHER -> LET rest == Slice(bytes, n, Len(bytes) - n)
                  IN <<DecodeFrame(SubSeq(bytes, 1, n))>> \o BatchFrames(rest, FrameLength(rest), limit, read + 1)

\* Mutant of DecodeBatch: what is not all there is left for the next message.
DecodeBatch_Lenient(bytes, limit) ==
    [frames |-> SelectSeq(BatchFrames(bytes, FrameLength(bytes), limit, 0), LAMBDA f : f # Raises)]

AllOrNothing(frames) == IF Raises \in Range(frames) THEN Refused ELSE [frames |-> frames]

DecodeBatch(bytes, limit) == AllOrNothing(BatchFrames(bytes, FrameLength(bytes), limit, 0))
=============================================================================
