--------------------------- MODULE MCPacketCodec ---------------------------
(* Inputs for the codecs: objects at the boundaries of their fields, one   *)
(* field away from a base object (two where a class relates its fields),   *)
(* and packets from small sets of tiles, sections, frames and references.  *)
EXTENDS PacketCodec

Classes == DOMAIN Layout

(* Values around the ends of a field; the last is not one of its values. *)
Edges(f) ==
    CASE f.kind = "any" -> {0, 1, Top(f.width), Top(f.width) + 1}
      [] f.name = "percent_x100" -> {0, 10000, 10001, 65535, 65536}
      [] f.kind = "signed" -> {-(2^15) - 1, -(2^15), -1, 0, 2^15 - 1, 2^15}
      [] f.kind = "read" -> {0, Max(f.in), Max(f.in) + 1, Top(f.width) + 1}
      [] f.kind = "written" -> {0, Max(f.out), Max(f.out) + 1, Top(f.width) + 1}
      [] f.kind = "in" /\ Cardinality(f.in) <= 5 -> f.in \cup {Max(f.in) + 1}
      [] OTHER -> {Min(f.in), Min(f.in) + 1, Max(f.in), Max(f.in) + 1}

Related == {"FlowUpdate", "CacheInvalidate", "BodyPrelude", "FrameSubmit", "ResultPush", "RecoveryTicket"}

Bases(k) ==
    LET b == Blank(k)
    IN CASE k = "FlowUpdate" -> {b, [b EXCEPT !["scope_kind"] = 2, !["operation_id"] = 1, !["flags"] = 2]}
         [] k = "CacheInvalidate" -> {b, [b EXCEPT !["invalidate_scope"] = 3]}
         [] k = "FrameSubmit" -> {[b EXCEPT !["operation_id"] = 1, !["payload_kind_bitmap"] = p] : p \in {1, 2}}
         [] k = "ResultPush" -> {[b EXCEPT !["payload_kind_bitmap"] = 2],
                                 [b EXCEPT !["payload_kind_bitmap"] = 1, !["tile_count"] = 2, !["dropped_tile_count"] = 1,
                                           !["covered_tile_count"] = 1, !["result_class"] = 1]}
         [] k = "RecoveryTicket" -> {[b EXCEPT !["session_id"] = 1, !["token_bytes"] = 1, !["flags"] = i, !["operation_id"] = i] : i \in 0 .. 1}
         [] OTHER -> {b}

Changed(k, o) == UNION {{[o EXCEPT ![Layout[k][i].name] = v] : v \in Edges(Layout[k][i])} : i \in Fields(k)}

Near(k) ==
    LET one == UNION {Changed(k, b) : b \in Bases(k)}
    IN IF k \in Related \ {"FrameSubmit", "ResultPush"} THEN UNION {Changed(k, o) : o \in one}
       ELSE IF k \in Related
       THEN one \cup UNION {Changed(k, [b EXCEPT !["payload_kind_bitmap"] = 3 - @]) : b \in Bases(k)}
       ELSE one

MCObjects == UNION {{<<k, o>> : o \in Near(k)} : k \in Classes}

Fits(k, w) == \A i \in DOMAIN w : w[i] <= Top(Layout[k][i].width)

MCPeerWords ==
    UNION {{<<k, w>> : w \in {w \in {Words(k, o) : o \in Near(k)} : Fits(k, w)}} : k \in Classes}
    \cup UNION {{<<k, [Words(k, b) EXCEPT ![i] = 1]>> : i \in DOMAIN Layout[k], b \in Bases(k)} : k \in Classes}
    \cup {<<k, Tail(Words(k, CHOOSE b \in Bases(k) : TRUE))>> : k \in Classes}

---------------------------------------------------------------------------
Payloads == <<<<B(1)>>, <<B(0), B(2), B(3)>>, <<>>>>

TilePayloads(n) == [i \in 1 .. n |-> Payloads[(i % 3) + 1]]

Section(role, codecs, n, stride) ==
    [role |-> role, codec |-> 1, codecs |-> codecs, tiles |-> TilePayloads(n), stride |-> stride]

SectionLists(n) ==
    {<<>>, <<Section(1, <<>>, n, 0)>>, <<Section(1, [i \in 1 .. n |-> 1], n, 0), Section(2, <<>>, n, 3)>>,
     <<Section(1, [i \in 1 .. n |-> i], n, 0), Section(2, [i \in 1 .. n |-> 3 - i], n, 4)>>}

WrongSections(n) ==
    {<<Section(2, <<>>, n, 0), Section(1, <<>>, n, 0)>>, <<Section(1, <<>>, n, 2)>>, <<Section(1, <<>>, n + 1, 0)>>,
     <<Section(1, <<1, 2, 3>>, n, 0)>>}

Frame(kind, profile, payload) == [kind |-> kind, profile |-> profile, critical |-> FALSE, payload |-> payload]

FrameLists ==
    {<<>>, <<Frame(2, 2, <<B(5)>>)>>, <<Frame(4, 0, <<>>), Frame(2, 3, <<B(6), B(7)>>)>>, <<Frame(2, 1, <<B(5)>>)>>,
     <<Frame(128, 2, <<B(5)>>)>>, <<Frame(1, 2, <<B(5)>>)>>, <<Frame(2, 2, <<B(1)>>), Frame(2, 2, <<B(2), B(3)>>)>>}

Cameras == {<<>>, <<B(4)>>, [i \in 1 .. 8 |-> B(i)]}

Args == [tiles |-> <<>>, mode |-> 1, base |-> 0, camera |-> <<>>, sections |-> <<>>, frames |-> <<>>, kinds |-> 1,
         given |-> {}, mask |-> 0, submit_mode |-> 0, class |-> 0, flags |-> 0, covered |-> EveryTile, dropped |-> 0,
         reused |-> 0]

(* Tile ids with an index mode and a base. *)
Tilings ==
    {<<t, mode, 0>> : t \in {<<>>, <<0, 1>>, <<2, 1>>, <<5>>, <<7, 8, 17>>}, mode \in 0 .. 3}
    \cup {<<<<3, 300>>, 1, 0>>, <<<<3, 300>>, 2, 0>>, <<<<4, 5, 6>>, 0, 4>>, <<<<65536>>, 1, 0>>, <<<<7, 7>>, 2, 0>>}

Tiled == {[Args EXCEPT !.tiles = t[1], !.mode = t[2], !.base = t[3]] : t \in Tilings}
Short == {[Args EXCEPT !.tiles = t[1], !.mode = t[2], !.base = t[3]] :
             t \in {<<<<0, 1>>, 1, 0>>, <<<<4, 5, 6>>, 0, 4>>, <<<<3, 300>>, 2, 0>>, <<<<>>, 1, 0>>}}

WithSections(A) == UNION {{[a EXCEPT !.sections = s] : s \in SectionLists(Len(a.tiles))} : a \in A}

SubmitArgs ==
    {[a EXCEPT !.camera = c] : a \in WithSections(Tiled), c \in Cameras}
    \cup UNION {{[a EXCEPT !.sections = s] : s \in WrongSections(Len(a.tiles))} : a \in Short}
    \cup {[Args EXCEPT !.kinds = k] : k \in {0, 2, 3, 127}}
    \cup {[a EXCEPT !.camera = c, !.given = g, !.submit_mode = m, !.mask = SumSet({2^(i - 1) : i \in g})] :
             a \in WithSections(Short), c \in Cameras, g \in SUBSET (1 .. 3), m \in 0 .. 2}
    \cup {[a EXCEPT !.given = g, !.submit_mode = m, !.mask = k] :
             a \in Short, g \in {{}, {2}, {2, 3}}, m \in 0 .. 2, k \in {0, 2, 8, 15}}

Results ==
    {[a EXCEPT !.class = c, !.flags = f, !.reused = r, !.dropped = d, !.covered = v] :
        a \in WithSections(Short), c \in 0 .. 3, f \in {0, 1, 4}, r \in {0, 1}, d \in {0, 1}, v \in {EveryTile, 1}}

ResultArgs == WithSections(Tiled) \cup Results \cup {[Args EXCEPT !.kinds = k] : k \in {0, 2, 3}}

MixedArgs == {[a EXCEPT !.frames = f, !.camera = c] : a \in WithSections(Short), f \in FrameLists, c \in Cameras}
TypedArgs == {[Args EXCEPT !.frames = f, !.class = c] : f \in FrameLists, c \in {0, 1, 2}}
MixedResults == {[a EXCEPT !.frames = f, !.class = c] : a \in WithSections(Short), f \in FrameLists, c \in {0, 1}}

MCDataPackets ==
    ({"submit"} \X SubmitArgs) \cup ({"submitTyped"} \X TypedArgs) \cup ({"submitMixed"} \X MixedArgs)
    \cup ({"result"} \X ResultArgs) \cup ({"partial", "stale", "degraded"} \X {a \in Results : a.class = 0 /\ a.flags = 0})
    \cup ({"resultTyped"} \X TypedArgs) \cup ({"resultMixed"} \X MixedResults)

Sample ==
    ({"submit"} \X {[a EXCEPT !.camera = c] : a \in WithSections(Short), c \in {<<>>, <<B(4)>>}})
    \cup ({"submit"} \X {[a EXCEPT !.given = {2}, !.submit_mode = 2, !.mask = 2] : a \in WithSections(Short)})
    \cup ({"submitMixed", "resultMixed"} \X {[a EXCEPT !.frames = f] : a \in Short, f \in FrameLists})
    \cup ({"result"} \X WithSections(Short)) \cup ({"submitTyped", "resultTyped"} \X {[Args EXCEPT !.frames = f] : f \in FrameLists})

Built == {r \in {[builder |-> x[1], args |-> x[2], bytes |-> BuildData(x[1], x[2])] : x \in Sample} : r.bytes # Refused}

MCCrossed == {x \in Built \X Built : DataMessage(x[1].builder) = DataMessage(x[2].builder)}

---------------------------------------------------------------------------
ControlObjects(k) == {Blank(k)} \cup Changed(k, Blank(k))

MCControl ==
    UNION {{[class |-> k, session |-> s, obj |-> o, body |-> b] :
               s \in {0, 1}, o \in ControlObjects(k),
               b \in IF k \in {"TransportProbe", "SessionMigrate", "SessionMigrateAck"} THEN {<<>>, <<B(1)>>} ELSE {<<>>}} :
           k \in {"FlowUpdate", "TransportProbe", "ResultHint", "TransportProbeAck", "SessionMigrate", "SessionMigrateAck"}}
    \cup {[class |-> k, session |-> s, obj |-> <<>>, body |-> <<>>] : s \in {0, 1}, k \in {"FrameCancel", "Ping", "Pong", "ResultDrop"}}

Entry(type, critical, n) == [type |-> type, critical |-> critical, payload |-> [i \in 1 .. n |-> B(i)]]

Entries == {Entry(t, c, n) : t \in {1, 2}, c \in BOOLEAN, n \in {0, 3, 8}}

MCBlocks == {[entries |-> es, known |-> known] :
                es \in {<<e>> : e \in Entries} \cup {<<e, f>> : e \in Entries, f \in Entries}, known \in {{}, {1}, {1, 2}}}

ExtFrame(kind, critical, n) == [kind |-> kind, profile |-> 0, critical |-> critical, payload |-> [i \in 1 .. n |-> B(i)]]

ExtFrames == {ExtFrame(k, c, n) : k \in {1, 2}, c \in BOOLEAN, n \in {0, 3}}

MCExtensions == {[frames |-> fs, known |-> known] :
                    fs \in {<<f>> : f \in ExtFrames} \cup {<<f, g>> : f \in ExtFrames, g \in ExtFrames}, known \in {{}, {1}, {1, 2}}}

MCHello == UNION {{[class |-> k, obj |-> o, as |-> j] : o \in ControlObjects(k), j \in DOMAIN HelloType} : k \in DOMAIN HelloType}

MCPatches == {[class |-> k, block |-> b, announced |-> n] :
                 k \in {"TensorProfilePatch", "TensorProfilePatchAck"}, n \in {0, 8, 16, 32},
                 b \in {<<>>} \cup {<<[Blank("TensorProfilePatch") EXCEPT !["max_width"] = w]>> : w \in {0, 1}}}

---------------------------------------------------------------------------
TailField(k) == {"diagnostic_bytes", "body_bytes", "metadata_bytes"} \cap Names(k)

Tails == {<<>>, <<B(1)>>, <<B(2), B(3)>>}

(* Every runtime class with a declared length of 0 to 2, or of no tail. *)
Declaring(k) ==
    LET objs == {Blank(k)} \cup {o \in Changed(k, Blank(k)) : k \in {"ObjectDescriptor", "ControlRequest", "Progress"}}
    IN UNION {{[o EXCEPT ![f] = n] : f \in TailField(k), n \in 0 .. 2} : o \in objs} \cup {Blank(k)}

RuntimeTypes == [k \in DOMAIN RuntimeControlTypes \cup DOMAIN RuntimeObjectTypes |->
                    IF k \in DOMAIN RuntimeControlTypes THEN RuntimeControlTypes[k] ELSE RuntimeObjectTypes[k]]

MCRuntime ==
    UNION {{[type |-> t, class |-> k, obj |-> o, tail |-> tail] : t \in RuntimeTypes[k], o \in Declaring(k), tail \in Tails} :
           k \in DOMAIN RuntimeTypes}
    \cup {[type |-> t, class |-> "ObjectDelta", obj |-> [Blank("ObjectDelta") EXCEPT !["metadata_bytes"] = m, !["delta_bytes"] = d],
           tail |-> tail] : t \in {"OBJECT_PATCH", "OBJECT_DELTA"}, m \in 0 .. 2, d \in 0 .. 2, tail \in Tails}
    \cup {[type |-> "PROGRESS", class |-> "PartialResult", obj |-> Blank("PartialResult"), tail |-> <<>>]}
    \cup {[type |-> "CACHE_INVALIDATE", class |-> "CacheInvalidate", obj |-> o, tail |-> tail] :
              o \in Near("CacheInvalidate"), tail \in {<<>>, <<B(1)>>}}
    \cup UNION {{[type |-> t, class |-> WholeTypes[t], obj |-> o, tail |-> <<>>] : o \in ControlObjects(WholeTypes[t])} :
                t \in DOMAIN WholeTypes \ {"CACHE_INVALIDATE"}}
    \cup UNION {{[type |-> t, class |-> PrefixTypes[t], obj |-> o, tail |-> tail] : o \in Bases(PrefixTypes[t]), tail \in Tails} :
                t \in DOMAIN PrefixTypes}
    \cup {[type |-> t, class |-> "None", obj |-> <<>>, tail |-> <<>>] : t \in {"FRAME_CANCEL", "RESULT_DROP"}}

(* An object of a class with a value of its own in every field that takes  *)
(* one, and the names in ops as its operations.                            *)
Numbered(k) ==
    [name \in Names(k) |->
        LET i == CHOOSE i \in Fields(k) : Layout[k][i].name = name
        IN IF Layout[k][i].kind \in {"any", "signed"} THEN 20 + i ELSE Max(Layout[k][i].in \cap 0 .. 3)]

OperationFields(k) == {"operation_id", "old_operation_id", "new_operation_id"} \cap Names(k)

Naming(k) ==
    {[n \in Names(k) |-> IF n \in OperationFields(k) THEN ops[n] ELSE Numbered(k)[n]] : ops \in [OperationFields(k) -> 0 .. 2]}

Session(open, frames, next) == [open |-> open, frames |-> frames, next |-> next]

Sessions ==
    {Session(TRUE, <<>>, 7), Session(TRUE, 1 :> 5, 7), Session(TRUE, (1 :> 5) @@ (2 :> 6), Top(32)), Session(FALSE, 1 :> 5, 7)}

SentTails == {<<>>, <<B(2), B(3)>>}

HelperClass ==
    [cancel |-> "ControlRequest", abort |-> "ControlRequest", priority |-> "Scheduling", deadline |-> "Scheduling",
     expire |-> "Scheduling", supersede |-> "Supersede", budget |-> "Budget", route |-> "RouteHint",
     execution |-> "RouteHint", negotiate |-> "Capability", degrade |-> "Capability"]

(* The parameters of a helper: the fields but the lengths, with the        *)
(* deadline under the name it has there.                                   *)
HelperArgs(helper) ==
    LET k == HelperClass[helper]
        names == (Names(k) \ {"diagnostic_bytes", "body_bytes"}) \ (IF helper \in {"priority", "expire"} THEN {"deadline_unix_ms"} ELSE {})
    IN {[n \in names \cup (IF helper = "expire" THEN {"expire_at_unix_ms"} ELSE {}) |->
            IF n = "expire_at_unix_ms" THEN o["deadline_unix_ms"] ELSE o[n]] : o \in Naming(k)}

HelperSends ==
    UNION {{[side |-> "helper", name |-> h, class |-> HelperClass[h], args |-> a, body |-> t, metadata_body |-> <<>>,
             operation |-> None, session |-> s] :
               a \in HelperArgs(h), s \in Sessions,
               t \in IF HelperClass[h] \in {"Scheduling", "Budget"} THEN {<<>>} ELSE SentTails} :
           h \in DOMAIN HelperClass}

SentClass(type) == IF type = "CACHE_INVALIDATE" THEN "CacheInvalidate" ELSE MetadataKind[type]

(* A method is given metadata that declares its bytes, or one byte more. *)
Declares(k, o, mb, b) ==
    {[n \in Names(k) |-> IF n \in TailField(k) THEN (IF k = "ObjectDelta" THEN Len(mb) ELSE Len(b)) + more
                         ELSE IF k = "ObjectDelta" /\ n = "delta_bytes" THEN Len(b) ELSE o[n]] : more \in 0 .. 1}

MethodObjects(k) == IF k = "CacheInvalidate" THEN {Blank(k)} ELSE Naming(k)

MethodSends(side) ==
    UNION {UNION {
        {[side |-> side, name |-> m, class |-> SentClass(Methods(side)[m]), args |-> a, body |-> b, metadata_body |-> mb,
          operation |-> op, session |-> s] :
            a \in UNION {Declares(SentClass(Methods(side)[m]), o, mb, b) : o \in MethodObjects(SentClass(Methods(side)[m]))},
            s \in Sessions, op \in IF m = "send_trace_context" THEN {None, 1, 2} ELSE {None}} :
        mb \in IF m \in {"patch_object", "send_object_delta"} THEN SentTails ELSE {<<>>},
        b \in IF TailField(SentClass(Methods(side)[m])) = {} THEN {<<>>} ELSE SentTails} :
        m \in DOMAIN Methods(side)}

MCSends == HelperSends \cup MethodSends("client") \cup MethodSends("server")

MCTickets ==
    {[ticket |-> [session |-> s, operation |-> op, window |-> w, token |-> tok], keep |-> n, behind |-> z] :
        s \in {0, 1}, op \in {0, 1, Top(64)}, w \in {0, Top(32)}, tok \in Tails, n \in {0, 27, 28, 29, 30}, z \in {<<>>}}
    \cup {[ticket |-> [session |-> 1, operation |-> op, window |-> 0, token |-> tok], keep |-> 30, behind |-> <<B(9)>>] :
        op \in {0, 1}, tok \in Tails}

MCFrame(type, meta, body) == [header |-> [Blank("Header") EXCEPT !["msg_type"] = type, !["frame_id"] = type], meta |-> meta, body |-> body]

MCFrames == {MCFrame(t, meta, body) : t \in {16, 60}, meta \in {<<>>, <<B(1)>>}, body \in {<<>>, <<B(2), B(3)>>}}

MCBatches == {[frames |-> fs, keep |-> n, limit |-> l] :
                 fs \in {<<>>} \cup {<<f>> : f \in MCFrames} \cup {<<f, g>> : f \in MCFrames, g \in MCFrames},
                 n \in {0, 39, 40, 43, 80, 86}, l \in 0 .. 2}

---------------------------------------------------------------------------
QuicPacket(how, type, frame, body) ==
    [how |-> how, packet |-> [header |-> [Blank("Header") EXCEPT !["msg_type"] = type, !["frame_id"] = frame],
                              meta |-> <<>>, body |-> body]]

Pong(n)      == QuicPacket("control", 33, n, <<>>)
Submit(n)    == QuicPacket("submit", 16, n, <<B(n)>>)
Push(n)      == QuicPacket("result", 18, n, <<B(n)>>)
Drop(n)      == QuicPacket("result", 19, n, <<>>)
NotResult(n) == QuicPacket("result", 33, n, <<>>)

(* A server that heard from the client, or sends first, and a client. *)
QuicSenders ==
    {[sender |-> QuicSender(c, 1, 3), receiver |-> r] : c \in {0, NoStream}, r \in {0, NoStream}}

QuicRun(from, sends, cut) == [sender |-> from.sender, receiver |-> from.receiver, sends |-> sends, cut |-> cut]

MCQuic ==
    {QuicRun(from, sends, <<>>) : from \in QuicSenders, sends \in {<<Pong(1), Push(2), Pong(3)>>, <<NotResult(1), Pong(2)>>}}
    \cup {QuicRun([sender |-> QuicSender(NoStream, 0, 2), receiver |-> NoStream], <<Pong(1), Submit(2), Submit(3)>>, <<>>)}
    \cup {QuicRun([sender |-> QuicSender(0, 1, 3), receiver |-> 0], sends, cut) :
             sends \in {<<Push(2), Drop(1)>>, <<Drop(1), Push(1)>>}, cut \in {<<>>, 3 :> 39, 7 :> 40}}
=============================================================================
