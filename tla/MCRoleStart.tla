---------------------------- MODULE MCRoleStart ----------------------------
(* Applications and installations for TLC. *)
EXTENDS RoleStart

\* One transport as an application finds it: installed or not, and its route.
NoRoute == [endpoint |-> "absent", security |-> FALSE]
Found(installed, endpoint, security) ==
  [installed |-> installed, route |-> [endpoint |-> endpoint, security |-> security]]
Absent == [installed |-> "no", route |-> NoRoute]

Tcp == {Absent, [installed |-> "yes", route |-> NoRoute], Found("yes", "none", TRUE),
        Found("broken", "plain", FALSE)}
Quic == {Absent, [installed |-> "yes", route |-> NoRoute], Found("yes", "none", TRUE),
         Found("no", "plain", TRUE)}
Ipc == {Absent, Found("yes", "bad", FALSE), Found("yes", "plain", FALSE)}
WebSocket == {Absent, Found("yes", "secure", TRUE), Found("yes", "secure", FALSE), Found("yes", "plain", TRUE)}

Policies == {[mode |-> "auto", name |-> "none"], [mode |-> "prefer", name |-> "tcp"],
             [mode |-> "force", name |-> "quic"], [mode |-> "force", name |-> "websocket"]}

\* Official ranks; in the mixed installation tcp and ipc share a cost model.
OfficialRank == [ipc |-> 0, quic |-> 1, tcp |-> 2, websocket |-> 3]
Units == [ipc |-> 2, quic |-> 0, tcp |-> 1, websocket |-> 0]
Bind1(n, f, mixed) ==
  IF f.installed = "no" THEN <<>>
  ELSE <<[kind |-> n, id |-> TransportId[n], available |-> f.installed = "yes", rank |-> OfficialRank[n],
          model |-> IF mixed /\ n \in {"tcp", "ipc"} THEN 7 ELSE 0,
          units |-> IF mixed THEN Units[n] ELSE 0]>>

AskOf(role, secure, hook, policy, f, mixed) ==
  [role |-> role, secure |-> secure, hook |-> hook, policy |-> policy,
   routes |-> [n \in {n \in Transports : f[n].route # NoRoute} |-> f[n].route],
   bindings |-> Bind1("tcp", f["tcp"], mixed) \o Bind1("quic", f["quic"], mixed)
                \o Bind1("ipc", f["ipc"], mixed) \o Bind1("websocket", f["websocket"], mixed)]

Worlds == [tcp : Tcp, quic : Quic, ipc : Ipc, websocket : WebSocket]

\* Two bindings of one provider id.
Twice ==
  {[NoAsk EXCEPT !.role = role,
      !.bindings = <<[kind |-> "tcp", id |-> 1, available |-> TRUE, rank |-> 0, model |-> 0, units |-> 0],
                     [kind |-> "quic", id |-> 1, available |-> TRUE, rank |-> 0, model |-> 0, units |-> 0]>>] :
     role \in {"client", "server"}}

MCAsks ==
  Twice
  \cup {AskOf("client", secure, FALSE, policy, f, mixed) :
          secure \in BOOLEAN, policy \in Policies, f \in Worlds, mixed \in BOOLEAN}
  \cup {AskOf("server", secure, hook, policy, f, FALSE) :
          secure \in BOOLEAN, hook \in BOOLEAN, policy \in Policies, f \in Worlds}

MCMetrics == {[ok |-> TRUE, count |-> 3, rate |-> 5, rtt |-> 2],
              [ok |-> TRUE, count |-> 3, rate |-> 5, rtt |-> 1],
              [ok |-> TRUE, count |-> 2, rate |-> 9, rtt |-> 1]}
=============================================================================
