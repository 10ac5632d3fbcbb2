------------------------ MODULE TransportSelection -------------------------
(***************************************************************************)
(* How a native client chooses the one carrier it connects over, and a     *)
(* native server the carriers it listens on: the routes and the policy of  *)
(* the application (src/nnrp/_native_routes.py, client/native.py and       *)
(* server/native.py), then the evaluation, the probe evidence and the      *)
(* ordering of the candidates (src/nnrp/native.py).                        *)
(*                                                                         *)
(* What an application asks for is a record: secure (nnrps or nnrp), the   *)
(* policy, the routes it configured by transport, and the bindings that    *)
(* are installed.  An endpoint is abstracted to what the code looks at:    *)
(* not given, unusable for the transport, plain or secure.                 *)
(***************************************************************************)
EXTENDS Integers, Sequences, FiniteSets

Transports == {"tcp", "quic", "ipc", "websocket"}
TransportId == [quic |-> 1, tcp |-> 2, ipc |-> 3, websocket |-> 4]

\* TransportPolicy: AUTO, PREFER_<name> or FORCE_<name>.
TransportPolicy ==
  {[mode |-> "auto", name |-> "none"]} \cup [mode : {"prefer", "force"}, name : Transports]

Route   == [endpoint : {"none", "bad", "plain", "secure"}, security : BOOLEAN]
Binding == [kind : Transports, id : Nat, available : BOOLEAN, rank : Nat, model : Nat, units : Nat]

FirstIndex(I) == CHOOSE i \in I : \A j \in I : i <= j

ForcedTransport(policy) == IF policy.mode = "force" THEN {policy.name} ELSE {}
PolicyAllows(policy, n) == policy.mode = "force" => policy.name = n
IsPreferred(policy, n)  == policy.mode = "prefer" /\ policy.name = n

-----------------------------------------------------------------------------
(* The bindings and the routes. *)

\* The bindings must not repeat a transport or a provider id.
HasDuplicates(bindings) ==
  \E i, j \in DOMAIN bindings :
    i < j /\ (bindings[i].kind = bindings[j].kind \/ bindings[i].id = bindings[j].id)

Installed(ask)    == {ask.bindings[i].kind : i \in DOMAIN ask.bindings}
BindingOf(ask, n) == ask.bindings[CHOOSE i \in DOMAIN ask.bindings : ask.bindings[i].kind = n]
Available(ask, n) == n \in Installed(ask) /\ BindingOf(ask, n).available

RouteOf(ask, n) ==
  IF n \in DOMAIN ask.routes THEN ask.routes[n] ELSE [endpoint |-> "none", security |-> FALSE]

\* resolve_native_transport_endpoint: the carrier endpoint of a transport.
ResolveEndpoint(ask, n) ==
  LET given == RouteOf(ask, n).endpoint
  IN IF given = "bad" \/ (given = "none" /\ n \in {"ipc", "websocket"}) THEN "unresolved"
     ELSE IF given # "none" THEN given
     ELSE IF n = "quic" /\ ask.secure THEN "secure" ELSE "plain"

\* Mutant of SecuritySatisfied: a plain WebSocket carries a secure application.
SecuritySatisfied_AnySocket(ask, n) ==
  LET security == RouteOf(ask, n).security
  IN /\ n = "quic" => security
     /\ ask.secure => n \in {"tcp", "quic", "websocket"} /\ security

\* _client_route_security_satisfied and its server twin.
SecuritySatisfied(ask, n) ==
  LET security == RouteOf(ask, n).security
      socketIsSecure == n = "websocket" /\ ResolveEndpoint(ask, n) = "secure"
  IN /\ n = "quic" \/ socketIsSecure => security
     /\ ask.secure => security /\ (n \in {"tcp", "quic"} \/ socketIsSecure)

-----------------------------------------------------------------------------
(* Why a candidate is rejected.  The order is the precedence of the checks. *)

Precedence == <<"policy_disallowed", "local_unavailable", "peer_unsupported",
                "route_unresolved", "security_unsatisfied">>

Fails(ask, n, peer) ==
  [policy_disallowed    |-> ~PolicyAllows(ask.policy, n),
   local_unavailable    |-> ~Available(ask, n),
   peer_unsupported     |-> n \notin peer,
   route_unresolved     |-> ResolveEndpoint(ask, n) = "unresolved",
   security_unsatisfied |-> ~SecuritySatisfied(ask, n)]

\* The reason of the first check that fails.  The client requests no frame size,
\* so the limit check between peer and route always passes.
Rejection(ask, n, peer) ==
  LET fails  == Fails(ask, n, peer)
      failed == {i \in DOMAIN Precedence : fails[Precedence[i]]}
  IN IF failed = {} THEN "none" ELSE Precedence[FirstIndex(failed)]

-----------------------------------------------------------------------------
(* The client: one carrier, chosen by probing when several are eligible.    *)

ClientNames(ask) ==
  Installed(ask) \cup DOMAIN ask.routes \cup {"tcp", "quic"} \cup ForcedTransport(ask.policy)
PeerSupported(ask) == {"tcp", "quic"} \cup DOMAIN ask.routes

\* Mutant of ProbedNames: a transport without a route of its own is not probed.
ProbedNames_Routed(ask) ==
  {n \in Installed(ask) \cap DOMAIN ask.routes :
     Rejection(ask, n, PeerSupported(ask)) = "none"}

\* eligible_provider_names, the client's own account of who can be selected;
\* nobody is probed when it names one transport at most.
ProbedNames(ask) ==
  LET eligible == {n \in Installed(ask) :
                     /\ Available(ask, n)
                     /\ PolicyAllows(ask.policy, n)
                     /\ n \in PeerSupported(ask)
                     /\ ResolveEndpoint(ask, n) # "unresolved"
                     /\ SecuritySatisfied(ask, n)}
  IN IF Cardinality(eligible) <= 1 THEN {} ELSE eligible

\* _evaluate_native_transport_candidates, and whom its result leaves eligible.
Eligible(ask) == {n \in Installed(ask) : Rejection(ask, n, PeerSupported(ask)) = "none"}

\* What becomes of a candidate once the probe observations obs are in.
FinalRejection(ask, obs, n) ==
  LET reason == Rejection(ask, n, PeerSupported(ask))
  IN IF reason # "none" \/ Cardinality(Eligible(ask)) = 1 THEN reason
     ELSE IF n \notin DOMAIN obs THEN "probe_missing"
     ELSE IF ~obs[n].ok THEN "probe_failed" ELSE "none"

Successful(ask, obs) == {n \in Eligible(ask) : FinalRejection(ask, obs, n) = "none"}

CostDifference(l, r) == IF l.model # 0 /\ l.model = r.model THEN l.units - r.units ELSE 0
Flag(b) == IF b THEN 0 ELSE 1

\* The measurements, the better one first.
Measured(l, r) == <<r.count - l.count, r.rate - l.rate, l.rtt - r.rtt>>

\* The keys that need no measurement.
Declared(policy, l, r) ==
  <<Flag(IsPreferred(policy, l.kind)) - Flag(IsPreferred(policy, r.kind)),
    l.rank - r.rank, TransportId[l.kind] - TransportId[r.kind]>>

FirstDifference(s) ==
  LET differ == {i \in DOMAIN s : s[i] # 0} IN IF differ = {} THEN 0 ELSE s[FirstIndex(differ)]

\* _compare_native_transport_candidates: negative when l comes before r.
Compare(ask, obs, l, r) ==
  FirstDifference(Measured(obs[l], obs[r])
                  \o <<CostDifference(BindingOf(ask, l), BindingOf(ask, r))>>
                  \o Declared(ask.policy, BindingOf(ask, l), BindingOf(ask, r)))

\* What list.sort can return for a comparison, given as a set of pairs: a
\* permutation in which every two neighbours are in order.  When the comparison
\* is an order there is only one.
Orders(S, before) ==
  {s \in [1..Cardinality(S) -> S] :
     /\ \A i, j \in DOMAIN s : s[i] = s[j] => i = j
     /\ \A i \in DOMAIN s : i > 1 => <<s[i - 1], s[i]>> \in before}

\* The transports that _select_native_transport_provider_from_providers can
\* select; none of them: it raises.
Selectable(ask, obs) ==
  LET best == Successful(ask, obs)
      before == {p \in best \X best : Compare(ask, obs, p[1], p[2]) <= 0}
  IN IF Cardinality(best) <= 1 THEN best ELSE {s[1] : s \in Orders(best, before)}

\* _client_candidate_diagnostics: the reasons a refused client is given.
ClientDiagnostics(ask, obs) == [n \in ClientNames(ask) |-> FinalRejection(ask, obs, n)]

\* The code of the error: selection_error and _native_transport_selection_error.
ErrorCode(ask) ==
  IF ForcedTransport(ask.policy) # {} THEN "forced_transport_unavailable" ELSE "no_viable_transport"

-----------------------------------------------------------------------------
(* The server: a listener on every route that resolves. *)

ServerNames(ask) == Installed(ask) \cup DOMAIN ask.routes \cup ForcedTransport(ask.policy)

\* Mutant of RequiredFailure: a configured route to a missing artifact is skipped.
RequiredFailure_RoutesOnly(ask) ==
  \E n \in ServerNames(ask) : Rejection(ask, n, Transports) = "route_unresolved"

\* A transport that must work and does not: its route does not resolve, or the
\* application configured it and its artifact is missing.
RequiredFailure(ask) ==
  \E n \in ServerNames(ask) :
    \/ Rejection(ask, n, Transports) = "route_unresolved"
    \/ n \in DOMAIN ask.routes /\ Rejection(ask, n, Transports) = "local_unavailable"

Listening(ask) == {n \in ServerNames(ask) : Rejection(ask, n, Transports) = "none"}

\* _resolve_server_routes: the order of the listeners, by provider_order_key.
ListenOrders(ask) ==
  LET up == Listening(ask)
      before == {p \in up \X up :
                   FirstDifference(Declared(ask.policy, BindingOf(ask, p[1]), BindingOf(ask, p[2]))) <= 0}
  IN Orders(up, before)
=============================================================================
