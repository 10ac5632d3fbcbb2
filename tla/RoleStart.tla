------------------------------ MODULE RoleStart ----------------------------
(***************************************************************************)
(* Starting a role: connect_native_client_connection of client/native.py   *)
(* and listen_native_server of server/native.py, down to the native calls  *)
(* of NativeTransportBinding and the adoption of the carrier in native.py. *)
(* Every native call may fail; live is the set of native handles that      *)
(* exist, each with the transport it was created for.                      *)
(***************************************************************************)
EXTENDS TransportSelection, EventQueues

CONSTANTS
  Asks,      \* what applications ask for
  Metrics,   \* what a probe can measure
  MaxFaults  \* bound: native calls that fail, probes aside

ASSUME AsksAssumption ==
  \A a \in Asks :
    /\ a.role \in {"client", "server"}
    /\ a.secure \in BOOLEAN /\ a.hook \in BOOLEAN
    /\ a.policy \in TransportPolicy
    /\ DOMAIN a.routes \subseteq Transports
    /\ \A n \in DOMAIN a.routes : a.routes[n] \in Route
    /\ a.bindings \in Seq(Binding)
ASSUME MetricsAssumption ==
  /\ Metrics \subseteq [ok : {TRUE}, count : Nat, rate : Nat, rtt : Nat]
  /\ MaxFaults \in Nat

VARIABLES
  phase,    \* where the starting call is
  ask,      \* what it was asked for
  todo,     \* the transports still to probe, in the order of the bindings
  obs,      \* the probe observations
  routes,   \* the transports to open, in order
  roles,    \* the ones whose role has been adopted
  live,     \* the native handles that exist
  faults,   \* native calls that have failed
  unclosed  \* the handles whose close failed

vars == <<phase, ask, todo, obs, routes, roles, live, faults, unclosed>>

NoAsk == [role |-> "client", secure |-> FALSE, hook |-> FALSE,
          policy |-> [mode |-> "auto", name |-> "none"], routes |-> <<>>, bindings |-> <<>>]
NoObs == [n \in {} |-> 0]

Phases == {"idle", "probe", "config", "open", "endpoint", "endpoint_release", "listener_undo",
           "config_close", "open_failed", "adopt", "install", "install_failed", "bind",
           "bind_failed", "registry_close", "dispatcher_close", "carrier_close", "rollback",
           "up", "failed", "refused"}

Server  == ask.role = "server"
Here    == routes[Len(roles) + 1]
Config  == <<"config", Here>>
Carrier == <<"carrier", Here>>
Registry == <<"registry", Here>>
Role(n) == <<"role", n>>
Dispatcher(n) == <<"dispatcher", n>>

Init ==
  /\ phase = "idle" /\ ask = NoAsk
  /\ todo = <<>> /\ obs = NoObs
  /\ routes = <<>> /\ roles = <<>>
  /\ live = {} /\ faults = 0 /\ unclosed = {}

-----------------------------------------------------------------------------
(* Selecting. *)

\* The installed transports to probe, in the order of the bindings.
ProbeOrder(a) ==
  LET kinds == [i \in DOMAIN a.bindings |-> a.bindings[i].kind]
  IN At(kinds, {i \in DOMAIN kinds : kinds[i] \in ProbedNames(a)})

Begin(a) ==
  /\ phase = "idle"
  /\ ask' = a
  /\ \/ HasDuplicates(a.bindings) /\ phase' = "refused" /\ UNCHANGED <<todo, routes>>
     \/ /\ ~HasDuplicates(a.bindings) /\ a.role = "client"
        /\ phase' = "probe" /\ todo' = ProbeOrder(a) /\ UNCHANGED routes
     \/ /\ ~HasDuplicates(a.bindings) /\ a.role = "server"
        /\ RequiredFailure(a) \/ Listening(a) = {}
        /\ phase' = "refused" /\ UNCHANGED <<todo, routes>>
     \/ /\ ~HasDuplicates(a.bindings) /\ a.role = "server"
        /\ ~RequiredFailure(a) /\ Listening(a) # {}
        /\ routes' \in ListenOrders(a)
        /\ phase' = "config" /\ UNCHANGED todo
  /\ UNCHANGED <<obs, roles, live, faults, unclosed>>

Observe(n, seen) == obs' = [m \in DOMAIN obs \cup {n} |-> IF m = n THEN seen ELSE obs[m]]

\* binding._probe: create the security configuration, measure, close it.  Any
\* failure, that of the close too, is an observation like the others.
Probe ==
  LET n == Head(todo)
      failed == [ok |-> FALSE, count |-> 0, rate |-> 0, rtt |-> 0]
  IN /\ phase = "probe" /\ todo # <<>>
     /\ todo' = Tail(todo)
     /\ \/ \E m \in Metrics : Observe(n, m) /\ UNCHANGED <<live, faults, unclosed>>
        \/ Observe(n, failed) /\ UNCHANGED <<live, faults, unclosed>>
        \/ /\ RouteOf(ask, n).security
           /\ faults < MaxFaults
           /\ faults' = faults + 1
           /\ live' = live \cup {<<"probe_config", n>>}
           /\ unclosed' = unclosed \cup {<<"probe_config", n>>}
           /\ Observe(n, failed)
     /\ UNCHANGED <<phase, ask, routes, roles>>

Choose ==
  /\ phase = "probe" /\ todo = <<>>
  /\ \/ \E n \in Selectable(ask, obs) : routes' = <<n>> /\ phase' = "config"
     \/ Selectable(ask, obs) = {} /\ phase' = "refused" /\ UNCHANGED routes
  /\ UNCHANGED <<ask, todo, obs, roles, live, faults, unclosed>>

-----------------------------------------------------------------------------
(* Native calls. *)

Quiet == UNCHANGED <<ask, todo, obs, routes>>

\* A call that creates handles, or hands one over; when it fails nothing changed.
Acquire(at, gain, drop, next, bad) ==
  /\ phase = at
  /\ \/ live' = (live \ drop) \cup gain /\ phase' = next /\ UNCHANGED faults
     \/ faults < MaxFaults /\ faults' = faults + 1 /\ phase' = bad /\ UNCHANGED live
  /\ UNCHANGED <<roles, unclosed>> /\ Quiet

\* A call that closes a handle.  It fails if the handle is gone, and may fail
\* otherwise; the handle then stays.
Release(at, handle, next, bad) ==
  /\ phase = at
  /\ \/ handle \in live /\ live' = live \ {handle} /\ phase' = next /\ UNCHANGED <<faults, unclosed>>
     \/ handle \notin live /\ phase' = bad /\ UNCHANGED <<live, faults, unclosed>>
     \/ /\ handle \in live /\ faults < MaxFaults
        /\ faults' = faults + 1 /\ unclosed' = unclosed \cup {handle}
        /\ phase' = bad /\ UNCHANGED live
  /\ UNCHANGED roles /\ Quiet

Skip(at, next) == phase = at /\ phase' = next /\ UNCHANGED <<roles, live, faults, unclosed>> /\ Quiet

-----------------------------------------------------------------------------
(* _connect and _listen: the carrier, with a security configuration that    *)
(* lives for the length of the call.                                        *)

ConfigCreate ==
  IF phase = "config" /\ RouteOf(ask, Here).security
    THEN Acquire("config", {Config}, {}, "open", "rollback")
    ELSE Skip("config", "open")

Open == Acquire("open", {Carrier}, {}, IF Server THEN "endpoint" ELSE "config_close", "open_failed")

\* _listener_endpoint: the address comes in a native buffer; reading it may fail
\* after the buffer was returned.
EndpointQuery == Acquire("endpoint", {<<"buffer", Here>>}, {}, "endpoint_release", "listener_undo")
EndpointRead ==
  \/ Release("endpoint_release", <<"buffer", Here>>, "config_close", "listener_undo")
  \/ faults < MaxFaults /\ phase = "endpoint_release"
     /\ live' = live \ {<<"buffer", Here>>}
     /\ phase' = "listener_undo" /\ faults' = faults + 1
     /\ UNCHANGED <<roles, unclosed>> /\ Quiet

ListenerUndo == Release("listener_undo", Carrier, "open_failed", "open_failed")

\* finally: self._close_config(config).  When it fails after the carrier was
\* opened, the wrapper of the carrier never reaches the caller.
ConfigClose ==
  IF phase = "config_close" /\ Config \in live
    THEN Release("config_close", Config, "adopt", "rollback")
    ELSE Skip("config_close", "adopt")
OpenFailed ==
  IF phase = "open_failed" /\ Config \in live
    THEN Release("open_failed", Config, "rollback", "rollback")
    ELSE Skip("open_failed", "rollback")

-----------------------------------------------------------------------------
(* Adoption: the carrier's handle becomes the role's. *)

AdoptClient == ~Server /\ Acquire("adopt", {Role(Here)}, {Carrier}, "up", "carrier_close")

\* _adopt_server_role.
RegistryCreate == Server /\ Acquire("adopt", {Registry}, {}, "install", "carrier_close")
Install ==
  Acquire("install", IF ask.hook THEN {Dispatcher(Here)} ELSE {}, {}, "bind", "install_failed")
InstallFailed == Release("install_failed", Registry, "carrier_close", "carrier_close")

\* Mutant of Bind: the dispatcher of a refused bind is forgotten.
Bind_Forgets == Acquire("bind", {Role(Here)}, {Carrier}, "registry_close", "install_failed")
Bind == Acquire("bind", {Role(Here)}, {Carrier}, "registry_close", "bind_failed")
BindFailed == Release("bind_failed", Registry, "dispatcher_close", "carrier_close")
DispatcherClose ==
  /\ phase = "dispatcher_close" /\ phase' = "carrier_close"
  /\ live' = live \ {Dispatcher(Here)}
  /\ UNCHANGED <<roles, faults, unclosed>> /\ Quiet

\* The registry is closed and the next route is opened, or the server is up.
\* When this close fails the call raises, although the bind took effect.
RegistryClose ==
  /\ phase = "registry_close"
  /\ \/ /\ live' = live \ {Registry}
        /\ roles' = Append(roles, Here)
        /\ phase' = IF Len(roles) + 1 = Len(routes) THEN "up" ELSE "config"
        /\ UNCHANGED <<faults, unclosed>>
     \/ /\ faults < MaxFaults
        /\ faults' = faults + 1 /\ unclosed' = unclosed \cup {Registry}
        /\ phase' = "carrier_close" /\ UNCHANGED <<roles, live>>
  /\ Quiet

\* except BaseException: carrier._close(), listener._close().
CarrierClose == Release("carrier_close", Carrier, "rollback", "rollback")

\* The roles adopted so far are closed, the newest first; a failing close ends
\* the loop.
Rollback ==
  /\ phase = "rollback"
  /\ \/ roles = <<>> /\ phase' = "failed" /\ UNCHANGED <<roles, live, faults, unclosed>>
     \/ /\ roles # <<>>
        /\ LET n == roles[Len(roles)]
           IN \/ /\ live' = live \ {Role(n), Dispatcher(n)}
                 /\ roles' = SubSeq(roles, 1, Len(roles) - 1)
                 /\ UNCHANGED <<phase, faults, unclosed>>
              \/ /\ faults < MaxFaults
                 /\ faults' = faults + 1 /\ unclosed' = unclosed \cup {Role(n)}
                 /\ live' = live \ {Dispatcher(n)}
                 /\ phase' = "failed" /\ UNCHANGED roles
  /\ Quiet

Next ==
  \/ \E a \in Asks : Begin(a)
  \/ Probe \/ Choose
  \/ ConfigCreate \/ Open \/ EndpointQuery \/ EndpointRead \/ ListenerUndo \/ ConfigClose \/ OpenFailed
  \/ AdoptClient \/ RegistryCreate \/ Install \/ InstallFailed \/ Bind \/ BindFailed
  \/ DispatcherClose \/ RegistryClose \/ CarrierClose \/ Rollback

Spec == Init /\ [][Next]_vars

-----------------------------------------------------------------------------
Handles == {"probe_config", "config", "carrier", "buffer", "registry", "dispatcher", "role"} \X Transports

TypeOK ==
  /\ phase \in Phases
  /\ ask.role \in {"client", "server"} /\ ask.policy \in TransportPolicy
  /\ todo \in Seq(Transports)
  /\ DOMAIN obs \subseteq Transports
  /\ routes \in Seq(Transports) /\ roles \in Seq(Transports)
  /\ live \subseteq Handles /\ unclosed \subseteq live
  /\ faults \in 0..MaxFaults

\* The handles that belong to the roles that are up.
OwnedByRoles ==
  {Role(routes[i]) : i \in DOMAIN routes}
  \cup {Dispatcher(routes[i]) : i \in {i \in DOMAIN routes : Server /\ ask.hook}}

(* "Carrier ownership transfers to the Rust client or server role only after
   adoption succeeds.  Failed adoption leaves the Python carrier wrapper
   responsible for deterministic cleanup": whichever native call of a start
   fails, as long as the closing calls work, a start that fails leaves no
   handle behind, and one that succeeds leaves exactly those of its roles.  The
   types of the state are checked with it. *)
NothingLeaked ==
  /\ TypeOK
  /\ unclosed = {} =>
       /\ phase \in {"failed", "refused"} => live = {}
       /\ phase = "up" => live = OwnedByRoles

(* An nnrps application never reaches a carrier that is not secured: whatever is
   opened for it has a security configuration, is not a local pipe, and is not a
   plain WebSocket. *)
SecureStaysSecure ==
  ask.secure => \A i \in DOMAIN routes :
    /\ RouteOf(ask, routes[i]).security
    /\ routes[i] # "ipc"
    /\ routes[i] = "websocket" => RouteOf(ask, routes[i]).endpoint = "secure"

Chosen == ask.role = "client" /\ phase = "config"

\* No candidate is compared by cost with some candidates and not with others.
OneCostModel ==
  \A i, j \in DOMAIN ask.bindings : ask.bindings[i].model = ask.bindings[j].model

(* The carrier a client gets is the best one it measured: no other candidate
   whose probe succeeded was faster by count, rate and round trip; and when the
   providers share one cost model, none comes before it at all. *)
SelectedIsBest ==
  Chosen => \A n \in Successful(ask, obs) \ {routes[1]} :
    /\ FirstDifference(Measured(obs[n], obs[routes[1]])) >= 0
    /\ OneCostModel => Compare(ask, obs, routes[1], n) < 0

(* The two accounts of eligibility, the client's before probing and the
   selection's after it, agree: whoever is in the running was probed, unless it
   is alone. *)
EveryoneProbed ==
  (phase = "probe" /\ todo = <<>>) =>
    \A n \in ClientNames(ask) : FinalRejection(ask, obs, n) # "probe_missing"

(* Selection in connect: the best candidate is taken, and no candidate lost only
   because nobody probed it. *)
BestIsTaken == SelectedIsBest /\ EveryoneProbed

(* A client that is refused is told why for every transport it could have named,
   and one that forced a transport is told about that one. *)
RefusalExplained ==
  (phase = "refused" /\ ask.role = "client" /\ ~HasDuplicates(ask.bindings)) =>
    /\ \A n \in ClientNames(ask) : ClientDiagnostics(ask, obs)[n] # "none"
    /\ ErrorCode(ask) = "forced_transport_unavailable"
         => ask.policy.name \in DOMAIN ClientDiagnostics(ask, obs)

(* A server that comes up listens on every transport its application configured
   and the policy allows, unless that route is not secure enough. *)
ConfiguredListens ==
  (Server /\ phase = "up") =>
    \A n \in DOMAIN ask.routes :
      PolicyAllows(ask.policy, n) /\ SecuritySatisfied(ask, n) => \E i \in DOMAIN routes : routes[i] = n

(* A start does what it was asked to or says why not: connect explains every
   transport it turned down, listen_native_server skips none that was configured. *)
StartedOrExplained == RefusalExplained /\ ConfiguredListens
=============================================================================
