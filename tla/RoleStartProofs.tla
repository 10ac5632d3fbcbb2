-------------------------- MODULE RoleStartProofs --------------------------
(***************************************************************************)
(* Proofs about RoleStart: a start leaks no native handle, opens nothing   *)
(* that is less secure than it was asked for, takes the best carrier, and  *)
(* does what it was asked to or says why not.                              *)
(*                                                                         *)
(* The inductive invariant says where the transports to open come from,    *)
(* and counts the handles of each kind by the phase of the start.          *)
(***************************************************************************)
EXTENDS RoleStart, EventQueuesProofs, FiniteSetTheorems, TLAPS

Working == Phases \ {"idle", "probe", "up", "failed", "refused"}
Serving == {"endpoint", "endpoint_release", "listener_undo", "install", "install_failed", "bind", "bind_failed",
            "registry_close", "dispatcher_close"}
Selecting == {"idle", "probe", "refused"}

Observation == [ok : BOOLEAN, count : Nat, rate : Nat, rtt : Nat]

\* Who is asking, and what the probes have seen.
AskInv ==
  /\ phase = "idle" => ask = NoAsk /\ todo = <<>> /\ obs = NoObs
  /\ phase # "idle" => ask \in Asks
  /\ \A n \in DOMAIN obs : obs[n] \in Observation
  /\ phase = "probe" => ~Server /\ ProbedNames(ask) \subseteq DOMAIN obs \cup Elems(todo)
  /\ phase = "refused" /\ ~Server /\ ~HasDuplicates(ask.bindings) => Selectable(ask, obs) = {}

\* Where the transports to open come from.
RouteInv ==
  /\ phase \in Selecting => routes = <<>>
  /\ phase \notin Selecting /\ Server => routes \in ListenOrders(ask) /\ ~RequiredFailure(ask)
  /\ phase \notin Selecting /\ ~Server =>
       \E n \in Selectable(ask, obs) : routes = <<n>>

\* How far the start is: the roles adopted are the first routes.
RolesInv ==
  /\ Len(roles) <= Len(routes)
  /\ \A i \in DOMAIN roles : roles[i] = routes[i]
  /\ phase \in Working \ {"rollback"} => Len(roles) < Len(routes)
  /\ ~Server => roles = <<>>
  /\ phase \in Serving => Server
  /\ phase = "up" /\ Server => Len(roles) = Len(routes)

\* The kinds of handle whose close can have failed by now.
UnclosedKinds ==
  {"probe_config"}
  \cup (IF phase \in {"listener_undo", "open_failed", "rollback", "failed"} THEN {"buffer"} ELSE {})
  \cup (IF phase \in {"open_failed", "rollback", "failed"} THEN {"carrier"} ELSE {})
  \cup (IF phase \in {"carrier_close", "rollback", "failed"} THEN {"registry"} ELSE {})
  \cup (IF phase \in {"rollback", "failed"} THEN {"config"} ELSE {})
  \cup (IF phase = "failed" THEN {"role"} ELSE {})

UnclosedInv == \A h \in unclosed : h[1] \in UnclosedKinds

\* The transports whose role has been adopted, and the one being opened.
Adopted(n) == \E i \in 1 .. Len(roles) : n = routes[i]
Current(n) == n = Here

\* Which handles exist, by kind, as long as no close failed.
Kinds == {"probe_config", "config", "carrier", "buffer", "registry", "dispatcher", "role"}
Expected(kind, n) ==
  \/ /\ kind = "buffer" /\ phase = "endpoint_release"
     /\ Current(n)
  \/ /\ kind = "config"
     /\ phase \in {"open", "endpoint", "endpoint_release", "listener_undo", "config_close", "open_failed"}
     /\ Current(n) /\ RouteOf(ask, n).security
  \/ /\ kind = "carrier"
     /\ phase \in {"endpoint", "endpoint_release", "listener_undo", "config_close", "adopt", "install",
                   "install_failed", "bind", "bind_failed", "dispatcher_close", "carrier_close"}
     /\ Current(n)
  \/ /\ kind = "registry"
     /\ phase \in {"install", "install_failed", "bind", "bind_failed", "registry_close"}
     /\ Current(n)
  \/ /\ kind = "role"
     /\ \/ Adopted(n)
        \/ phase = "registry_close" /\ Current(n)
        \/ phase = "up" /\ ~Server /\ Current(n)
  \/ /\ kind = "dispatcher" /\ Server /\ ask.hook
     /\ \/ Adopted(n)
        \/ phase \in {"bind", "bind_failed", "dispatcher_close", "registry_close"} /\ Current(n)

LiveInv ==
  unclosed = {} =>
    \A kind \in Kinds, n \in Transports : <<kind, n>> \in live <=> Expected(kind, n)

\* A start that failed with every close working has closed all its roles.
FailedInv == phase = "failed" /\ unclosed = {} => roles = <<>>

\* Also when a close has failed, a role that was adopted exists until its own close succeeds,
\* and the registry until the role is adopted.
RolesHeld == \A i \in DOMAIN roles : <<"role", roles[i]>> \in live
Holding == {"install", "bind", "registry_close"}
HereHeld ==
  /\ phase = "registry_close" => <<"role", Here>> \in live
  /\ phase \in Holding => <<"registry", Here>> \in live

IInv == TypeOK /\ AskInv /\ RouteInv /\ RolesInv /\ UnclosedInv /\ LiveInv /\ FailedInv /\ RolesHeld /\ HereHeld

-----------------------------------------------------------------------------
(* What an application can ask for. *)

\* There are four transports.
LEMMA TransportsFinite == IsFiniteSet(Transports) /\ Cardinality(Transports) = 4
<1>1. IsFiniteSet({}) /\ Cardinality({}) = 0
  BY FS_EmptySet
<1>2. IsFiniteSet({} \cup {"tcp"}) /\ Cardinality({} \cup {"tcp"}) = 1
  BY <1>1, FS_AddElement
<1>3. IsFiniteSet(({} \cup {"tcp"}) \cup {"quic"}) /\ Cardinality(({} \cup {"tcp"}) \cup {"quic"}) = 2
  BY <1>2, FS_AddElement
<1> DEFINE two == ({} \cup {"tcp"}) \cup {"quic"}
<1>4. IsFiniteSet(two \cup {"ipc"}) /\ Cardinality(two \cup {"ipc"}) = 3
  BY <1>3, FS_AddElement
<1>5. /\ IsFiniteSet((two \cup {"ipc"}) \cup {"websocket"})
      /\ Cardinality((two \cup {"ipc"}) \cup {"websocket"}) = 4
  <2>1. "websocket" \notin two \cup {"ipc"}
    OBVIOUS
  <2> HIDE DEF two
  <2> QED
    BY <1>4, <2>1, FS_AddElement
<1>6. (two \cup {"ipc"}) \cup {"websocket"} = Transports
  BY DEF Transports
<1> QED
  BY <1>5, <1>6

\* A request that the proofs are about.
Asked(a) ==
  /\ a.role \in {"client", "server"}
  /\ a.policy \in TransportPolicy
  /\ DOMAIN a.routes \subseteq Transports
  /\ \A n \in DOMAIN a.routes : a.routes[n] \in Route
  /\ a.bindings \in Seq(Binding)

\* The requests of the model, and the one before any, are such requests.
LEMMA AsksAsked ==
  /\ \A a \in Asks : Asked(a)
  /\ Asked(NoAsk)
<1>1. \A a \in Asks : Asked(a)
  BY AsksAssumption DEF Asked
<1>2. NoAsk.routes = <<>> /\ NoAsk.bindings = <<>> /\ DOMAIN <<>> = {}
  BY DEF NoAsk
<1>3. NoAsk.role = "client" /\ NoAsk.policy \in TransportPolicy
  BY DEF NoAsk, TransportPolicy
<1>4. Asked(NoAsk)
  BY <1>2, <1>3 DEF Asked
<1> QED
  BY <1>1, <1>4

\* The transports that can be named are transports, and the installed ones have a binding.
LEMMA Names ==
  ASSUME NEW a, Asked(a)
  PROVE  /\ Installed(a) \in SUBSET Transports
         /\ ServerNames(a) \in SUBSET Transports
         /\ ClientNames(a) \in SUBSET Transports
         /\ \A n \in Installed(a) : BindingOf(a, n) \in Binding /\ BindingOf(a, n).kind = n
<1>1. DOMAIN a.bindings = 1 .. Len(a.bindings) /\ \A i \in DOMAIN a.bindings : a.bindings[i] \in Binding
  BY LenProperties, ElementOfSeq DEF Asked
<1>2. \A b \in Binding : b.kind \in Transports
  BY DEF Binding
<1>3. Installed(a) \in SUBSET Transports
  BY <1>1, <1>2 DEF Installed
<1>4. ForcedTransport(a.policy) \subseteq Transports
  BY DEF Asked, TransportPolicy, ForcedTransport
<1>5. {"tcp", "quic"} \subseteq Transports /\ DOMAIN a.routes \subseteq Transports
  BY DEF Transports, Asked
<1>6. ASSUME NEW n \in Installed(a) PROVE BindingOf(a, n) \in Binding /\ BindingOf(a, n).kind = n
  <2>1. \E i \in DOMAIN a.bindings : a.bindings[i].kind = n
    BY <1>6 DEF Installed
  <2> QED
    BY <1>1, <2>1 DEF BindingOf
<1> QED
  BY <1>3, <1>4, <1>5, <1>6 DEF ServerNames, ClientNames

\* The first failing check gives the reason.
LEMMA RejectionIs ==
  ASSUME NEW a, NEW n, NEW peer
  PROVE  \/ /\ Rejection(a, n, peer) = "none"
            /\ PolicyAllows(a.policy, n) /\ Available(a, n) /\ n \in peer
            /\ ResolveEndpoint(a, n) # "unresolved" /\ SecuritySatisfied(a, n)
         \/ Rejection(a, n, peer) = "policy_disallowed" /\ ~PolicyAllows(a.policy, n)
         \/ Rejection(a, n, peer) = "local_unavailable" /\ ~Available(a, n)
         \/ Rejection(a, n, peer) = "peer_unsupported" /\ n \notin peer
         \/ Rejection(a, n, peer) = "route_unresolved" /\ ResolveEndpoint(a, n) = "unresolved"
         \/ Rejection(a, n, peer) = "security_unsatisfied" /\ ~SecuritySatisfied(a, n)
<1> DEFINE fails  == Fails(a, n, peer)
           failed == {i \in DOMAIN Precedence : fails[Precedence[i]]}
<1>1. DOMAIN Precedence = 1 .. 5
  BY DEF Precedence
<1>2. Rejection(a, n, peer) = IF failed = {} THEN "none" ELSE Precedence[FirstIndex(failed)]
  BY DEF Rejection
<1>3. \A i \in 1 .. 5 : i \in failed <=> fails[Precedence[i]]
  BY <1>1
<1>4. failed \in SUBSET (1 .. 5) /\ failed \in SUBSET Nat /\ IsFiniteSet(failed)
  <2>1. failed \in SUBSET (1 .. 5)
    BY <1>1
  <2>2. 1 \in Int /\ 5 \in Int
    OBVIOUS
  <2>3. IsFiniteSet(1 .. 5)
    BY <2>2, FS_Interval
  <2> QED
    BY <2>1, <2>3, FS_Subset
<1>5. /\ Precedence[1] = "policy_disallowed" /\ Precedence[2] = "local_unavailable"
      /\ Precedence[3] = "peer_unsupported" /\ Precedence[4] = "route_unresolved"
      /\ Precedence[5] = "security_unsatisfied"
  BY DEF Precedence
<1>6. /\ fails["policy_disallowed"] <=> ~PolicyAllows(a.policy, n)
      /\ fails["local_unavailable"] <=> ~Available(a, n)
      /\ fails["peer_unsupported"] <=> n \notin peer
      /\ fails["route_unresolved"] <=> ResolveEndpoint(a, n) = "unresolved"
      /\ fails["security_unsatisfied"] <=> ~SecuritySatisfied(a, n)
  BY DEF Fails
<1> HIDE DEF fails, failed
<1>7. CASE failed = {}
  BY <1>2, <1>3, <1>5, <1>6, <1>7
<1>8. CASE failed # {}
  <2>1. FirstIndex(failed) \in failed
    BY <1>4, <1>8, LeastOf DEF FirstIndex
  <2>2. PICK i \in 1 .. 5 : FirstIndex(failed) = i /\ fails[Precedence[i]]
    BY <1>3, <1>4, <2>1
  <2>3. Rejection(a, n, peer) = Precedence[i]
    BY <1>2, <1>8, <2>2
  <2>4. i = 1 \/ i = 2 \/ i = 3 \/ i = 4 \/ i = 5
    BY <2>2
  <2> QED
    BY <1>5, <1>6, <2>2, <2>3, <2>4
<1> QED
  BY <1>7, <1>8

\* What list.sort returns lists the members of the set, each once.
LEMMA OrdersList ==
  ASSUME NEW S, IsFiniteSet(S), NEW before, NEW s \in Orders(S, before)
  PROVE  /\ s \in Seq(S) /\ Len(s) = Cardinality(S) /\ Cardinality(S) \in Nat
         /\ \A i, j \in DOMAIN s : s[i] = s[j] => i = j
         /\ \A x \in S : \E i \in DOMAIN s : s[i] = x
         /\ \A i \in DOMAIN s : i > 1 => <<s[i - 1], s[i]>> \in before
<1> DEFINE n == Cardinality(S)
<1>1. n \in Nat
  BY FS_CardinalityType
<1>2. /\ s \in [1 .. n -> S] /\ \A i, j \in DOMAIN s : s[i] = s[j] => i = j
      /\ \A i \in DOMAIN s : i > 1 => <<s[i - 1], s[i]>> \in before
  BY DEF Orders
<1> HIDE DEF n
<1>3. s \in Seq(S) /\ Len(s) = n
  BY <1>1, <1>2, IsASeq
<1>4. s \in Injection(1 .. n, S)
  BY <1>2 DEF Injection, IsInjective
<1>5. IsFiniteSet(1 .. n) /\ Cardinality(1 .. n) = n
  BY <1>1, FS_Interval
<1>6. s \in Surjection(1 .. n, S)
  BY <1>4, <1>5, FS_Injection DEF n
<1>7. \A x \in S : \E i \in DOMAIN s : s[i] = x
  BY <1>2, <1>6 DEF Surjection
<1> QED
  BY <1>1, <1>2, <1>3, <1>7 DEF n

\* A server listens on every transport that nothing rejects, once.
LEMMA ListenOrdersList ==
  ASSUME NEW a, Asked(a), NEW s \in ListenOrders(a)
  PROVE  /\ s \in Seq(Transports)
         /\ \A i, j \in DOMAIN s : s[i] = s[j] => i = j
         /\ \A i \in DOMAIN s : Rejection(a, s[i], Transports) = "none"
         /\ \A n \in Listening(a) : \E i \in DOMAIN s : s[i] = n
<1> DEFINE up == Listening(a)
           before == {p \in up \X up :
                        FirstDifference(Declared(a.policy, BindingOf(a, p[1]), BindingOf(a, p[2]))) <= 0}
<1>1. up \in SUBSET Transports /\ \A n \in up : Rejection(a, n, Transports) = "none"
  BY Names DEF Listening
<1>2. IsFiniteSet(up)
  BY <1>1, TransportsFinite, FS_Subset
<1>3. s \in Orders(up, before)
  BY DEF ListenOrders
<1> HIDE DEF up, before
<1>4. /\ s \in Seq(up) /\ \A i, j \in DOMAIN s : s[i] = s[j] => i = j
      /\ \A n \in up : \E i \in DOMAIN s : s[i] = n
  BY <1>2, <1>3, OrdersList
<1>5. DOMAIN s = 1 .. Len(s) /\ Len(s) \in Nat
  BY <1>4, LenProperties
<1>6. \A i \in DOMAIN s : s[i] \in up
  BY <1>4, <1>5, ElementOfSeq
<1>7. s \in Seq(Transports)
  <2>1. \A i \in 1 .. Len(s) : s[i] \in Transports
    BY <1>1, <1>5, <1>6
  <2>2. s \in [1 .. Len(s) -> up]
    BY <1>4, LenProperties
  <2>3. s \in [1 .. Len(s) -> Transports]
    BY <2>1, <2>2
  <2> QED
    BY <1>5, <2>3, IsASeq
<1> QED
  BY <1>1, <1>4, <1>6, <1>7 DEF up

\* Whoever can be selected was eligible and, when somebody else was too, measured.
LEMMA SuccessfulOnes ==
  ASSUME NEW a, Asked(a), NEW o
  PROVE  /\ Eligible(a) \in SUBSET Transports /\ IsFiniteSet(Eligible(a))
         /\ Cardinality(Eligible(a)) \in Nat
         /\ Successful(a, o) \in SUBSET Eligible(a) /\ IsFiniteSet(Successful(a, o))
         /\ Cardinality(Successful(a, o)) \in Nat
         /\ Cardinality(Successful(a, o)) > 1 =>
              \A n \in Successful(a, o) : n \in DOMAIN o /\ o[n].ok
<1>1. Eligible(a) \in SUBSET Transports /\ \A n \in Eligible(a) : Rejection(a, n, PeerSupported(a)) = "none"
  BY Names DEF Eligible
<1>2. IsFiniteSet(Eligible(a)) /\ Cardinality(Eligible(a)) \in Nat
  BY <1>1, TransportsFinite, FS_Subset, FS_CardinalityType
<1>3. Successful(a, o) \in SUBSET Eligible(a)
  BY DEF Successful
<1>4. /\ IsFiniteSet(Successful(a, o)) /\ Cardinality(Successful(a, o)) \in Nat
      /\ Cardinality(Successful(a, o)) <= Cardinality(Eligible(a))
  BY <1>2, <1>3, FS_Subset, FS_CardinalityType
<1>5. ASSUME Cardinality(Successful(a, o)) > 1, NEW n \in Successful(a, o)
      PROVE  n \in DOMAIN o /\ o[n].ok
  <2>1. Cardinality(Eligible(a)) # 1
    BY <1>2, <1>4, <1>5
  <2>2. FinalRejection(a, o, n) = "none"
    BY <1>5 DEF Successful
  <2> QED
    BY <1>1, <1>3, <1>5, <2>1, <2>2 DEF FinalRejection
<1> QED
  BY <1>1, <1>2, <1>3, <1>4, <1>5

\* The candidates in the order in which they were selected.
SelectedBefore(a, o) ==
  {p \in Successful(a, o) \X Successful(a, o) : Compare(a, o, p[1], p[2]) <= 0}

\* The selected transport is a candidate, and the first of the sorted ones when there are several.
LEMMA SelectedOnes ==
  ASSUME NEW a, Asked(a), NEW o, NEW n \in Selectable(a, o)
  PROVE  /\ n \in Successful(a, o) /\ n \in Eligible(a) /\ n \in Transports
         /\ Cardinality(Successful(a, o)) > 1 =>
              \E s \in Orders(Successful(a, o), SelectedBefore(a, o)) : n = s[1]
<1> DEFINE best == Successful(a, o)
<1>1. best \in SUBSET Eligible(a) /\ IsFiniteSet(best) /\ Eligible(a) \in SUBSET Transports /\ Cardinality(best) \in Nat
  BY SuccessfulOnes
<1>2. CASE Cardinality(best) <= 1
  BY <1>1, <1>2 DEF Selectable
<1>3. CASE Cardinality(best) > 1
  <2>1. PICK s \in Orders(best, SelectedBefore(a, o)) : n = s[1]
    <3>1. ~(Cardinality(best) <= 1)
      BY <1>1, <1>3
    <3> QED
      BY <3>1 DEF Selectable, SelectedBefore
  <2> HIDE DEF best
  <2>2. s \in Seq(best) /\ Len(s) = Cardinality(best)
    BY <1>1, OrdersList
  <2>3. 1 \in 1 .. Len(s)
    BY <1>1, <1>3, <2>2
  <2>4. n \in best
    BY <2>1, <2>2, <2>3, ElementOfSeq
  <2> QED
    BY <1>1, <2>1, <2>4 DEF best
<1> QED
  BY <1>1, <1>2, <1>3

\* The transports to open, in a state that satisfies the invariant.
LEMMA RoutesOpened ==
  ASSUME TypeOK, AskInv, RouteInv
  PROVE  /\ Asked(ask)
         /\ DOMAIN routes = 1 .. Len(routes) /\ Len(routes) \in Nat
         /\ \A i \in DOMAIN routes : routes[i] \in Transports
         /\ \A i, j \in DOMAIN routes : routes[i] = routes[j] => i = j
         /\ \A i \in DOMAIN routes : SecuritySatisfied(ask, routes[i])
<1>1. Asked(ask)
  BY AsksAsked DEF AskInv
<1>2. routes \in Seq(Transports) /\ DOMAIN routes = 1 .. Len(routes) /\ Len(routes) \in Nat
  BY LenProperties DEF TypeOK
<1>3. \A i \in DOMAIN routes : routes[i] \in Transports
  BY <1>2, ElementOfSeq
<1>4. CASE phase \in Selecting
  BY <1>1, <1>2, <1>3, <1>4 DEF RouteInv
<1>5. CASE phase \notin Selecting /\ Server
  <2>1. routes \in ListenOrders(ask)
    BY <1>5 DEF RouteInv
  <2>2. /\ \A i, j \in DOMAIN routes : routes[i] = routes[j] => i = j
        /\ \A i \in DOMAIN routes : Rejection(ask, routes[i], Transports) = "none"
    BY <1>1, <2>1, ListenOrdersList
  <2>3. \A i \in DOMAIN routes : SecuritySatisfied(ask, routes[i])
    BY <2>2, RejectionIs
  <2> QED
    BY <1>1, <1>2, <1>3, <2>2, <2>3
<1>6. CASE phase \notin Selecting /\ ~Server
  <2>1. PICK n \in Selectable(ask, obs) : routes = <<n>>
    BY <1>6 DEF RouteInv
  <2>2. n \in Eligible(ask)
    BY <1>1, SelectedOnes
  <2>3. Rejection(ask, n, PeerSupported(ask)) = "none"
    BY <2>2 DEF Eligible
  <2>4. SecuritySatisfied(ask, n)
    BY <2>3, RejectionIs
  <2>5. DOMAIN routes = {1} /\ routes[1] = n
    BY <2>1
  <2> QED
    BY <1>1, <1>2, <1>3, <2>4, <2>5
<1> QED
  BY <1>4, <1>5, <1>6

-----------------------------------------------------------------------------
(* Every step of a start keeps the invariant. *)

\* The transport being opened is a transport whose role has not been adopted.
LEMMA HereIs ==
  ASSUME IInv
  PROVE  /\ Len(roles) \in Nat /\ Len(routes) \in Nat /\ DOMAIN roles = 1 .. Len(roles)
         /\ \A n \in Transports : Adopted(n) <=> \E i \in 1 .. Len(roles) : n = roles[i]
         /\ Len(roles) < Len(routes) => Here \in Transports /\ ~Adopted(Here)
         /\ \A n \in Transports : RouteOf(ask, n).security \in BOOLEAN
<1> USE DEF IInv
<1>1. /\ Asked(ask) /\ DOMAIN routes = 1 .. Len(routes) /\ Len(routes) \in Nat
      /\ \A i \in DOMAIN routes : routes[i] \in Transports
      /\ \A i, j \in DOMAIN routes : routes[i] = routes[j] => i = j
  BY RoutesOpened
<1>2. Len(roles) \in Nat /\ DOMAIN roles = 1 .. Len(roles) /\ Len(roles) <= Len(routes)
  BY LenProperties DEF TypeOK, RolesInv
<1>3. \A i \in 1 .. Len(roles) : i \in 1 .. Len(routes) /\ roles[i] = routes[i]
  <2>1. \A i \in DOMAIN roles : roles[i] = routes[i]
    BY DEF RolesInv
  <2> QED
    BY <1>1, <1>2, <2>1
<1>4. ASSUME Len(roles) < Len(routes) PROVE Here \in Transports /\ ~Adopted(Here)
  <2>1. Len(roles) + 1 \in 1 .. Len(routes) /\ Len(roles) + 1 \notin 1 .. Len(roles)
    BY <1>1, <1>2, <1>4
  <2> QED
    BY <1>1, <1>3, <2>1 DEF Here, Adopted
<1>5. ASSUME NEW n \in Transports PROVE RouteOf(ask, n).security \in BOOLEAN
  BY <1>1 DEF RouteOf, Asked, Route
<1> QED
  BY <1>1, <1>2, <1>3, <1>4, <1>5 DEF Adopted

\* The request and the routes stay while carriers are opened and closed.
LEMMA QuietKeeps ==
  ASSUME IInv, Quiet, phase \notin Selecting, phase' \in Phases \ Selecting
  PROVE  AskInv' /\ RouteInv'
<1>1. ask' = ask /\ todo' = todo /\ obs' = obs /\ routes' = routes
  BY DEF Quiet
<1>2. phase \notin {"idle", "probe", "refused"} /\ phase' \notin {"idle", "probe", "refused"}
  BY DEF Selecting
<1>3. AskInv'
  BY <1>1, <1>2 DEF IInv, AskInv
<1>4. RouteInv'
  BY <1>1, <1>2 DEF IInv, RouteInv, Server, Selecting
<1> QED
  BY <1>3, <1>4

\* Nothing changes about the transport being opened and the roles adopted.
LEMMA SamePlace ==
  ASSUME Quiet, roles' = roles
  PROVE  /\ \A n : (Current(n)' <=> Current(n)) /\ (Adopted(n)' <=> Adopted(n))
         /\ (Server' <=> Server) /\ ask' = ask /\ routes' = routes
  BY DEF Quiet, Current, Adopted, Here, Server

\* A step on the transport being opened: what it has to keep.
LEMMA CarrierStep ==
  ASSUME IInv, Quiet, roles' = roles, phase \in Working \ {"rollback"},
         phase' \in Working \cup {"up"}, phase' = "up" => ~Server, phase' \in Serving => Server,
         faults' \in 0 .. MaxFaults, live' \subseteq Handles, unclosed' \subseteq live',
         UnclosedInv', unclosed \subseteq unclosed',
         \A n : <<"role", n>> \in live => <<"role", n>> \in live',
         HereHeld',
         unclosed = {} =>
           \A kind \in Kinds, n \in Transports :
             Here \in Transports /\ (\A k \in Kinds : <<k, Here>> \in live <=> Expected(k, Here))
             /\ (<<kind, n>> \in live <=> Expected(kind, n)) /\ unclosed' = {}
               => (<<kind, n>> \in live' <=> Expected(kind, n)')
  PROVE  IInv'
<1>1. /\ phase \notin Selecting /\ phase' \in Phases \ Selecting /\ phase' # "failed"
      /\ phase' \in Working \ {"rollback"} => phase \in Working \ {"rollback"}
  BY DEF Selecting, Phases, Working
<1>2. AskInv' /\ RouteInv'
  BY <1>1, QuietKeeps
<1>3. TypeOK'
  BY <1>1 DEF IInv, TypeOK, Quiet
<1>4. RolesInv'
  <2>1. roles' = roles /\ routes' = routes /\ (Server' <=> Server)
    BY SamePlace
  <2> QED
    BY <1>1, <2>1 DEF IInv, RolesInv
<1>5. LiveInv'
  <2>1. Here \in Transports
    BY HereIs DEF IInv, RolesInv
  <2>2. unclosed' = {} => unclosed = {}
    OBVIOUS
  <2> QED
    BY <2>1, <2>2 DEF IInv, LiveInv
<1>6. FailedInv'
  BY <1>1 DEF FailedInv
<1>7. RolesHeld'
  BY SamePlace DEF IInv, RolesHeld
<1> QED
  BY <1>2, <1>3, <1>4, <1>5, <1>6, <1>7 DEF IInv

\* What a successful native call changes, kind by kind.
LEMMA AcquireKeeps ==
  ASSUME IInv, NEW at \in Working \ {"rollback"}, NEW next \in Working \cup {"up"},
         NEW bad \in Working, NEW gain, NEW drop, Acquire(at, gain, drop, next, bad),
         gain \subseteq Handles, \A h \in drop : h[1] \notin UnclosedKinds \cup {"role"},
         HereHeld',
         phase' = "up" => ~Server, phase' \in Serving => Server,
         UnclosedKinds \subseteq UnclosedKinds',
         \A kind \in Kinds, n \in Transports :
           /\ phase' = bad => (Expected(kind, n)' <=> Expected(kind, n))
           /\ phase' = next => (Expected(kind, n)' <=> \/ Expected(kind, n) /\ <<kind, n>> \notin drop
                                                       \/ <<kind, n>> \in gain)
  PROVE  IInv'
<1>1. /\ phase = at /\ roles' = roles /\ unclosed' = unclosed /\ Quiet /\ faults' \in 0 .. MaxFaults
      /\ \/ phase' = next /\ live' = (live \ drop) \cup gain
         \/ phase' = bad /\ live' = live
  BY MetricsAssumption DEF Acquire, IInv, TypeOK
<1>2. live' \subseteq Handles /\ unclosed' \subseteq live'
  BY <1>1 DEF IInv, TypeOK, UnclosedInv
<1>3. UnclosedInv'
  BY <1>1 DEF IInv, UnclosedInv
<1>4. \A kind \in Kinds, n \in Transports :
        (<<kind, n>> \in live <=> Expected(kind, n)) => (<<kind, n>> \in live' <=> Expected(kind, n)')
  BY <1>1
<1>5. \A n : <<"role", n>> \in live => <<"role", n>> \in live'
  BY <1>1
<1> QED
  BY <1>1, <1>2, <1>3, <1>4, <1>5, CarrierStep

\* The handles of the transport being opened.
LEMMA HereHandles ==
  ASSUME IInv, phase \in Working \ {"rollback"}
  PROVE  /\ Here \in Transports /\ ~Adopted(Here)
         /\ \A kind \in Kinds : <<kind, Here>> \in Handles
         /\ \A kind \in Kinds, other \in Kinds, n \in Transports :
              <<kind, n>> \in {<<other, Here>>} <=> kind = other /\ Current(n)
         /\ \A kind \in Kinds : <<kind, Here>>[1] = kind
<1>1. Here \in Transports /\ ~Adopted(Here)
  BY HereIs DEF IInv, RolesInv
<1> QED
  BY <1>1 DEF Kinds, Handles, Current

\* The carrier is opened.
LEMMA OpenKeeps == IInv /\ Open => IInv'
<1> SUFFICES ASSUME IInv, Open PROVE IInv'
  OBVIOUS
<1> DEFINE next == IF Server THEN "endpoint" ELSE "config_close"
<1>1. Acquire("open", {Carrier}, {}, next, "open_failed") /\ phase = "open" /\ roles' = roles /\ Quiet
  BY DEF Open, Acquire
<1>2. phase' = next \/ phase' = "open_failed"
  BY <1>1 DEF Acquire
<1>3. /\ Here \in Transports /\ ~Adopted(Here) /\ {Carrier} \subseteq Handles
      /\ \A kind \in Kinds, n \in Transports :
           <<kind, n>> \in {Carrier} <=> kind = "carrier" /\ Current(n)
  BY <1>1, HereHandles DEF Working, Phases, Carrier, Kinds
<1>4. "open" \in Working \ {"rollback"} /\ next \in Working /\ "open_failed" \in Working
  BY DEF Working, Phases
<1>5. UnclosedKinds \subseteq UnclosedKinds'
  BY <1>1, <1>2 DEF UnclosedKinds
<1>6. /\ phase' = "up" => ~Server
      /\ phase' \in Serving => Server
  BY <1>1, <1>2 DEF Serving
<1>7. HereHeld'
  BY <1>2 DEF HereHeld, Holding
<1>8. ASSUME NEW kind \in Kinds, NEW n \in Transports
      PROVE  /\ phase' = "open_failed" => (Expected(kind, n)' <=> Expected(kind, n))
             /\ phase' = next => (Expected(kind, n)' <=> Expected(kind, n) \/ <<kind, n>> \in {Carrier})
  BY <1>1, <1>3, SamePlace DEF Expected, Kinds
<1> QED
  BY <1>1, <1>3, <1>4, <1>5, <1>6, <1>7, <1>8, AcquireKeeps

\* The buffer with the address of the listener.
LEMMA EndpointQueryKeeps == IInv /\ EndpointQuery => IInv'
<1> SUFFICES ASSUME IInv, EndpointQuery PROVE IInv'
  OBVIOUS
<1> DEFINE gain == {<<"buffer", Here>>}
<1>1. /\ Acquire("endpoint", gain, {}, "endpoint_release", "listener_undo")
      /\ phase = "endpoint" /\ roles' = roles /\ Quiet
  BY DEF EndpointQuery, Acquire
<1>2. phase' = "endpoint_release" \/ phase' = "listener_undo"
  BY <1>1 DEF Acquire
<1>3. /\ Here \in Transports /\ ~Adopted(Here) /\ gain \subseteq Handles
      /\ \A kind \in Kinds, n \in Transports :
           <<kind, n>> \in gain <=> kind = "buffer" /\ Current(n)
  BY <1>1, HereHandles DEF Working, Phases, Kinds
<1> HIDE DEF gain
<1>4. "endpoint" \in Working \ {"rollback"} /\ "endpoint_release" \in Working \cup {"up"} /\ "listener_undo" \in Working
  BY DEF Working, Phases
<1>5. UnclosedKinds \subseteq UnclosedKinds'
  BY <1>1, <1>2 DEF UnclosedKinds
<1>6. (phase' = "up" => ~Server) /\ (phase' \in Serving => Server)
  BY <1>1, <1>2 DEF IInv, RolesInv, Serving
<1>7. HereHeld'
  BY <1>2 DEF HereHeld, Holding
<1>8. ASSUME NEW kind \in Kinds, NEW n \in Transports
      PROVE  /\ phase' = "listener_undo" => (Expected(kind, n)' <=> Expected(kind, n))
             /\ phase' = "endpoint_release" => (Expected(kind, n)' <=> \/ Expected(kind, n) /\ <<kind, n>> \notin {}
                                                                       \/ <<kind, n>> \in gain)
  BY <1>1, <1>3, SamePlace DEF IInv, RolesInv, Serving, Expected, Kinds
<1> QED
  BY <1>1, <1>3, <1>4, <1>5, <1>6, <1>7, <1>8, AcquireKeeps

\* The client role takes the carrier over.
LEMMA AdoptClientKeeps == IInv /\ AdoptClient => IInv'
<1> SUFFICES ASSUME IInv, AdoptClient PROVE IInv'
  OBVIOUS
<1> DEFINE gain == {Role(Here)}
<1>1. /\ Acquire("adopt", gain, {Carrier}, "up", "carrier_close")
      /\ phase = "adopt" /\ roles' = roles /\ Quiet /\ ~Server
  BY DEF AdoptClient, Acquire
<1>2. phase' = "up" \/ phase' = "carrier_close"
  BY <1>1 DEF Acquire
<1>3. /\ Here \in Transports /\ ~Adopted(Here) /\ gain \subseteq Handles
      /\ \A kind \in Kinds, n \in Transports :
           <<kind, n>> \in gain <=> kind = "role" /\ Current(n)
      /\ \A kind \in Kinds, n \in Transports :
           <<kind, n>> \in {Carrier} <=> kind = "carrier" /\ Current(n)
      /\ \A h \in {Carrier} : h[1] = "carrier"
  BY <1>1, HereHandles DEF Working, Phases, Role, Carrier, Kinds
<1> HIDE DEF gain
<1>4. "adopt" \in Working \ {"rollback"} /\ "up" \in Working \cup {"up"} /\ "carrier_close" \in Working
  BY DEF Working, Phases
<1>5. UnclosedKinds \subseteq UnclosedKinds' /\ \A h \in {Carrier} : h[1] \notin UnclosedKinds \cup {"role"}
  BY <1>1, <1>2, <1>3 DEF UnclosedKinds
<1>6. (phase' = "up" => ~Server) /\ (phase' \in Serving => Server)
  BY <1>1, <1>2 DEF IInv, RolesInv, Serving
<1>7. HereHeld'
  BY <1>2 DEF HereHeld, Holding
<1>8. ASSUME NEW kind \in Kinds, NEW n \in Transports
      PROVE  /\ phase' = "carrier_close" => (Expected(kind, n)' <=> Expected(kind, n))
             /\ phase' = "up" => (Expected(kind, n)' <=> \/ Expected(kind, n) /\ <<kind, n>> \notin {Carrier}
                                                         \/ <<kind, n>> \in gain)
  BY <1>1, <1>3, SamePlace DEF IInv, RolesInv, Serving, Expected, Kinds
<1> QED
  BY <1>1, <1>3, <1>4, <1>5, <1>6, <1>7, <1>8, AcquireKeeps

\* The schema registry of a server role.
LEMMA RegistryCreateKeeps == IInv /\ RegistryCreate => IInv'
<1> SUFFICES ASSUME IInv, RegistryCreate PROVE IInv'
  OBVIOUS
<1> DEFINE gain == {Registry}
<1>1. /\ Acquire("adopt", gain, {}, "install", "carrier_close")
      /\ phase = "adopt" /\ roles' = roles /\ Quiet /\ Server
  BY DEF RegistryCreate, Acquire
<1>2. phase' = "install" \/ phase' = "carrier_close"
  BY <1>1 DEF Acquire
<1>3. /\ Here \in Transports /\ ~Adopted(Here) /\ gain \subseteq Handles
      /\ \A kind \in Kinds, n \in Transports :
           <<kind, n>> \in gain <=> kind = "registry" /\ Current(n)
  BY <1>1, HereHandles DEF Working, Phases, Registry, Kinds
<1> HIDE DEF gain
<1>4. "adopt" \in Working \ {"rollback"} /\ "install" \in Working \cup {"up"} /\ "carrier_close" \in Working
  BY DEF Working, Phases
<1>5. UnclosedKinds \subseteq UnclosedKinds'
  BY <1>1, <1>2 DEF UnclosedKinds
<1>6. (phase' = "up" => ~Server) /\ (phase' \in Serving => Server)
  BY <1>1, <1>2 DEF IInv, RolesInv, Serving
<1>7. HereHeld'
  BY <1>1, <1>2, SamePlace DEF Acquire, HereHeld, Holding, Registry, gain, Here
<1>8. ASSUME NEW kind \in Kinds, NEW n \in Transports
      PROVE  /\ phase' = "carrier_close" => (Expected(kind, n)' <=> Expected(kind, n))
             /\ phase' = "install" => (Expected(kind, n)' <=> \/ Expected(kind, n) /\ <<kind, n>> \notin {}
                                                              \/ <<kind, n>> \in gain)
  BY <1>1, <1>3, SamePlace DEF IInv, RolesInv, Serving, Expected, Kinds
<1> QED
  BY <1>1, <1>3, <1>4, <1>5, <1>6, <1>7, <1>8, AcquireKeeps

\* The policy hook is installed.
LEMMA InstallKeeps == IInv /\ Install => IInv'
<1> SUFFICES ASSUME IInv, Install PROVE IInv'
  OBVIOUS
<1> DEFINE gain == IF ask.hook THEN {Dispatcher(Here)} ELSE {}
<1>1. Acquire("install", gain, {}, "bind", "install_failed") /\ phase = "install" /\ roles' = roles /\ Quiet
  BY DEF Install, Acquire
<1>2. phase' = "bind" \/ phase' = "install_failed"
  BY <1>1 DEF Acquire
<1>3. /\ Here \in Transports /\ ~Adopted(Here) /\ gain \subseteq Handles
      /\ \A kind \in Kinds, n \in Transports :
           <<kind, n>> \in gain <=> ask.hook /\ kind = "dispatcher" /\ Current(n)
  BY <1>1, HereHandles DEF Working, Phases, Dispatcher, Kinds
<1> HIDE DEF gain
<1>4. "install" \in Working \ {"rollback"} /\ "bind" \in Working \cup {"up"} /\ "install_failed" \in Working
  BY DEF Working, Phases
<1>5. UnclosedKinds \subseteq UnclosedKinds'
  BY <1>1, <1>2 DEF UnclosedKinds
<1>6. (phase' = "up" => ~Server) /\ (phase' \in Serving => Server)
  BY <1>1, <1>2 DEF IInv, RolesInv, Serving
<1>7. HereHeld'
  BY <1>1, <1>2, SamePlace DEF Acquire, IInv, HereHeld, Holding, Here
<1>8. ASSUME NEW kind \in Kinds, NEW n \in Transports
      PROVE  /\ phase' = "install_failed" => (Expected(kind, n)' <=> Expected(kind, n))
             /\ phase' = "bind" => (Expected(kind, n)' <=> \/ Expected(kind, n) /\ <<kind, n>> \notin {}
                                                           \/ <<kind, n>> \in gain)
  BY <1>1, <1>3, SamePlace DEF IInv, RolesInv, Serving, Expected, Kinds
<1> QED
  BY <1>1, <1>3, <1>4, <1>5, <1>6, <1>7, <1>8, AcquireKeeps

\* The server role takes the carrier over.
LEMMA BindKeeps == IInv /\ Bind => IInv'
<1> SUFFICES ASSUME IInv, Bind PROVE IInv'
  OBVIOUS
<1> DEFINE gain == {Role(Here)}
<1>1. /\ Acquire("bind", gain, {Carrier}, "registry_close", "bind_failed")
      /\ phase = "bind" /\ roles' = roles /\ Quiet
  BY DEF Bind, Acquire
<1>2. phase' = "registry_close" \/ phase' = "bind_failed"
  BY <1>1 DEF Acquire
<1>3. /\ Here \in Transports /\ ~Adopted(Here) /\ gain \subseteq Handles
      /\ \A kind \in Kinds, n \in Transports :
           <<kind, n>> \in gain <=> kind = "role" /\ Current(n)
      /\ \A kind \in Kinds, n \in Transports :
           <<kind, n>> \in {Carrier} <=> kind = "carrier" /\ Current(n)
      /\ \A h \in {Carrier} : h[1] = "carrier"
  BY <1>1, HereHandles DEF Working, Phases, Role, Carrier, Kinds
<1> HIDE DEF gain
<1>4. "bind" \in Working \ {"rollback"} /\ "registry_close" \in Working \cup {"up"} /\ "bind_failed" \in Working
  BY DEF Working, Phases
<1>5. UnclosedKinds \subseteq UnclosedKinds' /\ \A h \in {Carrier} : h[1] \notin UnclosedKinds \cup {"role"}
  BY <1>1, <1>2, <1>3 DEF UnclosedKinds
<1>6. (phase' = "up" => ~Server) /\ (phase' \in Serving => Server)
  BY <1>1, <1>2 DEF IInv, RolesInv, Serving
<1>7. HereHeld'
  BY <1>1, <1>2, SamePlace DEF Acquire, IInv, HereHeld, Holding, Here, Role, Carrier, gain
<1>8. ASSUME NEW kind \in Kinds, NEW n \in Transports
      PROVE  /\ phase' = "bind_failed" => (Expected(kind, n)' <=> Expected(kind, n))
             /\ phase' = "registry_close" => (Expected(kind, n)' <=> \/ Expected(kind, n) /\ <<kind, n>> \notin {Carrier}
                                                                     \/ <<kind, n>> \in gain)
  BY <1>1, <1>3, SamePlace DEF IInv, RolesInv, Serving, Expected, Kinds
<1> QED
  BY <1>1, <1>3, <1>4, <1>5, <1>6, <1>7, <1>8, AcquireKeeps


\* What a native close changes: a handle that is gone, or a failing close, belongs to a start
\* in which some close failed.
LEMMA ReleaseKeeps ==
  ASSUME IInv, NEW at \in Working \ {"rollback"}, NEW next \in Working, NEW bad \in Working,
         NEW other \in Kinds, Release(at, <<other, Here>>, next, bad),
         phase' \in Serving => Server,
         other \notin UnclosedKinds \cup {"role"}, phase' \notin Holding,
         UnclosedKinds \subseteq UnclosedKinds',
         phase' = bad => other \in UnclosedKinds',
         Expected(other, Here) \/ <<other, Here>> \in live,
         \A kind \in Kinds, n \in Transports :
           phase' = next => (Expected(kind, n)' <=> Expected(kind, n) /\ ~(kind = other /\ Current(n)))
  PROVE  IInv'
<1> DEFINE h == <<other, Here>>
<1>1. /\ phase = at /\ roles' = roles /\ Quiet /\ faults' \in 0 .. MaxFaults
      /\ \/ h \in live /\ live' = live \ {h} /\ phase' = next /\ unclosed' = unclosed
         \/ h \notin live /\ phase' = bad /\ live' = live /\ unclosed' = unclosed
         \/ h \in live /\ phase' = bad /\ live' = live /\ unclosed' = unclosed \cup {h}
  BY MetricsAssumption DEF Release, IInv, TypeOK
<1>2. /\ h[1] = other
      /\ \A kind \in Kinds, n \in Transports : <<kind, n>> \in {h} <=> kind = other /\ Current(n)
  BY <1>1, HereHandles
<1> HIDE DEF h
<1>3. live' \subseteq Handles /\ unclosed' \subseteq live' /\ unclosed \subseteq unclosed'
  BY <1>1, <1>2 DEF IInv, TypeOK, UnclosedInv
<1>4. UnclosedInv'
  BY <1>1, <1>2 DEF IInv, UnclosedInv
<1>5. ASSUME unclosed = {}, NEW kind \in Kinds, NEW n \in Transports,
             \A k \in Kinds : <<k, Here>> \in live <=> Expected(k, Here),
             <<kind, n>> \in live <=> Expected(kind, n), unclosed' = {}
      PROVE  <<kind, n>> \in live' <=> Expected(kind, n)'
  <2>1. h \in live
    BY <1>5 DEF h
  <2>2. live' = live \ {h} /\ phase' = next
    BY <1>1, <1>5, <2>1
  <2> QED
    BY <1>2, <1>5, <2>2
<1>6. phase \in Working \ {"rollback"} /\ phase' \in Working /\ phase' # "up"
  BY <1>1 DEF Working
<1>7. unclosed = {} =>
        \A kind \in Kinds, n \in Transports :
          Here \in Transports /\ (\A k \in Kinds : <<k, Here>> \in live <=> Expected(k, Here))
          /\ (<<kind, n>> \in live <=> Expected(kind, n)) /\ unclosed' = {}
            => (<<kind, n>> \in live' <=> Expected(kind, n)')
  BY <1>5
<1>8. \A n : <<"role", n>> \in live => <<"role", n>> \in live'
  <2>1. \A n : <<"role", n>> # h
    BY <1>2
  <2> QED
    BY <1>1, <2>1
<1>9. HereHeld'
  BY DEF HereHeld, Holding
<1> QED
  BY <1>1, <1>3, <1>4, <1>6, <1>7, <1>8, <1>9, CarrierStep

\* The listener is closed when its address cannot be read.
LEMMA ListenerUndoKeeps == IInv /\ ListenerUndo => IInv'
<1> SUFFICES ASSUME IInv, ListenerUndo PROVE IInv'
  OBVIOUS
<1>1. /\ Release("listener_undo", <<"carrier", Here>>, "open_failed", "open_failed")
      /\ phase = "listener_undo" /\ roles' = roles /\ Quiet
  BY DEF ListenerUndo, Release, Carrier
<1>2. phase' = "open_failed"
  BY <1>1 DEF Release
<1>3. Here \in Transports /\ ~Adopted(Here) /\ Current(Here)
  BY <1>1, HereHandles DEF Working, Phases, Current
<1>4. "listener_undo" \in Working \ {"rollback"} /\ "open_failed" \in Working /\ "carrier" \in Kinds
  BY DEF Working, Phases, Kinds
<1>5. /\ "carrier" \notin UnclosedKinds \cup {"role"} /\ UnclosedKinds \subseteq UnclosedKinds'
      /\ phase' = "open_failed" => "carrier" \in UnclosedKinds'
  BY <1>1, <1>2 DEF UnclosedKinds
<1>6. (phase' \in Serving => Server) /\ phase' \notin Holding
  BY <1>1, <1>2 DEF IInv, RolesInv, Serving, Holding
<1>7. Expected("carrier", Here)
  BY <1>1, <1>3 DEF Expected
<1>8. ASSUME NEW kind \in Kinds, NEW n \in Transports, phase' = "open_failed"
      PROVE  Expected(kind, n)' <=> Expected(kind, n) /\ ~(kind = "carrier" /\ Current(n))
  BY <1>1, <1>3, <1>8, SamePlace DEF IInv, RolesInv, Serving, Expected, Kinds
<1> QED
  BY <1>1, <1>4, <1>5, <1>6, <1>7, <1>8, ReleaseKeeps

\* The configuration is closed after the carrier was opened.
LEMMA ConfigCloseCloses == IInv /\ ConfigClose /\ Config \in live => IInv'
<1> SUFFICES ASSUME IInv, ConfigClose, Config \in live PROVE IInv'
  OBVIOUS
<1>1. /\ Release("config_close", <<"config", Here>>, "adopt", "rollback")
      /\ phase = "config_close" /\ roles' = roles /\ Quiet
  BY DEF ConfigClose, Release, Config, Skip
<1>2. phase' = "adopt" \/ phase' = "rollback"
  BY <1>1 DEF Release
<1>3. Here \in Transports /\ ~Adopted(Here) /\ Current(Here)
  BY <1>1, HereHandles DEF Working, Phases, Current
<1>4. /\ "config_close" \in Working \ {"rollback"} /\ "adopt" \in Working
      /\ "rollback" \in Working /\ "config" \in Kinds
  BY DEF Working, Phases, Kinds
<1>5. /\ "config" \notin UnclosedKinds \cup {"role"} /\ UnclosedKinds \subseteq UnclosedKinds'
      /\ phase' = "rollback" => "config" \in UnclosedKinds'
  BY <1>1, <1>2 DEF UnclosedKinds
<1>6. (phase' \in Serving => Server) /\ phase' \notin Holding
  BY <1>1, <1>2 DEF IInv, RolesInv, Serving, Holding
<1>7. <<"config", Here>> \in live
  BY DEF Config
<1>8. ASSUME NEW kind \in Kinds, NEW n \in Transports, phase' = "adopt"
      PROVE  Expected(kind, n)' <=> Expected(kind, n) /\ ~(kind = "config" /\ Current(n))
  BY <1>1, <1>3, <1>8, SamePlace DEF IInv, RolesInv, Serving, Expected, Kinds
<1> QED
  BY <1>1, <1>4, <1>5, <1>6, <1>7, <1>8, ReleaseKeeps

\* It is closed, too, when the carrier was not opened.
LEMMA OpenFailedCloses == IInv /\ OpenFailed /\ Config \in live => IInv'
<1> SUFFICES ASSUME IInv, OpenFailed, Config \in live PROVE IInv'
  OBVIOUS
<1>1. /\ Release("open_failed", <<"config", Here>>, "rollback", "rollback")
      /\ phase = "open_failed" /\ roles' = roles /\ Quiet
  BY DEF OpenFailed, Release, Config, Skip
<1>2. phase' = "rollback"
  BY <1>1 DEF Release
<1>3. Here \in Transports /\ ~Adopted(Here) /\ Current(Here)
  BY <1>1, HereHandles DEF Working, Phases, Current
<1>4. "open_failed" \in Working \ {"rollback"} /\ "rollback" \in Working /\ "config" \in Kinds
  BY DEF Working, Phases, Kinds
<1>5. /\ "config" \notin UnclosedKinds \cup {"role"} /\ UnclosedKinds \subseteq UnclosedKinds'
      /\ phase' = "rollback" => "config" \in UnclosedKinds'
  BY <1>1, <1>2 DEF UnclosedKinds
<1>6. (phase' \in Serving => Server) /\ phase' \notin Holding
  BY <1>1, <1>2 DEF IInv, RolesInv, Serving, Holding
<1>7. <<"config", Here>> \in live
  BY DEF Config
<1>8. ASSUME NEW kind \in Kinds, NEW n \in Transports, phase' = "rollback"
      PROVE  Expected(kind, n)' <=> Expected(kind, n) /\ ~(kind = "config" /\ Current(n))
  BY <1>1, <1>3, <1>8, SamePlace DEF IInv, RolesInv, Serving, Expected, Kinds
<1> QED
  BY <1>1, <1>4, <1>5, <1>6, <1>7, <1>8, ReleaseKeeps

\* The registry is closed when the hook was refused.
LEMMA InstallFailedKeeps == IInv /\ InstallFailed => IInv'
<1> SUFFICES ASSUME IInv, InstallFailed PROVE IInv'
  OBVIOUS
<1>1. /\ Release("install_failed", <<"registry", Here>>, "carrier_close", "carrier_close")
      /\ phase = "install_failed" /\ roles' = roles /\ Quiet
  BY DEF InstallFailed, Release, Registry
<1>2. phase' = "carrier_close"
  BY <1>1 DEF Release
<1>3. Here \in Transports /\ ~Adopted(Here) /\ Current(Here)
  BY <1>1, HereHandles DEF Working, Phases, Current
<1>4. "install_failed" \in Working \ {"rollback"} /\ "carrier_close" \in Working /\ "registry" \in Kinds
  BY DEF Working, Phases, Kinds
<1>5. /\ "registry" \notin UnclosedKinds \cup {"role"} /\ UnclosedKinds \subseteq UnclosedKinds'
      /\ phase' = "carrier_close" => "registry" \in UnclosedKinds'
  BY <1>1, <1>2 DEF UnclosedKinds
<1>6. (phase' \in Serving => Server) /\ phase' \notin Holding
  BY <1>1, <1>2 DEF IInv, RolesInv, Serving, Holding
<1>7. Expected("registry", Here)
  BY <1>1, <1>3 DEF Expected
<1>8. ASSUME NEW kind \in Kinds, NEW n \in Transports, phase' = "carrier_close"
      PROVE  Expected(kind, n)' <=> Expected(kind, n) /\ ~(kind = "registry" /\ Current(n))
  BY <1>1, <1>3, <1>8, SamePlace DEF IInv, RolesInv, Serving, Expected, Kinds
<1> QED
  BY <1>1, <1>4, <1>5, <1>6, <1>7, <1>8, ReleaseKeeps

\* The registry is closed when the bind was refused.
LEMMA BindFailedKeeps == IInv /\ BindFailed => IInv'
<1> SUFFICES ASSUME IInv, BindFailed PROVE IInv'
  OBVIOUS
<1>1. /\ Release("bind_failed", <<"registry", Here>>, "dispatcher_close", "carrier_close")
      /\ phase = "bind_failed" /\ roles' = roles /\ Quiet
  BY DEF BindFailed, Release, Registry
<1>2. phase' = "dispatcher_close" \/ phase' = "carrier_close"
  BY <1>1 DEF Release
<1>3. Here \in Transports /\ ~Adopted(Here) /\ Current(Here)
  BY <1>1, HereHandles DEF Working, Phases, Current
<1>4. /\ "bind_failed" \in Working \ {"rollback"} /\ "dispatcher_close" \in Working
      /\ "carrier_close" \in Working /\ "registry" \in Kinds
  BY DEF Working, Phases, Kinds
<1>5. /\ "registry" \notin UnclosedKinds \cup {"role"} /\ UnclosedKinds \subseteq UnclosedKinds'
      /\ phase' = "carrier_close" => "registry" \in UnclosedKinds'
  BY <1>1, <1>2 DEF UnclosedKinds
<1>6. (phase' \in Serving => Server) /\ phase' \notin Holding
  BY <1>1, <1>2 DEF IInv, RolesInv, Serving, Holding
<1>7. Expected("registry", Here)
  BY <1>1, <1>3 DEF Expected
<1>8. ASSUME NEW kind \in Kinds, NEW n \in Transports, phase' = "dispatcher_close"
      PROVE  Expected(kind, n)' <=> Expected(kind, n) /\ ~(kind = "registry" /\ Current(n))
  BY <1>1, <1>3, <1>8, SamePlace DEF IInv, RolesInv, Serving, Expected, Kinds
<1> QED
  BY <1>1, <1>4, <1>5, <1>6, <1>7, <1>8, ReleaseKeeps

\* The carrier is closed when its adoption failed.
LEMMA CarrierCloseKeeps == IInv /\ CarrierClose => IInv'
<1> SUFFICES ASSUME IInv, CarrierClose PROVE IInv'
  OBVIOUS
<1>1. /\ Release("carrier_close", <<"carrier", Here>>, "rollback", "rollback")
      /\ phase = "carrier_close" /\ roles' = roles /\ Quiet
  BY DEF CarrierClose, Release, Carrier
<1>2. phase' = "rollback"
  BY <1>1 DEF Release
<1>3. Here \in Transports /\ ~Adopted(Here) /\ Current(Here)
  BY <1>1, HereHandles DEF Working, Phases, Current
<1>4. "carrier_close" \in Working \ {"rollback"} /\ "rollback" \in Working /\ "carrier" \in Kinds
  BY DEF Working, Phases, Kinds
<1>5. /\ "carrier" \notin UnclosedKinds \cup {"role"} /\ UnclosedKinds \subseteq UnclosedKinds'
      /\ phase' = "rollback" => "carrier" \in UnclosedKinds'
  BY <1>1, <1>2 DEF UnclosedKinds
<1>6. (phase' \in Serving => Server) /\ phase' \notin Holding
  BY <1>1, <1>2 DEF IInv, RolesInv, Serving, Holding
<1>7. Expected("carrier", Here)
  BY <1>1, <1>3 DEF Expected
<1>8. ASSUME NEW kind \in Kinds, NEW n \in Transports, phase' = "rollback"
      PROVE  Expected(kind, n)' <=> Expected(kind, n) /\ ~(kind = "carrier" /\ Current(n))
  BY <1>1, <1>3, <1>8, SamePlace DEF IInv, RolesInv, Serving, Expected, Kinds
<1> QED
  BY <1>1, <1>4, <1>5, <1>6, <1>7, <1>8, ReleaseKeeps

\* A step that only moves on.
LEMMA SkipKeeps ==
  ASSUME IInv, NEW at \in Working \ {"rollback"}, NEW next \in Working \ Holding, Skip(at, next),
         phase' \in Serving => Server, UnclosedKinds \subseteq UnclosedKinds',
         unclosed = {} => \A kind \in Kinds, n \in Transports : Expected(kind, n)' <=> Expected(kind, n)
  PROVE  IInv'
<1>1. /\ phase = at /\ phase' = next /\ roles' = roles /\ live' = live /\ unclosed' = unclosed /\ faults' = faults
      /\ Quiet
  BY DEF Skip
<1>2. /\ faults' \in 0 .. MaxFaults /\ live' \subseteq Handles /\ unclosed' \subseteq live' /\ UnclosedInv'
      /\ phase' \in Working /\ phase' # "up"
  BY <1>1 DEF IInv, TypeOK, UnclosedInv, Working
<1>3. HereHeld'
  BY <1>1 DEF HereHeld, Holding
<1> QED
  BY <1>1, <1>2, <1>3, CarrierStep

\* The security configuration, where the route has one.
LEMMA ConfigCreateKeeps == IInv /\ ConfigCreate => IInv'
<1> SUFFICES ASSUME IInv, ConfigCreate PROVE IInv'
  OBVIOUS
<1> DEFINE gain == {Config}
<1>1. phase = "config" /\ roles' = roles /\ Quiet
  BY DEF ConfigCreate, Acquire, Skip
<1>2. /\ Here \in Transports /\ ~Adopted(Here) /\ gain \subseteq Handles
      /\ \A kind \in Kinds, n \in Transports :
           <<kind, n>> \in gain <=> kind = "config" /\ Current(n)
  BY <1>1, HereHandles DEF Working, Phases, Config, Kinds
<1>3. "config" \in Working \ {"rollback"} /\ "open" \in Working \cup {"up"} /\ "rollback" \in Working
  BY DEF Working, Phases
<1>4. CASE RouteOf(ask, Here).security
  <2>1. Acquire("config", gain, {}, "open", "rollback")
    BY <1>1, <1>4 DEF ConfigCreate
  <2>2. phase' = "open" \/ phase' = "rollback"
    BY <2>1 DEF Acquire
  <2> HIDE DEF gain
  <2>3. UnclosedKinds \subseteq UnclosedKinds'
    BY <1>1, <2>2 DEF UnclosedKinds
  <2>4. phase' # "up" /\ phase' \notin Serving /\ HereHeld'
    BY <2>2 DEF Serving, HereHeld, Holding
  <2>5. ASSUME NEW kind \in Kinds, NEW n \in Transports
        PROVE  /\ phase' = "rollback" => (Expected(kind, n)' <=> Expected(kind, n))
               /\ phase' = "open" => (Expected(kind, n)' <=> \/ Expected(kind, n) /\ <<kind, n>> \notin {}
                                                             \/ <<kind, n>> \in gain)
    BY <1>1, <1>2, <1>4, SamePlace DEF Expected, Kinds, Current
  <2> QED
    BY <1>2, <1>3, <2>1, <2>3, <2>4, <2>5, AcquireKeeps
<1>5. CASE ~RouteOf(ask, Here).security
  <2>1. Skip("config", "open") /\ phase' = "open"
    BY <1>1, <1>5 DEF ConfigCreate, Skip
  <2>2. UnclosedKinds \subseteq UnclosedKinds' /\ phase' \notin Serving /\ "open" \in Working \ Holding
    BY <1>1, <2>1 DEF UnclosedKinds, Serving, Working, Phases, Holding
  <2>3. ASSUME NEW kind \in Kinds, NEW n \in Transports PROVE Expected(kind, n)' <=> Expected(kind, n)
    BY <1>1, <1>5, <2>1, SamePlace DEF Expected, Kinds, Current
  <2> QED
    BY <1>3, <2>1, <2>2, <2>3, SkipKeeps
<1> QED
  BY <1>4, <1>5

\* Without a configuration to close, the step only moves on.
LEMMA NoConfigKeeps ==
  ASSUME IInv, NEW next \in {"adopt", "rollback"},
         \/ phase = "config_close" /\ next = "adopt"
         \/ phase = "open_failed" /\ next = "rollback",
         Config \notin live, Skip(phase, next)
  PROVE  IInv'
<1>1. phase \in Working \ {"rollback"} /\ next \in Working \ Holding /\ phase' = next /\ roles' = roles /\ Quiet
  BY DEF Skip, Working, Phases, Holding
<1>2. phase' \notin Serving /\ UnclosedKinds \subseteq UnclosedKinds'
  BY <1>1 DEF Serving, UnclosedKinds
<1>3. ASSUME unclosed = {}, NEW kind \in Kinds, NEW n \in Transports
      PROVE  Expected(kind, n)' <=> Expected(kind, n)
  <2>1. ~Expected("config", Here)
    BY <1>1, <1>3, HereHandles DEF IInv, LiveInv, Config, Kinds
  <2>2. ~RouteOf(ask, Here).security
    BY <2>1 DEF Expected, Current
  <2> QED
    BY <1>1, <2>2, SamePlace DEF Expected, Kinds, Current
<1> QED
  BY <1>1, <1>2, <1>3, SkipKeeps

\* The finally of _connect and _listen, both ways.
LEMMA ConfigCloseKeeps == IInv /\ ConfigClose => IInv'
<1> SUFFICES ASSUME IInv, ConfigClose PROVE IInv'
  OBVIOUS
<1>1. CASE Config \in live
  BY <1>1, ConfigCloseCloses
<1>2. CASE Config \notin live
  <2>1. Skip("config_close", "adopt") /\ phase = "config_close"
    BY <1>2 DEF ConfigClose, Skip
  <2> QED
    BY <1>2, <2>1, NoConfigKeeps
<1> QED
  BY <1>1, <1>2

\* The same after a carrier that was not opened.
LEMMA OpenFailedKeeps == IInv /\ OpenFailed => IInv'
<1> SUFFICES ASSUME IInv, OpenFailed PROVE IInv'
  OBVIOUS
<1>1. CASE Config \in live
  BY <1>1, OpenFailedCloses
<1>2. CASE Config \notin live
  <2>1. Skip("open_failed", "rollback") /\ phase = "open_failed"
    BY <1>2 DEF OpenFailed, Skip
  <2> QED
    BY <1>2, <2>1, NoConfigKeeps
<1> QED
  BY <1>1, <1>2

\* The buffer is returned after it was read.
LEMMA EndpointReleaseKeeps ==
  IInv /\ Release("endpoint_release", <<"buffer", Here>>, "config_close", "listener_undo") => IInv'
<1> SUFFICES ASSUME IInv, Release("endpoint_release", <<"buffer", Here>>, "config_close", "listener_undo") PROVE IInv'
  OBVIOUS
<1>1. phase = "endpoint_release" /\ roles' = roles /\ Quiet
  BY DEF Release
<1>2. phase' = "config_close" \/ phase' = "listener_undo"
  BY DEF Release
<1>3. Here \in Transports /\ ~Adopted(Here) /\ Current(Here)
  BY <1>1, HereHandles DEF Working, Phases, Current
<1>4. /\ "endpoint_release" \in Working \ {"rollback"} /\ "config_close" \in Working
      /\ "listener_undo" \in Working /\ "buffer" \in Kinds
  BY DEF Working, Phases, Kinds
<1>5. /\ "buffer" \notin UnclosedKinds \cup {"role"} /\ UnclosedKinds \subseteq UnclosedKinds'
      /\ phase' = "listener_undo" => "buffer" \in UnclosedKinds'
  BY <1>1, <1>2 DEF UnclosedKinds
<1>6. (phase' \in Serving => Server) /\ phase' \notin Holding
  BY <1>1, <1>2 DEF IInv, RolesInv, Serving, Holding
<1>7. Expected("buffer", Here)
  BY <1>1, <1>3 DEF Expected
<1>8. ASSUME NEW kind \in Kinds, NEW n \in Transports, phase' = "config_close"
      PROVE  Expected(kind, n)' <=> Expected(kind, n) /\ ~(kind = "buffer" /\ Current(n))
  BY <1>1, <1>3, <1>8, SamePlace DEF IInv, RolesInv, Serving, Expected, Kinds
<1> QED
  BY <1>4, <1>5, <1>6, <1>7, <1>8, ReleaseKeeps

\* A handle of the transport being opened is gone, whatever its close said.
LEMMA DropKeeps ==
  ASSUME IInv, Quiet, roles' = roles, phase \in Working \ {"rollback"}, phase' \in Working,
         phase' \in Serving => Server, faults' \in 0 .. MaxFaults,
         NEW other \in Kinds, live' = live \ {<<other, Here>>}, unclosed' = unclosed,
         other \notin UnclosedKinds \cup {"role"}, phase' \notin Holding,
         UnclosedKinds \subseteq UnclosedKinds',
         \A kind \in Kinds, n \in Transports :
           Expected(kind, n)' <=> Expected(kind, n) /\ ~(kind = other /\ Current(n))
  PROVE  IInv'
<1> DEFINE h == <<other, Here>>
<1>1. live' = live \ {h}
  OBVIOUS
<1>2. /\ h[1] = other
      /\ \A kind \in Kinds, n \in Transports : <<kind, n>> \in {h} <=> kind = other /\ Current(n)
  BY HereHandles
<1> HIDE DEF h
<1>3. live' \subseteq Handles /\ unclosed' \subseteq live' /\ unclosed \subseteq unclosed' /\ UnclosedInv'
  BY <1>1, <1>2 DEF IInv, TypeOK, UnclosedInv
<1>4. phase' # "up"
  BY DEF Working
<1>5. \A kind \in Kinds, n \in Transports :
        (<<kind, n>> \in live <=> Expected(kind, n)) => (<<kind, n>> \in live' <=> Expected(kind, n)')
  BY <1>1, <1>2
<1>6. \A n : <<"role", n>> \in live => <<"role", n>> \in live'
  BY <1>1, <1>2
<1>7. HereHeld'
  BY DEF HereHeld, Holding
<1> QED
  BY <1>3, <1>4, <1>5, <1>6, <1>7, CarrierStep

\* The address is read, or the read fails after the buffer was returned.
LEMMA EndpointReadKeeps == IInv /\ EndpointRead => IInv'
<1> SUFFICES ASSUME IInv, EndpointRead PROVE IInv'
  OBVIOUS
<1>1. CASE Release("endpoint_release", <<"buffer", Here>>, "config_close", "listener_undo")
  BY <1>1, EndpointReleaseKeeps
<1>2. CASE /\ faults < MaxFaults /\ phase = "endpoint_release"
           /\ live' = live \ {<<"buffer", Here>>}
           /\ phase' = "listener_undo" /\ faults' = faults + 1
           /\ UNCHANGED <<roles, unclosed>> /\ Quiet
  <2>1. /\ Quiet /\ roles' = roles /\ phase = "endpoint_release" /\ phase' = "listener_undo"
        /\ live' = live \ {<<"buffer", Here>>} /\ unclosed' = unclosed /\ faults' \in 0 .. MaxFaults
    BY <1>2, MetricsAssumption DEF IInv, TypeOK
  <2>2. Here \in Transports /\ ~Adopted(Here) /\ Current(Here)
    BY <2>1, HereHandles DEF Working, Phases, Current
  <2>3. phase \in Working \ {"rollback"} /\ phase' \in Working /\ "buffer" \in Kinds
    BY <2>1 DEF Working, Phases, Kinds
  <2>4. /\ "buffer" \notin UnclosedKinds \cup {"role"} /\ UnclosedKinds \subseteq UnclosedKinds'
        /\ (phase' \in Serving => Server) /\ phase' \notin Holding
    BY <2>1 DEF UnclosedKinds, IInv, RolesInv, Serving, Holding
  <2>5. ASSUME NEW kind \in Kinds, NEW n \in Transports
        PROVE  Expected(kind, n)' <=> Expected(kind, n) /\ ~(kind = "buffer" /\ Current(n))
    BY <2>1, <2>2, SamePlace DEF Expected, Kinds
  <2> QED
    BY <2>1, <2>3, <2>4, <2>5, DropKeeps
<1> QED
  BY <1>1, <1>2 DEF EndpointRead

\* The dispatcher of a refused bind is closed.
LEMMA DispatcherCloseKeeps == IInv /\ DispatcherClose => IInv'
<1> SUFFICES ASSUME IInv, DispatcherClose PROVE IInv'
  OBVIOUS
<1>1. /\ Quiet /\ roles' = roles /\ phase = "dispatcher_close" /\ phase' = "carrier_close"
      /\ live' = live \ {<<"dispatcher", Here>>} /\ unclosed' = unclosed /\ faults' \in 0 .. MaxFaults
  BY DEF DispatcherClose, Dispatcher, IInv, TypeOK
<1>2. Here \in Transports /\ ~Adopted(Here) /\ Current(Here)
  BY <1>1, HereHandles DEF Working, Phases, Current
<1>3. phase \in Working \ {"rollback"} /\ phase' \in Working /\ "dispatcher" \in Kinds
  BY <1>1 DEF Working, Phases, Kinds
<1>4. /\ "dispatcher" \notin UnclosedKinds \cup {"role"} /\ UnclosedKinds \subseteq UnclosedKinds'
      /\ phase' \notin Serving /\ phase' \notin Holding
  BY <1>1 DEF UnclosedKinds, Serving, Holding
<1>5. ASSUME NEW kind \in Kinds, NEW n \in Transports
      PROVE  Expected(kind, n)' <=> Expected(kind, n) /\ ~(kind = "dispatcher" /\ Current(n))
  BY <1>1, <1>2, SamePlace DEF Expected, Kinds, Current
<1> QED
  BY <1>1, <1>3, <1>4, <1>5, DropKeeps

\* The registry is closed: the role counts as adopted, or the start fails with the role bound.
LEMMA RegistryCloseKeeps == IInv /\ RegistryClose => IInv'
<1> SUFFICES ASSUME IInv, RegistryClose PROVE IInv'
  OBVIOUS
<1>1. phase = "registry_close" /\ Quiet /\ phase \in Working \ {"rollback"} /\ Server
  BY DEF RegistryClose, Working, Phases, IInv, RolesInv, Serving
<1>2. /\ Here \in Transports /\ ~Adopted(Here) /\ Current(Here)
      /\ Len(roles) \in Nat /\ Len(routes) \in Nat /\ Len(roles) < Len(routes)
      /\ DOMAIN roles = 1 .. Len(roles) /\ roles \in Seq(Transports)
  BY <1>1, HereHandles, HereIs DEF Current, IInv, RolesInv, TypeOK
<1>3. \A kind \in Kinds, n \in Transports :
        <<kind, n>> \in {Registry} <=> kind = "registry" /\ Current(n)
  BY DEF Registry, Current
<1>4. CASE /\ live' = live \ {Registry}
           /\ roles' = Append(roles, Here)
           /\ phase' = IF Len(roles) + 1 = Len(routes) THEN "up" ELSE "config"
           /\ UNCHANGED <<faults, unclosed>>
  <2>1. phase' = "up" \/ phase' = "config"
    BY <1>4
  <2>2. /\ phase' = "up" => Len(roles) + 1 = Len(routes)
        /\ phase' = "config" => Len(roles) + 1 < Len(routes)
    BY <1>2, <1>4
  <2>3. /\ roles' \in Seq(Transports) /\ Len(roles') = Len(roles) + 1
        /\ DOMAIN roles' = 1 .. (Len(roles) + 1) /\ roles'[Len(roles) + 1] = Here
        /\ \A i \in 1 .. Len(roles) : roles'[i] = roles[i]
    <3>1. /\ Append(roles, Here) \in Seq(Transports) /\ Len(Append(roles, Here)) = Len(roles) + 1
          /\ \A i \in 1 .. Len(roles) : Append(roles, Here)[i] = roles[i]
          /\ Append(roles, Here)[Len(roles) + 1] = Here
      BY <1>2, AppendProperties
    <3>2. DOMAIN Append(roles, Here) = 1 .. (Len(roles) + 1)
      BY <3>1, LenProperties
    <3> QED
      BY <1>4, <3>1, <3>2
  <2>4. /\ routes' = routes /\ ask' = ask /\ (Server' <=> Server) /\ unclosed' = unclosed /\ faults' = faults
        /\ live' = live \ {Registry}
    BY <1>1, <1>4 DEF Quiet, Server
  <2>5. AskInv' /\ RouteInv'
    BY <1>1, <2>1, QuietKeeps DEF Selecting, Phases
  <2>6. \A h \in unclosed : h # Registry
    <3>1. "registry" \notin UnclosedKinds
      BY <1>1 DEF UnclosedKinds
    <3>2. Registry[1] = "registry"
      BY DEF Registry
    <3> QED
      BY <3>1, <3>2 DEF IInv, UnclosedInv
  <2>7. TypeOK'
    BY <1>1, <2>1, <2>3, <2>4, <2>6 DEF IInv, TypeOK, Quiet, Phases
  <2>8. RolesInv'
    <3>1. \A i \in 1 .. (Len(roles) + 1) : i \in 1 .. Len(roles) \/ i = Len(roles) + 1
      BY <1>2
    <3>2. \A i \in DOMAIN roles' : roles'[i] = routes'[i]
      BY <1>2, <2>3, <2>4, <3>1 DEF IInv, RolesInv, Here
    <3>3. Len(roles') <= Len(routes') /\ (phase' = "config" => Len(roles') < Len(routes'))
      BY <1>2, <2>2, <2>3, <2>4
    <3> QED
      BY <1>1, <2>1, <2>2, <2>3, <2>4, <3>2, <3>3 DEF RolesInv, Serving, Working
  <2>9. UnclosedInv'
    <3>1. UnclosedKinds \subseteq UnclosedKinds'
      BY <1>1, <2>1 DEF UnclosedKinds
    <3> QED
      BY <2>4, <3>1 DEF IInv, UnclosedInv
  <2>10. \A n \in Transports : Adopted(n)' <=> Adopted(n) \/ Current(n)
    <3>1. \A i : i \in 1 .. (Len(roles) + 1) <=> i \in 1 .. Len(roles) \/ i = Len(roles) + 1
      BY <1>2
    <3> QED
      BY <2>3, <2>4, <3>1 DEF Adopted, Current, Here
  <2>11. LiveInv'
    <3>1. ASSUME unclosed = {}, NEW kind \in Kinds, NEW n \in Transports
          PROVE  <<kind, n>> \in live' <=> Expected(kind, n)'
      <4>1. <<kind, n>> \in live <=> Expected(kind, n)
        BY <3>1 DEF IInv, LiveInv
      <4>2. Expected(kind, n)' <=> Expected(kind, n) /\ ~(kind = "registry" /\ Current(n))
        BY <1>1, <1>2, <2>1, <2>4, <2>10 DEF Expected, Kinds
      <4> QED
        BY <1>3, <2>4, <4>1, <4>2
    <3> QED
      BY <2>4, <3>1 DEF LiveInv
  <2>12. FailedInv' /\ HereHeld'
    BY <2>1 DEF FailedInv, HereHeld, Holding
  <2>13. RolesHeld'
    <3>1. <<"role", Here>> \in live /\ \A i \in 1 .. Len(roles) : <<"role", roles[i]>> \in live
      BY <1>1, <1>2 DEF IInv, RolesHeld, HereHeld
    <3>2. \A n : <<"role", n>> # Registry
      BY DEF Registry
    <3>3. \A i \in 1 .. (Len(roles) + 1) : i \in 1 .. Len(roles) \/ i = Len(roles) + 1
      BY <1>2
    <3> QED
      BY <2>3, <2>4, <3>1, <3>2, <3>3 DEF RolesHeld
  <2> QED
    BY <2>5, <2>7, <2>8, <2>9, <2>11, <2>12, <2>13 DEF IInv
<1>5. CASE /\ faults < MaxFaults
           /\ faults' = faults + 1 /\ unclosed' = unclosed \cup {Registry}
           /\ phase' = "carrier_close" /\ UNCHANGED <<roles, live>>
  <2>1. Registry \in live /\ Registry[1] = "registry"
    BY <1>1 DEF IInv, HereHeld, Holding, Registry
  <2>2. /\ live' \subseteq Handles /\ unclosed' \subseteq live' /\ unclosed \subseteq unclosed'
        /\ unclosed' # {} /\ faults' \in 0 .. MaxFaults /\ roles' = roles
    BY <1>5, <2>1, MetricsAssumption DEF IInv, TypeOK
  <2>3. UnclosedInv'
    <3>1. UnclosedKinds \subseteq UnclosedKinds' /\ "registry" \in UnclosedKinds'
      BY <1>1, <1>5 DEF UnclosedKinds
    <3> QED
      BY <1>5, <2>1, <3>1 DEF IInv, UnclosedInv
  <2>4. phase' \in Working /\ phase' # "up" /\ phase' \notin Serving /\ HereHeld'
    BY <1>5 DEF Working, Phases, Serving, HereHeld, Holding
  <2> QED
    BY <1>1, <1>5, <2>2, <2>3, <2>4, CarrierStep
<1> QED
  BY <1>4, <1>5 DEF RegistryClose

\* The newest role is closed, the loop ends, or there is none left.
LEMMA RollbackKeeps == IInv /\ Rollback => IInv'
<1> SUFFICES ASSUME IInv, Rollback PROVE IInv'
  OBVIOUS
<1>1. /\ phase = "rollback" /\ Quiet /\ phase' \in {"rollback", "failed"}
      /\ roles \in Seq(Transports) /\ Len(roles) \in Nat /\ DOMAIN roles = 1 .. Len(roles)
      /\ Len(routes) \in Nat
  BY HereIs DEF Rollback, IInv, TypeOK
<1>2. /\ routes' = routes /\ ask' = ask /\ (Server' <=> Server) /\ todo' = todo /\ obs' = obs
  BY <1>1 DEF Quiet, Server
<1>3. AskInv' /\ RouteInv'
  BY <1>1, QuietKeeps DEF Selecting, Phases
<1>4. phase' \notin Working \ {"rollback"} /\ phase' \notin Serving /\ phase' # "up" /\ HereHeld'
  BY <1>1 DEF Working, Phases, Serving, HereHeld, Holding
<1>5. \A kind \in Kinds, n \in Transports :
        /\ Expected(kind, n) <=> Adopted(n) /\ (kind = "role" \/ (kind = "dispatcher" /\ Server /\ ask.hook))
        /\ Expected(kind, n)' <=> Adopted(n)' /\ (kind = "role" \/ (kind = "dispatcher" /\ Server /\ ask.hook))
  BY <1>1, <1>2 DEF Expected, Kinds
<1>6. UnclosedKinds \subseteq UnclosedKinds' /\ (phase' = "failed" => "role" \in UnclosedKinds')
  BY <1>1 DEF UnclosedKinds
<1>7. "role" \notin UnclosedKinds /\ "dispatcher" \notin UnclosedKinds
  BY <1>1 DEF UnclosedKinds
<1>8. CASE roles = <<>> /\ phase' = "failed" /\ UNCHANGED <<roles, live, faults, unclosed>>
  <2>1. TypeOK' /\ RolesInv' /\ UnclosedInv' /\ FailedInv' /\ RolesHeld'
    BY <1>1, <1>2, <1>4, <1>6, <1>8
       DEF IInv, TypeOK, Phases, RolesInv, UnclosedInv, FailedInv, RolesHeld
  <2>2. \A n : Adopted(n)' <=> Adopted(n)
    BY <1>2, <1>8 DEF Adopted
  <2>3. LiveInv'
    BY <1>5, <1>8, <2>2 DEF IInv, LiveInv
  <2> QED
    BY <1>3, <1>4, <2>1, <2>3 DEF IInv
<1>9. CASE roles # <<>> /\ phase' \in {"rollback", "failed"} /\ ~(roles = <<>> /\ phase' = "failed")
  <2> DEFINE k == Len(roles)
             m == roles[Len(roles)]
  <2>1. /\ k \in Nat /\ k > 0 /\ k <= Len(routes) /\ m \in Transports /\ m = routes[k]
        /\ m = roles[k] /\ k \in 1 .. k
    <3>1. k \in Nat /\ k # 0 /\ k <= Len(routes)
      BY <1>1, <1>9, EmptySeq DEF IInv, RolesInv
    <3>2. k \in 1 .. k
      BY <3>1
    <3> QED
      BY <1>1, <3>1, <3>2, ElementOfSeq DEF IInv, RolesInv
  <2>2. <<"role", m>> \in live
    BY <1>1, <2>1 DEF IInv, RolesHeld
  <2>3. /\ \A kind \in Kinds, n \in Transports : <<kind, n>> = Role(m) <=> kind = "role" /\ n = m
        /\ \A kind \in Kinds, n \in Transports : <<kind, n>> = Dispatcher(m) <=> kind = "dispatcher" /\ n = m
        /\ Role(m)[1] = "role" /\ Dispatcher(m)[1] = "dispatcher" /\ Role(m) = <<"role", m>>
        /\ \A n : <<"role", n>> # Dispatcher(m) /\ (<<"role", n>> = Role(m) <=> n = m)
    BY DEF Role, Dispatcher
  <2>4. \A h \in unclosed : h # Role(m) /\ h # Dispatcher(m)
    BY <1>7, <2>3 DEF IInv, UnclosedInv
  <2>5. CASE /\ live' = live \ {Role(m), Dispatcher(m)}
             /\ roles' = SubSeq(roles, 1, Len(roles) - 1)
             /\ UNCHANGED <<phase, faults, unclosed>>
    <3>1. /\ roles' \in Seq(Transports) /\ Len(roles') = k - 1 /\ DOMAIN roles' = 1 .. (k - 1)
          /\ \A i \in 1 .. (k - 1) : roles'[i] = roles[i]
      <4>1. 1 .. (k - 1) \subseteq 1 .. k /\ k - 1 \in Nat
        BY <2>1
      <4>2. /\ roles' \in Seq(Transports) /\ Len(roles') = k - 1
            /\ \A i \in 1 .. (k - 1) : roles'[i] = roles[i]
        BY <1>1, <2>1, <2>5, <4>1, SplitAt, SubSeqProperties
      <4> QED
        BY <4>2, LenProperties
    <3>2. ASSUME NEW i \in 1 .. (k - 1) PROVE i \in 1 .. k /\ i # k /\ roles[i] = routes[i] /\ roles[i] # m
      <4>1. i \in 1 .. k /\ i # k /\ i \in 1 .. Len(routes) /\ k \in 1 .. Len(routes)
        <5> HIDE DEF k
        <5> QED
          BY <1>1, <2>1, <3>2
      <4>2. roles[i] = routes[i]
        BY <1>1, <4>1 DEF IInv, RolesInv
      <4> QED
        BY <2>1, <4>1, <4>2, RoutesOpened DEF IInv
    <3>3. \A n \in Transports : Adopted(n)' <=> Adopted(n) /\ n # m
      <4>1. \A i : i \in 1 .. k <=> i \in 1 .. (k - 1) \/ i = k
        BY <2>1
      <4> QED
        BY <1>2, <2>1, <3>1, <3>2, <4>1 DEF Adopted
    <3> HIDE DEF m, k
    <3>4. TypeOK'
      BY <1>1, <1>2, <2>4, <2>5, <3>1 DEF IInv, TypeOK
    <3>5. RolesInv'
      <4>1. Server
        BY <1>9 DEF IInv, RolesInv
      <4> QED
        BY <1>1, <1>2, <1>4, <2>1, <3>1, <3>2, <4>1 DEF RolesInv
    <3>6. UnclosedInv' /\ FailedInv'
      BY <1>1, <1>6, <2>5 DEF IInv, UnclosedInv, FailedInv
    <3>7. LiveInv'
      BY <1>5, <2>3, <2>5, <3>3 DEF IInv, LiveInv
    <3>8. RolesHeld'
      BY <1>1, <2>3, <2>5, <3>1, <3>2 DEF IInv, RolesHeld
    <3> QED
      BY <1>3, <1>4, <3>4, <3>5, <3>6, <3>7, <3>8 DEF IInv
  <2>6. CASE /\ faults < MaxFaults
             /\ faults' = faults + 1 /\ unclosed' = unclosed \cup {Role(m)}
             /\ live' = live \ {Dispatcher(m)}
             /\ phase' = "failed" /\ UNCHANGED roles
    <3>1. Role(m) \in live'
      BY <2>2, <2>3, <2>6
    <3> HIDE DEF m
    <3>2. TypeOK'
      BY <1>1, <1>2, <2>4, <2>6, <3>1, MetricsAssumption DEF IInv, TypeOK, Phases
    <3>3. RolesInv'
      BY <1>2, <1>4, <2>6 DEF IInv, RolesInv
    <3>4. UnclosedInv'
      BY <1>6, <2>3, <2>6 DEF IInv, UnclosedInv
    <3>5. LiveInv' /\ FailedInv'
      BY <2>6 DEF LiveInv, FailedInv
    <3>6. RolesHeld'
      BY <2>3, <2>6 DEF IInv, RolesHeld
    <3> QED
      BY <1>3, <1>4, <3>2, <3>3, <3>4, <3>5, <3>6 DEF IInv
  <2> QED
    BY <1>9, <2>5, <2>6 DEF Rollback
<1> QED
  BY <1>1, <1>8, <1>9 DEF Rollback

-----------------------------------------------------------------------------
(* Selecting keeps it, too. *)

\* Every transport that has to be probed is on the list.
LEMMA ProbeOrderList ==
  ASSUME NEW a, Asked(a)
  PROVE  /\ ProbeOrder(a) \in Seq(Transports)
         /\ ProbedNames(a) \subseteq Elems(ProbeOrder(a))
<1> DEFINE kinds == [i \in DOMAIN a.bindings |-> a.bindings[i].kind]
           I     == {i \in DOMAIN kinds : kinds[i] \in ProbedNames(a)}
<1>1. /\ a.bindings \in Seq(Binding) /\ Len(a.bindings) \in Nat /\ DOMAIN a.bindings = 1 .. Len(a.bindings)
      /\ \A i \in DOMAIN a.bindings : a.bindings[i] \in Binding
  BY LenProperties, ElementOfSeq DEF Asked
<1>2. \A b \in Binding : b.kind \in Transports
  BY DEF Binding
<1>3. kinds \in Seq(Transports)
  <2>1. kinds \in [1 .. Len(a.bindings) -> Transports]
    BY <1>1, <1>2
  <2> QED
    BY <1>1, <2>1, IsASeq
<1>4. I \in SUBSET (DOMAIN kinds)
  OBVIOUS
<1>5. ProbeOrder(a) = At(kinds, I)
  BY DEF ProbeOrder
<1>6. ProbedNames(a) \subseteq {kinds[i] : i \in I}
  <2>1. ASSUME NEW n \in ProbedNames(a) PROVE \E i \in I : n = kinds[i]
    <3>1. n \in Installed(a)
      BY <2>1 DEF ProbedNames
    <3> QED
      BY <2>1, <3>1 DEF Installed
  <2> QED
    BY <2>1
<1> HIDE DEF kinds, I
<1>7. At(kinds, I) \in Seq(Transports) /\ Elems(At(kinds, I)) = {kinds[i] : i \in I}
  BY <1>3, <1>4, AtProperties
<1> QED
  BY <1>5, <1>6, <1>7

\* While a transport is selected nothing is adopted and no carrier exists.
LEMMA SelectingHandles ==
  ASSUME IInv, phase \in Selecting
  PROVE  /\ roles = <<>>
         /\ \A kind, n : ~Expected(kind, n)
         /\ UnclosedKinds = {"probe_config"}
<1>1. routes = <<>> /\ Len(roles) <= Len(routes) /\ Len(roles) \in Nat /\ roles \in Seq(Transports)
  BY HereIs DEF IInv, RouteInv, RolesInv, TypeOK
<1>2. Len(routes) = 0
  BY <1>1
<1>3. roles = <<>>
  BY <1>1, <1>2, EmptySeq
<1>4. \A n : ~Adopted(n)
  <2>1. 1 .. Len(roles) = {}
    BY <1>1, <1>2
  <2> QED
    BY <2>1 DEF Adopted
<1>5. \A kind, n : ~Expected(kind, n)
  BY <1>4 DEF Selecting, Expected
<1>6. UnclosedKinds = {"probe_config"}
  BY DEF Selecting, UnclosedKinds
<1> QED
  BY <1>3, <1>5, <1>6

\* A step before the first carrier that creates no handle.
LEMMA SelectKeeps ==
  ASSUME IInv, phase \in Selecting, UNCHANGED <<roles, live, faults, unclosed>>,
         phase' \in Selecting \cup {"config"}, AskInv', RouteInv',
         todo' \in Seq(Transports), DOMAIN obs' \subseteq Transports, routes' \in Seq(Transports),
         phase' = "config" => routes' # <<>>
  PROVE  IInv'
<1>1. roles = <<>> /\ (\A kind, n : ~Expected(kind, n)) /\ UnclosedKinds = {"probe_config"}
  BY SelectingHandles
<1>2. Asked(ask')
  BY AsksAsked DEF AskInv
<1>3. TypeOK'
  BY <1>2 DEF IInv, TypeOK, Asked, Phases, Selecting
<1>4. RolesInv'
  <2>1. Len(roles') = 0 /\ DOMAIN roles' = {} /\ Len(routes') \in Nat
    BY <1>1, LenProperties
  <2>2. phase' = "config" => Len(routes') # 0
    BY EmptySeq
  <2> QED
    BY <1>1, <2>1, <2>2 DEF RolesInv, Working, Serving, Phases, Selecting
<1>5. \A kind, n : ~Expected(kind, n)'
  <2>1. 1 .. Len(roles') = {}
    BY <1>1
  <2> QED
    BY <2>1 DEF Adopted, Expected, Selecting
<1>6. UnclosedInv' /\ LiveInv'
  BY <1>1, <1>5 DEF IInv, UnclosedInv, UnclosedKinds, LiveInv
<1>7. FailedInv' /\ RolesHeld' /\ HereHeld'
  BY <1>1 DEF FailedInv, RolesHeld, HereHeld, Holding, Selecting
<1> QED
  BY <1>3, <1>4, <1>6, <1>7 DEF IInv

\* The call begins: it is refused, probes, or opens its listeners.
LEMMA BeginKeeps == ASSUME NEW a \in Asks PROVE IInv /\ Begin(a) => IInv'
<1> SUFFICES ASSUME IInv, Begin(a) PROVE IInv'
  OBVIOUS
<1>1. /\ phase = "idle" /\ phase \in Selecting /\ ask' = a /\ Asked(a)
      /\ obs = NoObs /\ obs' = NoObs /\ todo = <<>> /\ routes = <<>>
      /\ UNCHANGED <<roles, live, faults, unclosed>>
  BY AsksAsked DEF Begin, IInv, AskInv, RouteInv, Selecting
<1>2. DOMAIN NoObs = {}
  BY DEF NoObs
<1>3. <<>> \in Seq(Transports)
  BY EmptySeq
<1>4. CASE \/ HasDuplicates(a.bindings) /\ phase' = "refused" /\ UNCHANGED <<todo, routes>>
           \/ /\ a.role = "server"
              /\ phase' = "refused" /\ UNCHANGED <<todo, routes>>
  <2>1. AskInv' /\ RouteInv'
    BY <1>1, <1>2, <1>4 DEF AskInv, RouteInv, Server, Selecting
  <2> QED
    BY <1>1, <1>2, <1>3, <1>4, <2>1, SelectKeeps DEF Selecting
<1>5. CASE /\ ~HasDuplicates(a.bindings) /\ a.role = "client"
           /\ phase' = "probe" /\ todo' = ProbeOrder(a) /\ UNCHANGED routes
  <2>1. ProbeOrder(a) \in Seq(Transports) /\ ProbedNames(a) \subseteq Elems(ProbeOrder(a))
    BY <1>1, ProbeOrderList
  <2>2. AskInv' /\ RouteInv'
    BY <1>1, <1>2, <1>5, <2>1 DEF AskInv, RouteInv, Server, Selecting
  <2> QED
    BY <1>1, <1>2, <1>3, <1>5, <2>1, <2>2, SelectKeeps DEF Selecting
<1>6. CASE /\ ~HasDuplicates(a.bindings) /\ a.role = "server"
           /\ ~RequiredFailure(a) /\ Listening(a) # {}
           /\ routes' \in ListenOrders(a)
           /\ phase' = "config" /\ UNCHANGED todo
  <2>1. /\ routes' \in Seq(Transports)
        /\ \A n \in Listening(a) : \E i \in DOMAIN routes' : routes'[i] = n
    BY <1>1, <1>6, ListenOrdersList
  <2>2. routes' # <<>>
    BY <1>6, <2>1
  <2>3. AskInv' /\ RouteInv'
    BY <1>1, <1>2, <1>6 DEF AskInv, RouteInv, Server, Selecting
  <2> QED
    BY <1>1, <1>2, <1>3, <1>6, <2>1, <2>2, <2>3, SelectKeeps
<1> QED
  BY <1>1, <1>4, <1>5, <1>6 DEF Begin

\* The probes are in: a transport is selected, or the call is refused.
LEMMA ChooseKeeps == IInv /\ Choose => IInv'
<1> SUFFICES ASSUME IInv, Choose PROVE IInv'
  OBVIOUS
<1>1. /\ phase = "probe" /\ phase \in Selecting /\ ~Server /\ Asked(ask) /\ routes = <<>> /\ todo = <<>>
      /\ UNCHANGED <<ask, todo, obs, roles, live, faults, unclosed>>
      /\ todo \in Seq(Transports) /\ DOMAIN obs \subseteq Transports
  BY AsksAsked DEF Choose, IInv, AskInv, RouteInv, Selecting, TypeOK
<1>2. CASE \E n \in Selectable(ask, obs) : routes' = <<n>> /\ phase' = "config"
  <2>1. PICK n \in Selectable(ask, obs) : routes' = <<n>> /\ phase' = "config"
    BY <1>2
  <2>2. n \in Transports
    BY <1>1, SelectedOnes
  <2>3. AskInv' /\ RouteInv'
    BY <1>1, <2>1 DEF IInv, AskInv, RouteInv, Server, Selecting
  <2> QED
    BY <1>1, <2>1, <2>2, <2>3, SelectKeeps
<1>3. CASE Selectable(ask, obs) = {} /\ phase' = "refused" /\ UNCHANGED routes
  <2>1. AskInv' /\ RouteInv'
    BY <1>1, <1>3 DEF IInv, AskInv, RouteInv, Server, Selecting
  <2>2. routes' \in Seq(Transports)
    BY <1>1, <1>3, EmptySeq
  <2> QED
    BY <1>1, <1>3, <2>1, <2>2, SelectKeeps DEF Selecting
<1> QED
  BY <1>2, <1>3 DEF Choose

\* One transport is probed, and its configuration may stay behind.
LEMMA ProbeKeeps == IInv /\ Probe => IInv'
<1> SUFFICES ASSUME IInv, Probe PROVE IInv'
  OBVIOUS
<1> DEFINE n == Head(todo)
           failed == [ok |-> FALSE, count |-> 0, rate |-> 0, rtt |-> 0]
           h == <<"probe_config", n>>
<1>1. /\ phase = "probe" /\ phase' = "probe" /\ phase \in Selecting /\ todo # <<>> /\ todo' = Tail(todo)
      /\ UNCHANGED <<ask, routes, roles>>
      /\ todo \in Seq(Transports) /\ DOMAIN obs \subseteq Transports /\ routes = <<>>
  BY DEF Probe, IInv, RouteInv, TypeOK, Selecting
<1>2. n \in Transports /\ Tail(todo) \in Seq(Transports) /\ Elems(todo) \subseteq {n} \cup Elems(Tail(todo))
  <2>1. /\ n \in Transports /\ Tail(todo) \in Seq(Transports) /\ Len(todo) \in Nat /\ Len(todo) # 0
        /\ Len(Tail(todo)) = Len(todo) - 1 /\ n = todo[1]
        /\ \A i \in 1 .. (Len(todo) - 1) : Tail(todo)[i] = todo[i + 1]
    BY <1>1, HeadTailProperties, EmptySeq
  <2>2. DOMAIN todo = 1 .. Len(todo) /\ DOMAIN Tail(todo) = 1 .. (Len(todo) - 1)
    BY <1>1, <2>1, LenProperties
  <2> HIDE DEF n
  <2>3. ASSUME NEW i \in 1 .. Len(todo), i # 1 PROVE \E j \in 1 .. (Len(todo) - 1) : todo[i] = Tail(todo)[j]
    <3>1. i - 1 \in 1 .. (Len(todo) - 1) /\ (i - 1) + 1 = i
      BY <2>1, <2>3
    <3> QED
      BY <2>1, <3>1
  <2> QED
    BY <2>1, <2>2, <2>3, ZenonT(30) DEF Elems
<1>3. \E seen \in Observation :
        /\ obs' = [m \in DOMAIN obs \cup {n} |-> IF m = n THEN seen ELSE obs[m]]
        /\ \/ UNCHANGED <<live, faults, unclosed>>
           \/ /\ faults' \in 0 .. MaxFaults
              /\ live' = live \cup {h} /\ unclosed' = unclosed \cup {h}
  <2>1. failed \in Observation
    BY DEF Observation
  <2>2. \A m \in Metrics : m \in Observation
    BY MetricsAssumption DEF Observation
  <2>3. faults \in 0 .. MaxFaults /\ MaxFaults \in Nat
    BY MetricsAssumption DEF IInv, TypeOK
  <2>4. faults < MaxFaults => faults + 1 \in 0 .. MaxFaults
    BY <2>3
  <2> HIDE DEF n
  <2>5. \/ \E m \in Metrics : Observe(n, m) /\ UNCHANGED <<live, faults, unclosed>>
        \/ Observe(n, failed) /\ UNCHANGED <<live, faults, unclosed>>
        \/ /\ faults < MaxFaults /\ faults' = faults + 1
           /\ live' = live \cup {h} /\ unclosed' = unclosed \cup {h}
           /\ Observe(n, failed)
    BY DEF Probe, n
  <2> HIDE DEF failed, h
  <2> QED
    BY <2>1, <2>2, <2>4, <2>5 DEF Observe
<1>4. PICK seen \in Observation :
        /\ obs' = [m \in DOMAIN obs \cup {n} |-> IF m = n THEN seen ELSE obs[m]]
        /\ \/ UNCHANGED <<live, faults, unclosed>>
           \/ /\ faults' \in 0 .. MaxFaults
              /\ live' = live \cup {h} /\ unclosed' = unclosed \cup {h}
  BY <1>3
<1>5. h \in Handles /\ h[1] = "probe_config"
  BY <1>2 DEF Handles
<1> HIDE DEF n, failed, h
<1>6. DOMAIN obs' = DOMAIN obs \cup {n} /\ DOMAIN obs' \subseteq Transports
  BY <1>1, <1>2, <1>4
<1>7. AskInv'
  <2>1. \A m \in DOMAIN obs' : obs'[m] \in Observation
    BY <1>4, <1>6 DEF IInv, AskInv
  <2>2. ProbedNames(ask) \subseteq DOMAIN obs' \cup Elems(todo')
    BY <1>1, <1>2, <1>6 DEF IInv, AskInv
  <2> QED
    BY <1>1, <2>1, <2>2 DEF IInv, AskInv, Server
<1>8. RouteInv'
  BY <1>1 DEF RouteInv, Selecting
<1>9. CASE UNCHANGED <<live, faults, unclosed>>
  <2>1. routes' \in Seq(Transports)
    BY <1>1, EmptySeq
  <2> QED
    BY <1>1, <1>2, <1>6, <1>7, <1>8, <1>9, <2>1, SelectKeeps
<1>10. CASE /\ faults' \in 0 .. MaxFaults
            /\ live' = live \cup {h} /\ unclosed' = unclosed \cup {h}
  <2>1. TypeOK'
    BY <1>1, <1>2, <1>5, <1>6, <1>10 DEF IInv, TypeOK
  <2>2. RolesInv'
    BY <1>1 DEF IInv, RolesInv, Server
  <2>3. UnclosedInv' /\ LiveInv'
    <3>1. UnclosedKinds' = UnclosedKinds /\ UnclosedKinds = {"probe_config"}
      BY <1>1, SelectingHandles DEF UnclosedKinds
    <3> QED
      BY <1>5, <1>10, <3>1 DEF IInv, UnclosedInv, LiveInv
  <2>4. FailedInv' /\ RolesHeld' /\ HereHeld'
    BY <1>1, <1>10 DEF IInv, FailedInv, RolesHeld, HereHeld, Holding
  <2> QED
    BY <1>7, <1>8, <2>1, <2>2, <2>3, <2>4 DEF IInv
<1> QED
  BY <1>4, <1>9, <1>10

\* Before the call there is nothing.
LEMMA InitHolds == Init => IInv
<1> SUFFICES ASSUME Init PROVE IInv
  OBVIOUS
<1>1. /\ phase = "idle" /\ ask = NoAsk /\ todo = <<>> /\ obs = NoObs
      /\ routes = <<>> /\ roles = <<>> /\ live = {} /\ faults = 0 /\ unclosed = {}
  BY DEF Init
<1>2. Asked(NoAsk) /\ DOMAIN NoObs = {} /\ NoAsk.role = "client" /\ Len(<<>>) = 0 /\ DOMAIN <<>> = {}
  BY AsksAsked DEF NoObs, NoAsk
<1>3. TypeOK
  BY <1>1, <1>2, EmptySeq, MetricsAssumption DEF TypeOK, Phases, Asked
<1>4. AskInv /\ RouteInv /\ RolesInv
  BY <1>1, <1>2 DEF AskInv, RouteInv, RolesInv, Selecting, Working, Serving, Server
<1>5. \A n : ~Adopted(n)
  <2>1. 1 .. Len(roles) = {}
    BY <1>1, <1>2
  <2> QED
    BY <2>1 DEF Adopted
<1>6. UnclosedInv /\ LiveInv
  BY <1>1, <1>5 DEF UnclosedInv, LiveInv, Expected
<1>7. FailedInv /\ RolesHeld /\ HereHeld
  BY <1>1, <1>2 DEF FailedInv, RolesHeld, HereHeld, Holding
<1> QED
  BY <1>3, <1>4, <1>6, <1>7 DEF IInv

\* Nothing changes.
LEMMA StutterKeeps == IInv /\ UNCHANGED vars => IInv'
<1> SUFFICES ASSUME IInv, UNCHANGED vars PROVE IInv'
  OBVIOUS
<1>1. TypeOK' /\ AskInv'
  BY DEF vars, IInv, TypeOK, AskInv, Server
<1>2. RouteInv' /\ RolesInv'
  BY DEF vars, IInv, RouteInv, RolesInv, Server
<1>3. UnclosedInv'
  BY DEF vars, IInv, UnclosedInv, UnclosedKinds
<1>4. LiveInv'
  <2>1. \A kind, n : Expected(kind, n)' <=> Expected(kind, n)
    BY DEF vars, Expected, Server, Adopted, Current, Here
  <2> QED
    BY <2>1 DEF vars, IInv, LiveInv
<1>5. FailedInv' /\ RolesHeld' /\ HereHeld'
  BY DEF vars, IInv, FailedInv, RolesHeld, HereHeld, Here
<1> QED
  BY <1>1, <1>2, <1>3, <1>4, <1>5 DEF IInv

\* The invariant is inductive.
LEMMA NextKeeps == IInv /\ [Next]_vars => IInv'
  BY BeginKeeps, ProbeKeeps, ChooseKeeps, ConfigCreateKeeps, OpenKeeps, EndpointQueryKeeps,
     EndpointReadKeeps, ListenerUndoKeeps, ConfigCloseKeeps, OpenFailedKeeps, AdoptClientKeeps,
     RegistryCreateKeeps, InstallKeeps, InstallFailedKeeps, BindKeeps, BindFailedKeeps,
     DispatcherCloseKeeps, RegistryCloseKeeps, CarrierCloseKeeps, RollbackKeeps, StutterKeeps
     DEF Next

(* The inductive invariant, in every reachable state. *)
THEOREM Invariant == Spec => []IInv
<1>1. Init => IInv
  BY InitHolds
<1>2. IInv /\ [Next]_vars => IInv'
  BY NextKeeps
<1> QED
  BY <1>1, <1>2, PTL DEF Spec

(* NothingLeaked: connect and listen release every handle of a start that failed, whatever
   call failed, and keep exactly those of the roles that came up. *)
THEOREM NothingLeakedHolds == Spec => []NothingLeaked
<1>1. IInv => NothingLeaked
  <2> SUFFICES ASSUME IInv PROVE NothingLeaked
    OBVIOUS
  <2>1. TypeOK /\ live \subseteq Handles
    BY DEF IInv, TypeOK
  <2>2. \A h \in Handles : \E kind \in Kinds, n \in Transports : h = <<kind, n>>
    BY DEF Handles, Kinds
  <2>3. ASSUME unclosed = {}, phase \in {"failed", "refused"} PROVE live = {}
    <3>1. roles = <<>>
      BY <2>3, SelectingHandles DEF IInv, FailedInv, Selecting
    <3>2. 1 .. Len(roles) = {}
      BY <3>1
    <3>3. \A kind, n : ~Expected(kind, n)
      BY <2>3, <3>2 DEF Expected, Adopted
    <3> QED
      BY <2>1, <2>2, <2>3, <3>3 DEF IInv, LiveInv
  <2>4. ASSUME unclosed = {}, phase = "up" PROVE live = OwnedByRoles
    <3>1. /\ Len(roles) \in Nat /\ Len(routes) \in Nat /\ DOMAIN routes = 1 .. Len(routes)
          /\ \A i \in DOMAIN routes : routes[i] \in Transports
      BY HereIs, RoutesOpened DEF IInv
    <3>2. \A kind \in Kinds, n \in Transports :
            <<kind, n>> \in live <=>
              /\ \E i \in DOMAIN routes : n = routes[i]
              /\ kind = "role" \/ (kind = "dispatcher" /\ Server /\ ask.hook)
      <4>1. CASE Server
        <5>1. \A n \in Transports : Adopted(n) <=> \E i \in DOMAIN routes : n = routes[i]
          BY <2>4, <3>1, <4>1 DEF IInv, RolesInv, Adopted
        <5> QED
          BY <2>4, <4>1, <5>1 DEF IInv, LiveInv, Expected, Kinds
      <4>2. CASE ~Server
        <5>1. PICK m : routes = <<m>>
          BY <2>4, <4>2 DEF IInv, RouteInv, Selecting
        <5>2. roles = <<>> /\ Len(roles) = 0 /\ Here = m
          BY <4>2, <5>1 DEF IInv, RolesInv, Here
        <5>3. 1 .. Len(roles) = {} /\ DOMAIN routes = {1}
          BY <5>1, <5>2
        <5>4. \A n \in Transports : ~Adopted(n) /\ (Current(n) <=> \E i \in DOMAIN routes : n = routes[i])
          BY <5>1, <5>2, <5>3 DEF Adopted, Current
        <5> QED
          BY <2>4, <4>2, <5>4 DEF IInv, LiveInv, Expected, Kinds
      <4> QED
        BY <4>1, <4>2
    <3>3. \A kind \in Kinds, n \in Transports :
            <<kind, n>> \in OwnedByRoles <=>
              /\ \E i \in DOMAIN routes : n = routes[i]
              /\ kind = "role" \/ (kind = "dispatcher" /\ Server /\ ask.hook)
      BY DEF OwnedByRoles, Role, Dispatcher
    <3>4. OwnedByRoles \subseteq Handles
      BY <3>1 DEF OwnedByRoles, Role, Dispatcher, Handles
    <3> QED
      BY <2>1, <2>2, <3>2, <3>3, <3>4
  <2> QED
    BY <2>1, <2>3, <2>4 DEF NothingLeaked
<1> QED
  BY <1>1, Invariant, PTL

(* SecureStaysSecure: _client_route_security_satisfied and its server twin keep an nnrps
   application off every carrier that is not secured. *)
THEOREM SecureStaysSecureHolds == Spec => []SecureStaysSecure
<1>1. IInv => SecureStaysSecure
  <2> SUFFICES ASSUME IInv, ask.secure, NEW i \in DOMAIN routes
               PROVE  /\ RouteOf(ask, routes[i]).security
                      /\ routes[i] # "ipc"
                      /\ routes[i] = "websocket" => RouteOf(ask, routes[i]).endpoint = "secure"
    BY DEF SecureStaysSecure
  <2>1. SecuritySatisfied(ask, routes[i])
    BY RoutesOpened DEF IInv
  <2> QED
    BY <2>1 DEF SecuritySatisfied, ResolveEndpoint
<1> QED
  BY <1>1, Invariant, PTL

-----------------------------------------------------------------------------
(* A start does what it was asked to, or says why not. *)

\* A member more can be put where the list first says that it comes before the next one.
LEMMA OrdersInsert ==
  ASSUME NEW S, IsFiniteSet(S), NEW before, NEW x, x \notin S, NEW s \in Orders(S, before),
         \A y \in S : <<x, y>> \in before \/ <<y, x>> \in before
  PROVE  \E q : q \in Orders(S \cup {x}, before)
<1> DEFINE n == Cardinality(S)
           P == {i \in 1 .. n : <<x, s[i]>> \in before}
<1>1. /\ s \in Seq(S) /\ Len(s) = n /\ n \in Nat /\ DOMAIN s = 1 .. n
      /\ \A i, j \in DOMAIN s : s[i] = s[j] => i = j
      /\ \A i \in DOMAIN s : i > 1 => <<s[i - 1], s[i]>> \in before
  BY OrdersList, LenProperties
<1>2. \A i \in 1 .. n : s[i] \in S
  BY <1>1, ElementOfSeq
<1>3. Cardinality(S \cup {x}) = n + 1
  BY FS_AddElement
<1> HIDE DEF n
<1>4. PICK p \in 1 .. (n + 1) :
        /\ \A i \in 1 .. n : i < p => <<s[i], x>> \in before
        /\ p <= n => <<x, s[p]>> \in before
  <2>1. P \in SUBSET Nat /\ IsFiniteSet(P) /\ \A i \in P : i \in 1 .. n
    <3>1. 1 \in Int /\ n \in Int /\ P \in SUBSET (1 .. n)
      BY <1>1
    <3>2. IsFiniteSet(1 .. n)
      BY <3>1, FS_Interval
    <3> HIDE DEF P
    <3>3. IsFiniteSet(P)
      BY <3>1, <3>2, FS_Subset
    <3>4. \A i \in P : i \in 1 .. n
      BY <3>1
    <3>5. P \in SUBSET Nat
      BY <3>4
    <3> QED
      BY <3>3, <3>4, <3>5
  <2>2. CASE P = {}
    <3>1. \A i \in 1 .. n : <<s[i], x>> \in before
      BY <1>2, <2>2
    <3>2. n + 1 \in 1 .. (n + 1) /\ ~(n + 1 <= n)
      BY <1>1
    <3> QED
      BY <3>1, <3>2
  <2>3. CASE P # {}
    <3>1. PICK p \in P : \A j \in P : p <= j
      BY <2>1, <2>3, LeastOf
    <3>2. p \in 1 .. n /\ p \in 1 .. (n + 1) /\ <<x, s[p]>> \in before
      BY <1>1, <2>1, <3>1
    <3>3. ASSUME NEW i \in 1 .. n, i < p PROVE <<s[i], x>> \in before
      <4>1. i \notin P
        BY <2>1, <3>1, <3>2, <3>3
      <4> QED
        BY <1>2, <3>3, <4>1
    <3> QED
      BY <3>2, <3>3
  <2> QED
    BY <2>2, <2>3
<1> DEFINE q == [i \in 1 .. (n + 1) |-> IF i < p THEN s[i] ELSE IF i = p THEN x ELSE s[i - 1]]
<1>5. \A i \in 1 .. (n + 1) :
        /\ i < p => i \in 1 .. n
        /\ i > p => i - 1 \in 1 .. n
  BY <1>1, <1>4
<1>6. /\ q \in [1 .. (n + 1) -> S \cup {x}]
      /\ \A i \in 1 .. (n + 1) :
           q[i] = IF i < p THEN s[i] ELSE IF i = p THEN x ELSE s[i - 1]
  BY <1>2, <1>4, <1>5
<1> HIDE DEF q, P
<1>7. ASSUME NEW i \in 1 .. (n + 1), NEW j \in 1 .. (n + 1), q[i] = q[j] PROVE i = j
  <2>1. /\ i \in Int /\ j \in Int /\ p \in Int
        /\ i < p \/ i = p \/ i > p
        /\ j < p \/ j = p \/ j > p
    BY <1>4
  <2>2. \A k \in 1 .. n : s[k] # x
    BY <1>2
  <2>3. \A k, l \in 1 .. n : s[k] = s[l] => k = l
    BY <1>1
  <2>4. CASE i < p
    BY <1>5, <1>6, <1>7, <2>1, <2>2, <2>3, <2>4
  <2>5. CASE i = p
    BY <1>5, <1>6, <1>7, <2>1, <2>2, <2>5
  <2>6. CASE i > p
    BY <1>5, <1>6, <1>7, <2>1, <2>2, <2>3, <2>6
  <2> QED
    BY <2>1, <2>4, <2>5, <2>6
<1>8. ASSUME NEW i \in 1 .. (n + 1), i > 1 PROVE <<q[i - 1], q[i]>> \in before
  <2>1. i \in Int /\ i - 1 \in 1 .. (n + 1) /\ p \in Int /\ n \in Int
    BY <1>1, <1>4, <1>8
  <2>2. CASE i < p
    <3>1. i \in 1 .. n /\ q[i] = s[i] /\ q[i - 1] = s[i - 1]
      BY <1>5, <1>6, <2>1, <2>2
    <3> QED
      BY <1>1, <1>8, <3>1
  <2>3. CASE i = p
    <3>1. q[i] = x /\ q[i - 1] = s[i - 1] /\ i - 1 \in 1 .. n /\ i - 1 < p
      BY <1>6, <1>8, <2>1, <2>3
    <3> QED
      BY <1>4, <3>1
  <2>4. CASE i = p + 1
    <3>1. q[i] = s[p] /\ q[i - 1] = x /\ p <= n
      BY <1>6, <2>1, <2>4
    <3> QED
      BY <1>4, <3>1
  <2>5. CASE i > p + 1
    <3>1. i - 1 \in 1 .. n /\ i - 1 > 1 /\ q[i] = s[i - 1] /\ q[i - 1] = s[(i - 1) - 1]
      BY <1>4, <1>6, <2>1, <2>5
    <3> QED
      BY <1>1, <3>1
  <2> QED
    BY <2>1, <2>2, <2>3, <2>4, <2>5
<1>9. DOMAIN q = 1 .. (n + 1)
  BY <1>6
<1> QED
  BY <1>3, <1>6, <1>7, <1>8, <1>9 DEF Orders

\* Whatever can be compared can be sorted, also when the comparison is not transitive.
LEMMA OrdersExist ==
  ASSUME NEW S \in SUBSET Transports, NEW before,
         \A x, y \in S : x # y => <<x, y>> \in before \/ <<y, x>> \in before
  PROVE  \E q : q \in Orders(S, before)
<1>1. ASSUME NEW x, NEW T \in SUBSET S, NEW U \in SUBSET S, U = T \/ (x \in S /\ x \notin T /\ U = T \cup {x}),
             \E q : q \in Orders(T, before)
      PROVE  \E q : q \in Orders(U, before)
  <2>1. IsFiniteSet(T)
    BY TransportsFinite, FS_Subset
  <2>2. CASE U = T
    BY <1>1, <2>2
  <2>3. CASE x \in S /\ x \notin T /\ U = T \cup {x}
    <3>1. PICK s : s \in Orders(T, before)
      BY <1>1
    <3>2. \A y \in T : <<x, y>> \in before \/ <<y, x>> \in before
      BY <2>3
    <3> QED
      BY <2>1, <2>3, <3>1, <3>2, OrdersInsert
  <2> QED
    BY <1>1, <2>2, <2>3
<1>2. \E q : q \in Orders({}, before)
  <2>1. Cardinality({}) = 0 /\ 1 .. 0 = {}
    BY FS_EmptySet
  <2>2. [i \in 1 .. 0 |-> i] \in [1 .. 0 -> {}] /\ DOMAIN [i \in 1 .. 0 |-> i] = {}
    BY <2>1
  <2> QED
    BY <2>1, <2>2 DEF Orders
<1> DEFINE T1 == S \cap {"tcp"}
           T2 == S \cap {"tcp", "quic"}
           T3 == S \cap {"tcp", "quic", "ipc"}
<1>3. \E q : q \in Orders(T1, before)
  <2>1. T1 = {} \/ ("tcp" \in S /\ "tcp" \notin {} /\ T1 = {} \cup {"tcp"})
    OBVIOUS
  <2>2. {} \in SUBSET S /\ T1 \in SUBSET S
    OBVIOUS
  <2> HIDE DEF T1
  <2> QED
    BY <1>1, <1>2, <2>1, <2>2
<1>4. \E q : q \in Orders(T2, before)
  <2>1. T2 = T1 \/ ("quic" \in S /\ "quic" \notin T1 /\ T2 = T1 \cup {"quic"})
    OBVIOUS
  <2>2. T1 \in SUBSET S /\ T2 \in SUBSET S
    OBVIOUS
  <2> HIDE DEF T1, T2
  <2> QED
    BY <1>1, <1>3, <2>1, <2>2
<1>5. \E q : q \in Orders(T3, before)
  <2>1. T3 = T2 \/ ("ipc" \in S /\ "ipc" \notin T2 /\ T3 = T2 \cup {"ipc"})
    OBVIOUS
  <2>2. T2 \in SUBSET S /\ T3 \in SUBSET S
    OBVIOUS
  <2> HIDE DEF T2, T3
  <2> QED
    BY <1>1, <1>4, <2>1, <2>2
<1>6. S = T3 \/ ("websocket" \in S /\ "websocket" \notin T3 /\ S = T3 \cup {"websocket"})
  BY DEF Transports
<1>7. T3 \in SUBSET S /\ S \in SUBSET S
  OBVIOUS
<1> HIDE DEF T3
<1> QED
  BY <1>1, <1>5, <1>6, <1>7

\* The first difference that is not zero, written out.
First3(x, y, z) == IF x # 0 THEN x ELSE IF y # 0 THEN y ELSE z

\* It is the first one, or there is none.
LEMMA FirstDifferenceIs ==
  ASSUME NEW n \in Nat, NEW s, DOMAIN s = 1 .. n
  PROVE  \/ (\A i \in 1 .. n : s[i] = 0) /\ FirstDifference(s) = 0
         \/ \E i \in 1 .. n :
              s[i] # 0 /\ (\A j \in 1 .. n : j < i => s[j] = 0) /\ FirstDifference(s) = s[i]
<1> DEFINE differ == {i \in DOMAIN s : s[i] # 0}
<1>1. FirstDifference(s) = IF differ = {} THEN 0 ELSE s[FirstIndex(differ)]
  BY DEF FirstDifference
<1>2. \A i : i \in differ <=> i \in 1 .. n /\ s[i] # 0
  OBVIOUS
<1> HIDE DEF differ
<1>3. differ \in SUBSET Nat /\ IsFiniteSet(differ)
  <2>1. 1 \in Int /\ n \in Int /\ differ \in SUBSET (1 .. n)
    BY <1>2
  <2>2. IsFiniteSet(1 .. n)
    BY <2>1, FS_Interval
  <2>3. IsFiniteSet(differ)
    BY <2>1, <2>2, FS_Subset
  <2>4. \A i \in differ : i \in Nat
    BY <1>2
  <2> QED
    BY <2>3, <2>4
<1>4. CASE differ = {}
  BY <1>1, <1>2, <1>4
<1>5. CASE differ # {}
  <2>1. FirstIndex(differ) \in differ /\ \A j \in differ : FirstIndex(differ) <= j
    BY <1>3, <1>5, LeastOf DEF FirstIndex
  <2> DEFINE i == FirstIndex(differ)
  <2> HIDE DEF i
  <2>2. i \in 1 .. n /\ s[i] # 0 /\ FirstDifference(s) = s[i]
    BY <1>1, <1>2, <1>5, <2>1 DEF i
  <2>3. \A j \in 1 .. n : j < i => s[j] = 0
    <3>1. \A j \in differ : i <= j
      BY <2>1 DEF i
    <3> QED
      BY <1>2, <2>2, <3>1
  <2> QED
    BY <2>2, <2>3
<1> QED
  BY <1>4, <1>5

\* Three differences.
LEMMA FirstOfThree ==
  ASSUME NEW x \in Int, NEW y \in Int, NEW z \in Int
  PROVE  FirstDifference(<<x, y, z>>) = First3(x, y, z)
<1> DEFINE s == <<x, y, z>>
<1>1. DOMAIN s = 1 .. 3 /\ s[1] = x /\ s[2] = y /\ s[3] = z
  OBVIOUS
<1> HIDE DEF s
<1>2. \A i : i \in 1 .. 3 <=> i = 1 \/ i = 2 \/ i = 3
  OBVIOUS
<1>3. \/ (\A i \in 1 .. 3 : s[i] = 0) /\ FirstDifference(s) = 0
      \/ \E i \in 1 .. 3 :
           s[i] # 0 /\ (\A j \in 1 .. 3 : j < i => s[j] = 0) /\ FirstDifference(s) = s[i]
  <2>1. 3 \in Nat
    OBVIOUS
  <2> QED
    BY <1>1, <2>1, FirstDifferenceIs
<1>4. FirstDifference(s) = First3(x, y, z)
  BY <1>1, <1>2, <1>3 DEF First3
<1> QED
  BY <1>4 DEF s

\* All seven of them.
LEMMA FirstOfSeven ==
  ASSUME NEW a \in Int, NEW b \in Int, NEW c \in Int, NEW d \in Int,
         NEW x \in Int, NEW y \in Int, NEW z \in Int
  PROVE  FirstDifference(<<a, b, c>> \o <<d>> \o <<x, y, z>>) =
           IF First3(a, b, c) # 0 THEN First3(a, b, c) ELSE IF d # 0 THEN d ELSE First3(x, y, z)
<1> DEFINE s == <<a, b, c>> \o <<d>> \o <<x, y, z>>
           t == <<a, b, c>> \o <<d>>
           u == <<x, y, z>>
<1>1. /\ <<a, b, c>> \in Seq(Int) /\ <<d>> \in Seq(Int) /\ u \in Seq(Int)
      /\ Len(<<a, b, c>>) = 3 /\ Len(<<d>>) = 1 /\ Len(u) = 3
      /\ u[1] = x /\ u[2] = y /\ u[3] = z
  OBVIOUS
<1>2. /\ DOMAIN s = 1 .. 7 /\ s[1] = a /\ s[2] = b /\ s[3] = c /\ s[4] = d
      /\ s[5] = x /\ s[6] = y /\ s[7] = z
  <2>1. t \in Seq(Int) /\ Len(t) = 4 /\ t[1] = a /\ t[2] = b /\ t[3] = c /\ t[4] = d
    <3>1. t \in Seq(Int) /\ Len(t) = Len(<<a, b, c>>) + Len(<<d>>)
      BY <1>1, ConcatProperties
    <3>2. \A i \in 1 .. 4 : t[i] = IF i <= 3 THEN <<a, b, c>>[i] ELSE <<d>>[i - 3]
      BY <1>1, ConcatProperties
    <3> QED
      BY <1>1, <3>1, <3>2
  <2> HIDE DEF t, u
  <2>2. s = t \o u
    BY DEF t, u
  <2>3. s \in Seq(Int) /\ Len(s) = 7
    BY <1>1, <2>1, <2>2, ConcatProperties
  <2>4. \A i \in 1 .. 7 : s[i] = IF i <= 4 THEN t[i] ELSE u[i - 4]
    BY <1>1, <2>1, <2>2, ConcatProperties
  <2>5. DOMAIN s = 1 .. 7
    BY <2>3, LenProperties
  <2> HIDE DEF s
  <2> QED
    BY <1>1, <2>1, <2>4, <2>5
<1> HIDE DEF s
<1>3. \A i : i \in 1 .. 7 <=> i = 1 \/ i = 2 \/ i = 3 \/ i = 4 \/ i = 5 \/ i = 6 \/ i = 7
  OBVIOUS
<1>4. \/ (\A i \in 1 .. 7 : s[i] = 0) /\ FirstDifference(s) = 0
      \/ \E i \in 1 .. 7 :
           s[i] # 0 /\ (\A j \in 1 .. 7 : j < i => s[j] = 0) /\ FirstDifference(s) = s[i]
  <2>1. 7 \in Nat
    OBVIOUS
  <2> QED
    BY <1>2, <2>1, FirstDifferenceIs
<1>5. CASE (\A i \in 1 .. 7 : s[i] = 0) /\ FirstDifference(s) = 0
  <2>1. a = 0 /\ b = 0 /\ c = 0 /\ d = 0 /\ x = 0 /\ y = 0 /\ z = 0
    BY <1>2, <1>5
  <2> QED
    BY <1>5, <2>1 DEF First3, s
<1>6. CASE \E i \in 1 .. 7 :
             s[i] # 0 /\ (\A j \in 1 .. 7 : j < i => s[j] = 0) /\ FirstDifference(s) = s[i]
  <2>1. PICK i \in 1 .. 7 :
          s[i] # 0 /\ (\A j \in 1 .. 7 : j < i => s[j] = 0) /\ FirstDifference(s) = s[i]
    BY <1>6
  <2>2. /\ i > 1 => a = 0
        /\ i > 2 => b = 0
        /\ i > 3 => c = 0
        /\ i > 4 => d = 0
        /\ i > 5 => x = 0
        /\ i > 6 => y = 0
    BY <1>2, <2>1
  <2>3. FirstDifference(s) =
          IF First3(a, b, c) # 0 THEN First3(a, b, c) ELSE IF d # 0 THEN d ELSE First3(x, y, z)
    BY <1>2, <1>3, <2>1, <2>2 DEF First3
  <2> QED
    BY <2>3 DEF s
<1> QED
  BY <1>4, <1>5, <1>6

\* What two measured candidates are compared by.
Measure(o, l, r) == First3(o[r].count - o[l].count, o[r].rate - o[l].rate, o[l].rtt - o[r].rtt)
Cost(a, l, r) == CostDifference(BindingOf(a, l), BindingOf(a, r))
Official(a, l, r) ==
  First3(Flag(IsPreferred(a.policy, l)) - Flag(IsPreferred(a.policy, r)),
         BindingOf(a, l).rank - BindingOf(a, r).rank, TransportId[l] - TransportId[r])

\* The comparison of two candidates, written out.
LEMMA CompareIs ==
  ASSUME NEW a, Asked(a), NEW o, NEW l \in Installed(a), NEW r \in Installed(a),
         o[l] \in Observation, o[r] \in Observation
  PROVE  /\ o[l].count \in Nat /\ o[l].rate \in Nat /\ o[l].rtt \in Nat
         /\ o[r].count \in Nat /\ o[r].rate \in Nat /\ o[r].rtt \in Nat
         /\ FirstDifference(Measured(o[l], o[r])) = Measure(o, l, r)
         /\ Measure(o, l, r) \in Int /\ Cost(a, l, r) \in Int /\ Official(a, l, r) \in Int
         /\ Compare(a, o, l, r) =
              IF Measure(o, l, r) # 0 THEN Measure(o, l, r)
              ELSE IF Cost(a, l, r) # 0 THEN Cost(a, l, r) ELSE Official(a, l, r)
<1> DEFINE x == BindingOf(a, l)
           y == BindingOf(a, r)
<1>1. x \in Binding /\ y \in Binding /\ x.kind = l /\ y.kind = r /\ l \in Transports /\ r \in Transports
  BY Names
<1>2. /\ x.rank \in Nat /\ y.rank \in Nat /\ x.model \in Nat /\ y.model \in Nat
      /\ x.units \in Nat /\ y.units \in Nat
  BY <1>1 DEF Binding
<1>3. TransportId[l] \in Nat /\ TransportId[r] \in Nat
  BY <1>1 DEF TransportId, Transports
<1>4. /\ o[l].count \in Nat /\ o[l].rate \in Nat /\ o[l].rtt \in Nat
      /\ o[r].count \in Nat /\ o[r].rate \in Nat /\ o[r].rtt \in Nat
  BY DEF Observation
<1>5. \A p : Flag(p) \in Int
  BY DEF Flag
<1> DEFINE d1 == o[r].count - o[l].count
           d2 == o[r].rate - o[l].rate
           d3 == o[l].rtt - o[r].rtt
           d4 == CostDifference(x, y)
           d5 == Flag(IsPreferred(a.policy, l)) - Flag(IsPreferred(a.policy, r))
           d6 == x.rank - y.rank
           d7 == TransportId[l] - TransportId[r]
<1>6. d1 \in Int /\ d2 \in Int /\ d3 \in Int
  BY <1>4
<1>7. d4 \in Int
  BY <1>2 DEF CostDifference
<1>8. d5 \in Int /\ d6 \in Int /\ d7 \in Int
  BY <1>2, <1>3, <1>5
<1>9. Measured(o[l], o[r]) = <<d1, d2, d3>> /\ Declared(a.policy, x, y) = <<d5, d6, d7>>
  BY <1>1 DEF Measured, Declared
<1>10. Compare(a, o, l, r) = FirstDifference(<<d1, d2, d3>> \o <<d4>> \o <<d5, d6, d7>>)
  BY <1>9 DEF Compare
<1>11. Measure(o, l, r) = First3(d1, d2, d3) /\ Cost(a, l, r) = d4 /\ Official(a, l, r) = First3(d5, d6, d7)
  BY DEF Measure, Cost, Official
<1> HIDE DEF d1, d2, d3, d4, d5, d6, d7
<1>12. FirstDifference(Measured(o[l], o[r])) = First3(d1, d2, d3)
  BY <1>6, <1>9, FirstOfThree
<1>13. First3(d1, d2, d3) \in Int /\ First3(d5, d6, d7) \in Int
  BY <1>6, <1>8 DEF First3
<1>14. Compare(a, o, l, r) =
         IF First3(d1, d2, d3) # 0 THEN First3(d1, d2, d3) ELSE IF d4 # 0 THEN d4 ELSE First3(d5, d6, d7)
  BY <1>6, <1>7, <1>8, <1>10, FirstOfSeven
<1> QED
  BY <1>4, <1>7, <1>11, <1>12, <1>13, <1>14

\* The comparison of two candidates turned round.
LEMMA CompareTurned ==
  ASSUME NEW a, Asked(a), NEW o, NEW l \in Installed(a), NEW r \in Installed(a),
         o[l] \in Observation, o[r] \in Observation
  PROVE  /\ Measure(o, r, l) = -Measure(o, l, r)
         /\ Compare(a, o, r, l) = -Compare(a, o, l, r)
         /\ Compare(a, o, l, r) \in Int
         /\ Compare(a, o, l, r) = 0 => l = r
<1>1. /\ o[l].count \in Nat /\ o[l].rate \in Nat /\ o[l].rtt \in Nat
      /\ o[r].count \in Nat /\ o[r].rate \in Nat /\ o[r].rtt \in Nat
      /\ Measure(o, l, r) \in Int /\ Cost(a, l, r) \in Int /\ Official(a, l, r) \in Int
  BY CompareIs
<1>2. Compare(a, o, l, r) =
        IF Measure(o, l, r) # 0 THEN Measure(o, l, r)
        ELSE IF Cost(a, l, r) # 0 THEN Cost(a, l, r) ELSE Official(a, l, r)
  BY CompareIs
<1>3. Compare(a, o, r, l) =
        IF Measure(o, r, l) # 0 THEN Measure(o, r, l)
        ELSE IF Cost(a, r, l) # 0 THEN Cost(a, r, l) ELSE Official(a, r, l)
  BY CompareIs
<1>4. /\ BindingOf(a, l) \in Binding /\ BindingOf(a, r) \in Binding
      /\ l \in Transports /\ r \in Transports
  BY Names
<1>5. /\ BindingOf(a, l).rank \in Nat /\ BindingOf(a, r).rank \in Nat
      /\ BindingOf(a, l).model \in Nat /\ BindingOf(a, r).model \in Nat
      /\ BindingOf(a, l).units \in Nat /\ BindingOf(a, r).units \in Nat
  BY <1>4 DEF Binding
<1>6. /\ TransportId[l] \in Nat /\ TransportId[r] \in Nat
      /\ TransportId[l] = TransportId[r] => l = r
  BY <1>4 DEF TransportId, Transports
<1>7. Measure(o, r, l) = -Measure(o, l, r)
  BY <1>1 DEF Measure, First3
<1>8. Cost(a, r, l) = -Cost(a, l, r)
  BY <1>5 DEF Cost, CostDifference
<1>9. \A p : Flag(p) \in Int
  BY DEF Flag
<1>10. /\ Official(a, r, l) = -Official(a, l, r)
       /\ Official(a, l, r) = 0 => l = r
  BY <1>5, <1>6, <1>9 DEF Official, First3
<1> QED
  BY <1>1, <1>2, <1>3, <1>7, <1>8, <1>10

\* The measurements put the candidates in an order.
LEMMA MeasureTransitive ==
  ASSUME NEW o, NEW l, NEW m, NEW r,
         o[l] \in Observation, o[m] \in Observation, o[r] \in Observation,
         Measure(o, l, m) <= 0, Measure(o, m, r) <= 0
  PROVE  /\ Measure(o, l, r) <= 0
         /\ Measure(o, l, r) = 0 => Measure(o, l, m) = 0 /\ Measure(o, m, r) = 0
<1>1. /\ o[l].count \in Nat /\ o[l].rate \in Nat /\ o[l].rtt \in Nat
      /\ o[m].count \in Nat /\ o[m].rate \in Nat /\ o[m].rtt \in Nat
      /\ o[r].count \in Nat /\ o[r].rate \in Nat /\ o[r].rtt \in Nat
  BY DEF Observation
<1> QED
  BY <1>1 DEF Measure, First3

\* When all the providers share a cost model, so does the whole comparison.
LEMMA CompareTransitive ==
  ASSUME NEW a, Asked(a), NEW o,
         NEW l \in Installed(a), NEW m \in Installed(a), NEW r \in Installed(a),
         o[l] \in Observation, o[m] \in Observation, o[r] \in Observation,
         \A i, j \in DOMAIN a.bindings : a.bindings[i].model = a.bindings[j].model,
         Compare(a, o, l, m) <= 0, Compare(a, o, m, r) <= 0
  PROVE  Compare(a, o, l, r) <= 0
<1>1. /\ Measure(o, l, m) \in Int /\ Cost(a, l, m) \in Int /\ Official(a, l, m) \in Int
      /\ Compare(a, o, l, m) =
           IF Measure(o, l, m) # 0 THEN Measure(o, l, m)
           ELSE IF Cost(a, l, m) # 0 THEN Cost(a, l, m) ELSE Official(a, l, m)
  BY CompareIs
<1>2. /\ Measure(o, m, r) \in Int /\ Cost(a, m, r) \in Int /\ Official(a, m, r) \in Int
      /\ Compare(a, o, m, r) =
           IF Measure(o, m, r) # 0 THEN Measure(o, m, r)
           ELSE IF Cost(a, m, r) # 0 THEN Cost(a, m, r) ELSE Official(a, m, r)
  BY CompareIs
<1>3. /\ Measure(o, l, r) \in Int /\ Cost(a, l, r) \in Int /\ Official(a, l, r) \in Int
      /\ Compare(a, o, l, r) =
           IF Measure(o, l, r) # 0 THEN Measure(o, l, r)
           ELSE IF Cost(a, l, r) # 0 THEN Cost(a, l, r) ELSE Official(a, l, r)
  BY CompareIs
<1>4. Measure(o, l, m) <= 0 /\ Measure(o, m, r) <= 0
  BY <1>1, <1>2
<1>5. /\ Measure(o, l, r) <= 0
      /\ Measure(o, l, r) = 0 => Measure(o, l, m) = 0 /\ Measure(o, m, r) = 0
  BY <1>4, MeasureTransitive
<1>6. \A n \in Installed(a) : BindingOf(a, n) \in Binding /\ n \in Transports
  BY Names
<1>7. \A n \in Installed(a) : BindingOf(a, n).rank \in Nat /\ BindingOf(a, n).units \in Nat
                              /\ BindingOf(a, n).model \in Nat
  BY <1>6 DEF Binding
<1>8. \A n, k \in Installed(a) : BindingOf(a, n).model = BindingOf(a, k).model
  <2>1. \A n \in Installed(a) : \E i \in DOMAIN a.bindings : BindingOf(a, n) = a.bindings[i]
    BY DEF Installed, BindingOf
  <2> QED
    BY <2>1
<1>9. Cost(a, l, r) = Cost(a, l, m) + Cost(a, m, r)
  BY <1>7, <1>8 DEF Cost, CostDifference
<1>10. \A n \in Installed(a) : TransportId[n] \in Nat
  BY <1>6 DEF TransportId, Transports
<1>11. \A p : Flag(p) \in Int
  BY DEF Flag
<1>12. /\ Official(a, l, m) <= 0 /\ Official(a, m, r) <= 0 => Official(a, l, r) <= 0
  <2> DEFINE f(n) == Flag(IsPreferred(a.policy, n))
             g(n) == BindingOf(a, n).rank
             h(n) == TransportId[n]
  <2>1. \A n, k : Official(a, n, k) = First3(f(n) - f(k), g(n) - g(k), h(n) - h(k))
    BY DEF Official
  <2>2. /\ f(l) \in Int /\ f(m) \in Int /\ f(r) \in Int
        /\ g(l) \in Int /\ g(m) \in Int /\ g(r) \in Int
        /\ h(l) \in Int /\ h(m) \in Int /\ h(r) \in Int
    BY <1>7, <1>10, <1>11
  <2> HIDE DEF f, g, h
  <2> QED
    BY <2>1, <2>2 DEF First3
<1>13. CASE Measure(o, l, r) # 0
  BY <1>3, <1>5, <1>13
<1>14. CASE Measure(o, l, r) = 0
  <2>1. /\ Compare(a, o, l, m) = IF Cost(a, l, m) # 0 THEN Cost(a, l, m) ELSE Official(a, l, m)
        /\ Compare(a, o, m, r) = IF Cost(a, m, r) # 0 THEN Cost(a, m, r) ELSE Official(a, m, r)
        /\ Compare(a, o, l, r) = IF Cost(a, l, r) # 0 THEN Cost(a, l, r) ELSE Official(a, l, r)
    BY <1>1, <1>2, <1>3, <1>5, <1>14
  <2>2. Cost(a, l, m) <= 0 /\ Cost(a, m, r) <= 0
    BY <1>1, <1>2, <2>1
  <2> QED
    BY <1>1, <1>2, <1>3, <1>9, <1>12, <2>1, <2>2
<1> QED
  BY <1>13, <1>14

\* Whoever was measured successfully has an observation, when there are several.
LEMMA SuccessfulMeasured ==
  ASSUME IInv, Cardinality(Successful(ask, obs)) > 1, NEW n \in Successful(ask, obs)
  PROVE  obs[n] \in Observation /\ n \in Installed(ask) /\ Asked(ask)
<1>1. Asked(ask)
  BY AsksAsked DEF IInv, AskInv
<1>2. n \in DOMAIN obs /\ n \in Eligible(ask)
  BY <1>1, SuccessfulOnes
<1> QED
  BY <1>1, <1>2 DEF Eligible, IInv, AskInv

(* StartedOrExplained: _client_candidate_diagnostics gives a reason for every transport when
   connect is refused, and _resolve_server_routes leaves out no configured route. *)
THEOREM StartedOrExplainedHolds == Spec => []StartedOrExplained
<1>1. IInv => RefusalExplained
  <2> SUFFICES ASSUME IInv, phase = "refused", ask.role = "client", ~HasDuplicates(ask.bindings)
               PROVE  /\ \A n \in ClientNames(ask) : ClientDiagnostics(ask, obs)[n] # "none"
                      /\ ErrorCode(ask) = "forced_transport_unavailable"
                           => ask.policy.name \in DOMAIN ClientDiagnostics(ask, obs)
    BY DEF RefusalExplained
  <2>1. Asked(ask) /\ Selectable(ask, obs) = {}
    BY AsksAsked DEF IInv, AskInv, Server
  <2> DEFINE best == Successful(ask, obs)
             before == SelectedBefore(ask, obs)
  <2>2. best \in SUBSET Transports /\ Cardinality(best) \in Nat /\ IsFiniteSet(best)
    BY <2>1, SuccessfulOnes
  <2>3. best = {}
    <3>1. CASE Cardinality(best) <= 1
      BY <2>1, <3>1 DEF Selectable
    <3>2. CASE Cardinality(best) > 1
      <4>1. ASSUME NEW x \in best, NEW y \in best, x # y PROVE <<x, y>> \in before \/ <<y, x>> \in before
        <5>1. /\ obs[x] \in Observation /\ x \in Installed(ask)
              /\ obs[y] \in Observation /\ y \in Installed(ask)
          BY <3>2, <4>1, SuccessfulMeasured
        <5>2. /\ Compare(ask, obs, y, x) = -Compare(ask, obs, x, y)
              /\ Compare(ask, obs, x, y) \in Int
          BY <2>1, <5>1, CompareTurned
        <5>3. Compare(ask, obs, x, y) <= 0 \/ Compare(ask, obs, y, x) <= 0
          BY <5>2
        <5> QED
          BY <4>1, <5>3 DEF SelectedBefore
      <4> HIDE DEF best, before
      <4>2. PICK s : s \in Orders(best, before)
        BY <2>2, <4>1, OrdersExist
      <4>3. ~(Cardinality(best) <= 1)
        BY <2>2, <3>2
      <4>4. s[1] \in Selectable(ask, obs)
        BY <4>2, <4>3 DEF Selectable, SelectedBefore, best, before
      <4> QED
        BY <2>1, <4>4
    <3> QED
      BY <2>2, <3>1, <3>2
  <2>4. ASSUME NEW n \in ClientNames(ask) PROVE FinalRejection(ask, obs, n) # "none"
    <3>1. n \notin Eligible(ask) \/ FinalRejection(ask, obs, n) # "none"
      BY <2>3 DEF Successful
    <3>2. ASSUME Rejection(ask, n, PeerSupported(ask)) = "none" PROVE n \in Eligible(ask)
      <4>1. Available(ask, n)
        BY <3>2, RejectionIs
      <4> QED
        BY <3>2, <4>1 DEF Eligible, Available
    <3>3. Rejection(ask, n, PeerSupported(ask)) # "none" => FinalRejection(ask, obs, n) # "none"
      BY DEF FinalRejection
    <3> QED
      BY <3>1, <3>2, <3>3
  <2>5. ErrorCode(ask) = "forced_transport_unavailable" => ask.policy.name \in ClientNames(ask)
    BY DEF ErrorCode, ForcedTransport, ClientNames
  <2> QED
    BY <2>4, <2>5 DEF ClientDiagnostics
<1>2. IInv => ConfiguredListens
  <2> SUFFICES ASSUME IInv, Server, phase = "up", NEW n \in DOMAIN ask.routes,
                      PolicyAllows(ask.policy, n), SecuritySatisfied(ask, n)
               PROVE  \E i \in DOMAIN routes : routes[i] = n
    BY DEF ConfiguredListens
  <2>1. Asked(ask) /\ routes \in ListenOrders(ask) /\ ~RequiredFailure(ask)
    BY AsksAsked DEF IInv, AskInv, RouteInv, Selecting
  <2>2. n \in ServerNames(ask) /\ n \in Transports
    BY <2>1 DEF ServerNames, Asked
  <2>3. /\ Rejection(ask, n, Transports) # "route_unresolved"
        /\ Rejection(ask, n, Transports) # "local_unavailable"
    BY <2>1, <2>2 DEF RequiredFailure
  <2>4. Rejection(ask, n, Transports) = "none"
    BY <2>2, <2>3, RejectionIs
  <2>5. n \in Listening(ask)
    BY <2>2, <2>4 DEF Listening
  <2> QED
    BY <2>1, <2>5, ListenOrdersList
<1>3. IInv => StartedOrExplained
  BY <1>1, <1>2 DEF StartedOrExplained
<1> QED
  BY <1>3, Invariant, PTL

\* The first of the sorted candidates against any other.
LEMMA FirstIsBest ==
  ASSUME IInv, Cardinality(Successful(ask, obs)) > 1,
         NEW s \in Orders(Successful(ask, obs), SelectedBefore(ask, obs)),
         NEW n \in Successful(ask, obs), n # s[1]
  PROVE  /\ Measure(obs, s[1], n) <= 0
         /\ OneCostModel => Compare(ask, obs, s[1], n) <= 0
<1> DEFINE best == Successful(ask, obs)
           c == Cardinality(best)
           M(x, y) == Measure(obs, x, y) <= 0
           C(x, y) == Compare(ask, obs, x, y) <= 0
<1>1. /\ Asked(ask)
      /\ \A x \in best : obs[x] \in Observation /\ x \in Installed(ask)
  BY SuccessfulMeasured
<1>2. best \in SUBSET Transports /\ IsFiniteSet(best)
  BY <1>1, SuccessfulOnes
<1>3. c \in Nat /\ c <= 4
  BY <1>2, TransportsFinite, FS_Subset, FS_CardinalityType
<1>4. /\ s \in Seq(best) /\ Len(s) = c /\ DOMAIN s = 1 .. c
      /\ \E i \in DOMAIN s : s[i] = n
      /\ \A i \in DOMAIN s : i > 1 => <<s[i - 1], s[i]>> \in SelectedBefore(ask, obs)
  BY <1>2, OrdersList, LenProperties
<1> HIDE DEF best, c
<1>5. \A i \in 1 .. c : s[i] \in best
  BY <1>4, ElementOfSeq
<1>6. \A x, y \in best : C(x, y) => M(x, y)
  <2> SUFFICES ASSUME NEW x \in best, NEW y \in best, C(x, y) PROVE M(x, y)
    OBVIOUS
  <2>1. /\ Measure(obs, x, y) \in Int
        /\ Compare(ask, obs, x, y) =
             IF Measure(obs, x, y) # 0 THEN Measure(obs, x, y)
             ELSE IF Cost(ask, x, y) # 0 THEN Cost(ask, x, y) ELSE Official(ask, x, y)
    BY <1>1, CompareIs
  <2> QED
    BY <2>1
<1>7. \A i \in 1 .. c : i > 1 => C(s[i - 1], s[i])
  BY <1>4 DEF SelectedBefore
<1>8. \A x, y, z \in best : M(x, y) /\ M(y, z) => M(x, z)
  BY <1>1, MeasureTransitive
<1>9. OneCostModel => \A x, y, z \in best : C(x, y) /\ C(y, z) => C(x, z)
  BY <1>1, CompareTransitive DEF OneCostModel
<1> HIDE DEF M, C
<1>10. PICK i \in 1 .. c : s[i] = n
  BY <1>4
<1>11. i # 1
  BY <1>10
<1>12. i = 2 \/ i = 3 \/ i = 4
  BY <1>3, <1>10, <1>11
<1>13. /\ C(s[1], s[2]) /\ s[1] \in best /\ s[2] \in best
       /\ i >= 3 => C(s[2], s[3]) /\ s[3] \in best
       /\ i >= 4 => C(s[3], s[4]) /\ s[4] \in best
  <2>1. 1 \in 1 .. c /\ 2 \in 1 .. c /\ 2 - 1 = 1 /\ 3 - 1 = 2 /\ 4 - 1 = 3
    BY <1>3, <1>10, <1>11
  <2>2. C(s[1], s[2])
    BY <1>7, <2>1
  <2>3. i >= 3 => 3 \in 1 .. c
    BY <1>3, <1>10
  <2>4. i >= 4 => 4 \in 1 .. c
    BY <1>3, <1>10
  <2>5. i >= 3 => C(s[2], s[3])
    BY <1>7, <2>1, <2>3
  <2>6. i >= 4 => C(s[3], s[4])
    BY <1>7, <2>1, <2>4
  <2> QED
    BY <1>5, <2>1, <2>2, <2>3, <2>4, <2>5, <2>6
<1>14. M(s[1], n)
  BY <1>6, <1>8, <1>10, <1>12, <1>13
<1>15. OneCostModel => C(s[1], n)
  BY <1>9, <1>10, <1>12, <1>13
<1> QED
  BY <1>14, <1>15 DEF M, C

(* BestIsTaken: _select_native_transport_provider_from_providers takes the best of the
   candidates that were measured, and every candidate that could be taken was measured. *)
THEOREM BestIsTakenHolds == Spec => []BestIsTaken
<1>1. IInv => SelectedIsBest
  <2> SUFFICES ASSUME IInv, Chosen, NEW n \in Successful(ask, obs) \ {routes[1]}
               PROVE  /\ FirstDifference(Measured(obs[n], obs[routes[1]])) >= 0
                      /\ OneCostModel => Compare(ask, obs, routes[1], n) < 0
    BY DEF SelectedIsBest
  <2>1. Asked(ask)
    BY AsksAsked DEF IInv, AskInv
  <2>2. PICK m \in Selectable(ask, obs) : routes = <<m>>
    BY DEF IInv, RouteInv, Chosen, Server, Selecting
  <2>3. routes[1] = m /\ n # m /\ n \in Successful(ask, obs) /\ m \in Successful(ask, obs)
    BY <2>1, <2>2, SelectedOnes
  <2>4. Cardinality(Successful(ask, obs)) > 1
    <3>1. IsFiniteSet(Successful(ask, obs)) /\ Cardinality(Successful(ask, obs)) \in Nat
      BY <2>1, SuccessfulOnes
    <3>2. Cardinality(Successful(ask, obs)) # 0 /\ Cardinality(Successful(ask, obs)) # 1
      BY <2>3, <3>1, FS_EmptySet, FS_Singleton
    <3> QED
      BY <3>1, <3>2
  <2>5. PICK s \in Orders(Successful(ask, obs), SelectedBefore(ask, obs)) : m = s[1]
    BY <2>1, <2>4, SelectedOnes
  <2>6. /\ Measure(obs, m, n) <= 0
        /\ OneCostModel => Compare(ask, obs, m, n) <= 0
    BY <2>3, <2>4, <2>5, FirstIsBest
  <2>7. /\ obs[m] \in Observation /\ m \in Installed(ask)
        /\ obs[n] \in Observation /\ n \in Installed(ask)
    BY <2>3, <2>4, SuccessfulMeasured
  <2>8. /\ Measure(obs, n, m) = -Measure(obs, m, n)
        /\ Compare(ask, obs, m, n) \in Int /\ Compare(ask, obs, m, n) # 0
    BY <2>1, <2>3, <2>7, CompareTurned
  <2>9. FirstDifference(Measured(obs[n], obs[m])) = Measure(obs, n, m) /\ Measure(obs, m, n) \in Int
    BY <2>1, <2>7, CompareIs
  <2> QED
    BY <2>3, <2>6, <2>8, <2>9
<1>2. IInv => EveryoneProbed
  <2> SUFFICES ASSUME IInv, phase = "probe", todo = <<>>, NEW n \in ClientNames(ask)
               PROVE  FinalRejection(ask, obs, n) # "probe_missing"
    BY DEF EveryoneProbed
  <2>1. Asked(ask) /\ ProbedNames(ask) \subseteq DOMAIN obs
    BY AsksAsked, EmptyList DEF IInv, AskInv
  <2>2. Rejection(ask, n, PeerSupported(ask)) # "probe_missing"
    BY RejectionIs
  <2>3. CASE Rejection(ask, n, PeerSupported(ask)) # "none"
    BY <2>2, <2>3 DEF FinalRejection
  <2>4. CASE Rejection(ask, n, PeerSupported(ask)) = "none"
    <3> DEFINE eligible == {k \in Installed(ask) :
                              /\ Available(ask, k)
                              /\ PolicyAllows(ask.policy, k)
                              /\ k \in PeerSupported(ask)
                              /\ ResolveEndpoint(ask, k) # "unresolved"
                              /\ SecuritySatisfied(ask, k)}
    <3>1. eligible = Eligible(ask)
      <4>1. \A k : k \in eligible <=> k \in Installed(ask) /\ Rejection(ask, k, PeerSupported(ask)) = "none"
        BY RejectionIs
      <4> QED
        BY <4>1 DEF Eligible
    <3>2. n \in Eligible(ask)
      BY <2>4, RejectionIs DEF Eligible, Available
    <3>3. IsFiniteSet(Eligible(ask)) /\ Cardinality(Eligible(ask)) \in Nat /\ Cardinality(Eligible(ask)) # 0
      BY <2>1, <3>2, SuccessfulOnes, FS_EmptySet
    <3>4. CASE Cardinality(Eligible(ask)) = 1
      BY <2>4, <3>4 DEF FinalRejection
    <3>5. CASE Cardinality(Eligible(ask)) # 1
      <4>1. ProbedNames(ask) = IF Cardinality(eligible) <= 1 THEN {} ELSE eligible
        BY DEF ProbedNames
      <4> HIDE DEF eligible
      <4>2. n \in ProbedNames(ask)
        BY <3>1, <3>2, <3>3, <3>5, <4>1
      <4> QED
        BY <2>1, <2>4, <4>2 DEF FinalRejection
    <3> QED
      BY <3>4, <3>5
  <2> QED
    BY <2>3, <2>4
<1>3. IInv => BestIsTaken
  BY <1>1, <1>2 DEF BestIsTaken
<1> QED
  BY <1>3, Invariant, PTL

=============================================================================
