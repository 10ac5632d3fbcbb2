------------------------ MODULE NativeServerProofs -------------------------
(***************************************************************************)
(* Proofs about NativeServer for any number of transports, threads and     *)
(* policy requests: the type invariant with TicketKeepsId, what a close    *)
(* leaves behind (ClosedLeavesNothing), and that the close of a policy     *)
(* dispatcher raises every error (PolicyErrorsRaised).                     *)
(***************************************************************************)
EXTENDS NativeServer, FiniteSetTheorems, TLAPS

\* The names of groups of variables stand for their tuples throughout.
USE DEF policyVars, idVars, ticketVars, nativeVars, sessionVars, leftVars, threadVars

\* accept runs under _accept_lock, within the bound on the ids it may allocate.
LockHeld ==
  \A t \in Threads : pc[t] \in Accepting => acceptLock = t /\ (pc[t] # "expire" => IdsLeft)

\* Where an accept has an id and, but for the last place, works with a ticket.
Working == {"check", "store", "keep", "wait", "claim"}

IdChosen ==
  \A t \in Threads : pc[t] \in Working \cup {"claimed"} => handleIds[index[t]] # 0

\* Ids are never used twice: not by two servers, nor for a server and a session.
IdsFresh ==
  /\ \A i \in Servers : handleIds[i] < nextId
  /\ \A i, j \in Servers : handleIds[i] = handleIds[j] /\ handleIds[i] # 0 => i = j
  /\ \A m \in DOMAIN sessions : sessions[m] < nextId /\ \A i \in Servers : handleIds[i] # sessions[m]

\* A server's ticket was begun with the id NativeServer keeps for it, and so was the one
\* an accept works with; an accept gives up an id after the ticket.
BegunFor ==
  /\ \A i \in Servers : ticket[i] # 0 => ticket[i] \in DOMAIN begun /\ begun[ticket[i]] = handleIds[i]
  /\ \A t \in Threads : pc[t] \in Working => held \in DOMAIN begun /\ begun[held] = handleIds[index[t]]
  /\ \A t \in Threads : pc[t] = "expire" /\ phase[t] = "forget" => ticket[index[t]] = 0

\* NativeRuntimeServer has the id of its ticket, unless it is about to store it or a
\* close has begun to take both away.
IdKept ==
  ~CloseRuns => \A i \in Servers :
    ticket[i] # 0 => ticketId[i] = handleIds[i] \/ \E t \in Threads : pc[t] = "keep" /\ index[t] = i

AcceptInv == TicketKeepsId /\ LockHeld /\ IdChosen /\ IdsFresh /\ BegunFor /\ IdKept

-----------------------------------------------------------------------------
\* A native ticket that is live is kept by its server, about to be, or left.
LiveKept ==
  \A x \in live : \/ x \in ticketsLeft
                  \/ \E i \in Servers : ticket[i] = x
                  \/ \E t \in Threads : pc[t] = "store" /\ held = x

\* A ticket is only stored where there is none; the one an accept works with is its
\* server's, unless a close has cleared it; a claimed one is not live.
HeldHere ==
  \A t \in Threads : /\ pc[t] = "store" => ticket[index[t]] = 0
                     /\ pc[t] \in (Working \ {"store"}) \cup {"claimed"} => ticket[index[t]] \in {0, held}
                     /\ pc[t] = "claimed" => held \notin live

\* What a close has dealt with: the ticket of a server it has released, ...
Released(i) == ticket[i] \in live => ticket[i] \in ticketsLeft
HasReleased(t) ==
  pc[t] = "connection" \/ (pc[t] \in {"release", "expire"} /\ phase[t] \in {"clear", "forget"})

TicketsReleased ==
  /\ \A i \in Servers : serverClosed[i] => Released(i)
  /\ \A t \in Threads : HasReleased(t) => Released(index[t])

\* ... the servers it has passed, from the last one down, ...
ServersPassed ==
  /\ \A t \in Threads : pc[t] \in Closing \ {"sessions"} =>
       \A j \in Servers : j > index[t] => serverClosed[j]
  /\ closed => \A j \in Servers : serverClosed[j]
  /\ (\E j \in Servers : serverClosed[j]) => CloseRuns

Settled(m) == sessions[m] \in open => sessions[m] \in sessionsLeft

\* ... and the sessions it has passed.
SessionsPassed ==
  /\ \A t \in Threads : pc[t] = "sessions" => \A m \in DOMAIN sessions : m > index[t] => Settled(m)
  /\ closed \/ (\E t \in Threads : pc[t] \in Closing \ {"sessions"}) => \A m \in DOMAIN sessions : Settled(m)

\* A native session that is open is listed, about to be, or without a transport Python
\* knows; a closed one is listed.
OpenKept ==
  /\ \A id \in open : \/ id \in unknown
                      \/ \E m \in DOMAIN sessions : sessions[m] = id
                      \/ \E t \in Threads : pc[t] = "claimed" /\ handleIds[index[t]] = id
  /\ \A id \in sessionClosed : id \notin open /\ \E m \in DOMAIN sessions : sessions[m] = id

CloseInv == LiveKept /\ HeldHere /\ TicketsReleased /\ ServersPassed /\ SessionsPassed /\ OpenKept

-----------------------------------------------------------------------------
\* A request's future is counted until its callback has run, which records its error.
FuturesCounted ==
  \A r \in Requests :
    /\ worker[r] = "none" <=> callback[r] = "none"
    /\ callback[r] \in {"missing", "added"} => r \in futures[r.server]
    /\ callback[r] = "run" => Done(r) /\ (worker[r] = "error" => firstError[r.server])

\* A close that waits for a dispatcher has closed it and seen every future whose
\* callback had not run.
JoinKnows ==
  \A t \in Threads : pc[t] = "join" =>
    /\ dispatcherClosed[index[t]]
    /\ \A r \in Requests : r.server = index[t] /\ callback[r] \in {"missing", "added"} => r \in snapshot[t]

JoinedClosed == \A i \in Servers : joined[i] # "no" => dispatcherClosed[i]

PolicyInv == FuturesCounted /\ JoinKnows /\ JoinedClosed /\ PolicyErrorsRaised

-----------------------------------------------------------------------------
(* The control of the calls. *)

\* A step of thread t, seen from the others.
OthersStay(t) == \A u \in Threads : u # t => pc'[u] = pc[u] /\ index'[u] = index[u]

(* Goto moves its own thread and no other. *)
LEMMA Moved ==
  ASSUME TypeOK, NEW t \in Threads, NEW to \in Closing \cup {"idle", "failed"} \cup Accepting,
         NEW i \in Nat, Goto(t, to, i)
  PROVE  /\ pc' \in [Threads -> Closing \cup {"idle", "failed"} \cup Accepting]
         /\ index' \in [Threads -> Nat]
         /\ pc'[t] = to /\ index'[t] = i
         /\ OthersStay(t)
  BY DEF TypeOK, Goto, OthersStay

(* The servers are numbered from 1 to Last. *)
LEMMA ServerNumbers == Last \in Nat /\ Servers = 1 .. Last /\ 1 \in Servers /\ Last \in Servers
<1>1. Last \in Nat /\ Servers = 1 .. Last
  BY ServerAssumption, FS_CardinalityType DEF Last
<1> QED
  BY <1>1, ServerAssumption

(* The part of the type invariant about where the threads are. *)
PlacesOK ==
  /\ pc \in [Threads -> Closing \cup {"idle", "failed"} \cup Accepting]
  /\ index \in [Threads -> Nat]
  /\ \A t \in Threads :
       /\ pc[t] = "sessions" => index[t] \in DOMAIN sessions
       /\ pc[t] = "servers" => index[t] \in 0..Last
       /\ pc[t] \notin {"idle", "sessions", "servers"} => index[t] \in Servers

(* A step keeps it when its own thread goes to a place with an index of that place. *)
LEMMA PlacesStep ==
  ASSUME TypeOK, NEW t \in Threads, NEW to \in Closing \cup {"idle", "failed"} \cup Accepting,
         NEW i \in Nat, Goto(t, to, i),
         to = "sessions" => i \in DOMAIN sessions,
         to = "servers" => i \in 0..Last,
         to \notin {"idle", "sessions", "servers"} => i \in Servers,
         sessions' = sessions \/ \E x \in Ids : sessions' = Append(sessions, x)
  PROVE  PlacesOK'
<1>1. DOMAIN sessions \subseteq DOMAIN sessions'
  BY DEF TypeOK
<1>2. /\ pc' \in [Threads -> Closing \cup {"idle", "failed"} \cup Accepting]
      /\ index' \in [Threads -> Nat]
      /\ pc'[t] = to /\ index'[t] = i
      /\ OthersStay(t)
  BY Moved
<1>3. ASSUME NEW u \in Threads
      PROVE  /\ pc'[u] = "sessions" => index'[u] \in DOMAIN sessions'
             /\ pc'[u] = "servers" => index'[u] \in 0..Last
             /\ pc'[u] \notin {"idle", "sessions", "servers"} => index'[u] \in Servers
  <2>1. CASE u = t
    BY <1>1, <1>2, <2>1
  <2>2. CASE u # t
    BY <1>1, <1>2, <2>2 DEF TypeOK, OthersStay
  <2> QED
    BY <2>1, <2>2
<1> QED
  BY <1>2, <1>3 DEF PlacesOK

(* And the part about how far a release is: a step that is not one of a release. *)
PhasesOK ==
  /\ phase \in [Threads -> {"free", "clear", "forget"}]
  /\ \A t \in Threads : pc[t] \notin {"expire", "release"} => phase[t] = "free"

LEMMA PhasesStep ==
  ASSUME TypeOK, NEW t \in Threads, OthersStay(t), phase' = phase,
         pc[t] \notin {"expire", "release"}
  PROVE  PhasesOK'
  BY DEF TypeOK, PhasesOK, OthersStay

(* Where the index of a thread points. *)
LEMMA IndexHere ==
  ASSUME TypeOK, NEW t \in Threads
  PROVE  /\ index[t] \in Nat
         /\ pc[t] \notin {"idle", "sessions", "servers"} => index[t] \in Servers
         /\ pc[t] = "sessions" => index[t] \in 1 .. Len(sessions)
         /\ pc[t] = "servers" => index[t] \in 0 .. Last
  BY DEF TypeOK

-----------------------------------------------------------------------------
(* accept: types, lock and ids. *)

Unnamed == {j \in Servers : handleIds[j] = 0}

(* An attempt stays within the bound on the ids: it uses at most one, and then there
   is one server less that still needs one. *)
LEMMA AttemptBound ==
  ASSUME AcceptInv, NEW i \in Servers, IdsLeft,
         handleIds' = [handleIds EXCEPT ![i] = AttemptId(i)],
         nextId' = IF AttemptId(i) = nextId THEN nextId + 1 ELSE nextId
  PROVE  /\ AttemptId(i) \in Ids
         /\ nextId' \in 1 .. (MaxIds + 1)
         /\ IdsLeft'
         /\ handleIds[i] = 0 => nextId' = nextId + 1
         /\ handleIds[i] # 0 => nextId' = nextId /\ handleIds' = handleIds
<1>1. MaxIds \in Nat /\ nextId \in 1 .. (MaxIds + 1) /\ handleIds \in [Servers -> Ids \cup {0}]
  BY ServerAssumption DEF AcceptInv, TicketKeepsId, TypeOK
<1>2. IsFiniteSet(Unnamed) /\ Cardinality(Unnamed) \in Nat
  BY FS_Subset, FS_CardinalityType, ServerAssumption DEF Unnamed
<1>3. nextId + Cardinality(Unnamed) <= MaxIds + 1
  BY DEF IdsLeft, Unnamed
<1>4. CASE handleIds[i] = 0
  <2>1. i \in Unnamed
    BY <1>4 DEF Unnamed
  <2>2. Cardinality(Unnamed \ {i}) = Cardinality(Unnamed) - 1
    BY <1>2, <2>1, FS_RemoveElement
  <2>3. AttemptId(i) = nextId /\ nextId' = nextId + 1
    BY <1>4 DEF AttemptId
  <2>4. {j \in Servers : handleIds'[j] = 0} = Unnamed \ {i}
    BY <1>1, <2>3 DEF Unnamed
  <2>5. Cardinality(Unnamed \ {i}) \in Nat
    BY <1>2, FS_RemoveElement, FS_CardinalityType
  <2>6. Cardinality(Unnamed) >= 1
    BY <1>2, <2>2, <2>5
  <2>7. nextId + 1 <= MaxIds + 1
    BY <1>1, <1>2, <1>3, <2>6
  <2>8. nextId' + Cardinality({j \in Servers : handleIds'[j] = 0}) <= MaxIds + 1
    <3>1. Cardinality({j \in Servers : handleIds'[j] = 0}) = Cardinality(Unnamed) - 1
      BY <2>2, <2>4
    <3> QED
      BY <1>1, <1>2, <1>3, <2>3, <3>1
  <2> QED
    BY <1>1, <1>4, <2>3, <2>7, <2>8 DEF IdsLeft, Ids
<1>5. CASE handleIds[i] # 0
  <2>1. AttemptId(i) = handleIds[i] /\ handleIds[i] \in Ids
    BY <1>1, <1>5 DEF AttemptId
  <2>2. handleIds[i] < nextId
    BY DEF AcceptInv, IdsFresh
  <2>3. nextId' = nextId /\ handleIds' = handleIds
    BY <1>1, <2>1, <2>2 DEF Ids
  <2> QED
    BY <1>1, <1>5, <2>1, <2>3 DEF IdsLeft
<1> QED
  BY <1>4, <1>5

(* Nobody else is inside an accept while one is. *)
Lone(t) == \A u \in Threads : u # t => pc[u] \notin Accepting

LEMMA Alone ==
  ASSUME AcceptInv, NEW t \in Threads, pc[t] \in Accepting
  PROVE  acceptLock = t /\ Lone(t)
  BY DEF AcceptInv, LockHeld, Lone

(* A close goes on until it sets the flag. *)
LEMMA CloseGoesOn ==
  ASSUME NEW t \in Threads, OthersStay(t), closed => closed',
         pc[t] \in Closing => pc'[t] \in Closing \/ closed'
  PROVE  CloseRuns => CloseRuns'
  BY DEF CloseRuns, OthersStay

(* Tickets are numbered from 1. *)
LEMMA TicketNumbers ==
  ASSUME NEW s \in Seq(Ids)
  PROVE  /\ Len(s) \in Nat /\ DOMAIN s = 1 .. Len(s) /\ 0 \notin DOMAIN s
         /\ \A x \in DOMAIN s : s[x] \in Ids
  OBVIOUS

(* In a step of an accept nobody else is in one, so that only the place its own thread
   comes to matters. *)
LEMMA AcceptPlaces ==
  ASSUME AcceptInv, NEW t \in Threads, Lone(t), OthersStay(t), closed' = closed, pc[t] \notin Closing,
         TypeOK', IdsFresh',
         pc'[t] \in Accepting => acceptLock' = t,
         pc'[t] \in Accepting \ {"expire"} => IdsLeft',
         pc'[t] \in Working \cup {"claimed"} => handleIds'[index'[t]] # 0,
         \A j \in Servers : ticket'[j] # 0 => ticket'[j] \in DOMAIN begun' /\ begun'[ticket'[j]] = handleIds'[j],
         pc'[t] \in Working => held' \in DOMAIN begun' /\ begun'[held'] = handleIds'[index'[t]],
         pc'[t] = "expire" /\ phase'[t] = "forget" => ticket'[index'[t]] = 0,
         ~CloseRuns => \A j \in Servers :
           ticket'[j] # 0 => ticketId'[j] = handleIds'[j] \/ (pc'[t] = "keep" /\ index'[t] = j),
         pc'[t] = "check" /\ ~CloseRuns => ticketId'[index'[t]] = handleIds'[index'[t]]
  PROVE  AcceptInv'
<1>1. \A u \in Threads : u # t => pc'[u] \notin Accepting
  BY DEF Lone, OthersStay
<1>2. CloseRuns => CloseRuns'
  BY CloseGoesOn
<1>3. LockHeld' /\ IdChosen'
  BY <1>1 DEF LockHeld, IdChosen, Accepting, Working
<1>4. BegunFor'
  BY <1>1 DEF BegunFor, Working, Accepting
<1>5. IdKept'
  BY <1>2 DEF IdKept
<1>6. ASSUME NEW u \in Threads, pc'[u] \in {"check", "wait", "claim"}
      PROVE  held' # 0 /\ begun'[held'] = handleIds'[index'[u]]
  <2>1. u = t
    BY <1>1, <1>6 DEF Accepting
  <2>2. held' \in DOMAIN begun' /\ begun'[held'] = handleIds'[index'[t]]
    BY <1>6, <2>1 DEF Working
  <2>3. begun' \in Seq(Ids)
    BY DEF TypeOK
  <2>4. 0 \notin DOMAIN begun'
    BY <2>3, TicketNumbers
  <2> QED
    BY <2>1, <2>2, <2>4
<1>7. \A u \in Threads : pc'[u] = "check" => u = t
  BY <1>1 DEF Accepting
<1>8. TicketKeepsId'
  BY <1>2, <1>6, <1>7 DEF TicketKeepsId
<1> QED
  BY <1>3, <1>4, <1>5, <1>8 DEF AcceptInv

(* _accept. *)
LEMMA AcceptKeeps ==
  ASSUME AcceptInv, NEW t \in Threads, Accept(t)
  PROVE  AcceptInv'
<1>1. PlacesOK' /\ pc'[t] = "try" /\ OthersStay(t)
  BY PlacesStep, Moved, ServerNumbers DEF AcceptInv, TicketKeepsId, Accept, Accepting
<1>2. PhasesOK'
  BY <1>1, PhasesStep DEF AcceptInv, TicketKeepsId, Accept
<1>3. TypeOK'
  BY <1>1, <1>2 DEF AcceptInv, TicketKeepsId, TypeOK, PolicyTypeOK, PlacesOK, PhasesOK, Accept
<1>4. \A u \in Threads : pc[u] \notin Accepting
  BY ServerAssumption DEF AcceptInv, LockHeld, Accept
<1>5. IdsLeft' /\ IdsFresh'
  BY DEF AcceptInv, IdsFresh, Accept, IdsLeft
<1>6. \A j \in Servers : ticket[j] # 0 /\ ~CloseRuns => ticketId[j] = handleIds[j]
  BY <1>4 DEF AcceptInv, IdKept, Accepting
<1>7. /\ Lone(t) /\ closed' = closed /\ pc[t] \notin Closing /\ acceptLock' = t
      /\ ticket' = ticket /\ begun' = begun /\ handleIds' = handleIds /\ ticketId' = ticketId
  BY <1>4 DEF Lone, Accept, Closing
<1>8. \A j \in Servers : ticket'[j] # 0 => ticket'[j] \in DOMAIN begun' /\ begun'[ticket'[j]] = handleIds'[j]
  BY <1>7 DEF AcceptInv, BegunFor
<1> QED
  BY <1>1, <1>3, <1>5, <1>6, <1>7, <1>8, AcceptPlaces DEF Working

(* The top of accept_session: a ticket is begun with the id of the attempt, or it is
   there, and was. *)
LEMMA AcceptTryKeeps ==
  ASSUME AcceptInv, NEW t \in Threads, AcceptTry(t)
  PROVE  AcceptInv'
<1> DEFINE i == index[t]
<1>1. /\ i \in Servers /\ pc[t] \in Accepting /\ pc[t] = "try" /\ IdsLeft
      /\ acceptLock = t /\ Lone(t) /\ TypeOK /\ pc[t] \notin Closing
  BY IndexHere, Alone DEF AcceptInv, TicketKeepsId, LockHeld, AcceptTry, Accepting, Closing
<1>2. /\ AttemptId(i) \in Ids /\ nextId' \in 1 .. (MaxIds + 1) /\ IdsLeft'
      /\ handleIds[i] = 0 => nextId' = nextId + 1
      /\ handleIds[i] # 0 => nextId' = nextId /\ handleIds' = handleIds
  BY <1>1, AttemptBound DEF AcceptTry
<1>3. PICK to \in {"failed", "check", "store"}, k \in {1, i} : Goto(t, to, k) /\ (to # "failed" => k = i)
  BY DEF AcceptTry, Fail
<1>4. PlacesOK' /\ pc'[t] = to /\ index'[t] = k /\ OthersStay(t)
  <2>1. k \in Servers /\ k \in Nat /\ sessions' = sessions
    BY <1>1, ServerNumbers, IndexHere DEF AcceptTry
  <2> QED
    BY <1>1, <1>3, <2>1, PlacesStep, Moved DEF Accepting
<1>5. PhasesOK'
  BY <1>1, <1>4, PhasesStep DEF AcceptTry
<1>6. handleIds' \in [Servers -> Ids \cup {0}] /\ handleIds'[i] = AttemptId(i)
      /\ \A j \in Servers : j # i => handleIds'[j] = handleIds[j]
  BY <1>1, <1>2 DEF TypeOK, AcceptTry
<1>7. /\ begun \in Seq(Ids) /\ Len(begun) \in Nat /\ DOMAIN begun = 1 .. Len(begun) /\ 0 \notin DOMAIN begun
      /\ \A x \in DOMAIN begun : begun[x] \in Ids
      /\ Len(begun) <= MaxTickets /\ MaxTickets \in Nat /\ live \subseteq DOMAIN begun /\ 0 \notin Ids
  BY <1>1, TicketNumbers, ServerAssumption DEF TypeOK, Ids
<1>8. /\ begun' \in Seq(Ids) /\ Len(begun') <= MaxTickets /\ live' \subseteq DOMAIN begun' /\ held' \in Tickets \cup {0}
      /\ DOMAIN begun \subseteq DOMAIN begun' /\ \A x \in DOMAIN begun : begun'[x] = begun[x]
      /\ to = "store" => held' \in DOMAIN begun' /\ begun'[held'] = AttemptId(i)
      /\ to = "check" => held' = ticket[i] /\ ticket[i] # 0
  <2>1. CASE begun' = begun /\ live' = live /\ held' = 0 /\ to = "failed"
    BY <1>7, <2>1
  <2>2. CASE begun' = begun /\ live' = live /\ held' = ticket[i] /\ ticket[i] # 0 /\ to = "check"
    BY <1>1, <1>7, <2>2 DEF TypeOK
  <2>3. CASE /\ Len(begun) < MaxTickets /\ begun' = Append(begun, AttemptId(i)) /\ held' = Len(begun) + 1
             /\ live' = live \cup {Len(begun) + 1} /\ to = "store"
    <3>1. /\ begun' \in Seq(Ids) /\ Len(begun') = Len(begun) + 1 /\ DOMAIN begun' = 1 .. (Len(begun) + 1)
          /\ begun'[Len(begun) + 1] = AttemptId(i) /\ \A x \in DOMAIN begun : begun'[x] = begun[x]
      BY <1>2, <1>7, <2>3
    <3>2. held' \in DOMAIN begun' /\ held' \in Tickets /\ Len(begun') <= MaxTickets
          /\ DOMAIN begun \subseteq DOMAIN begun'
      BY <1>7, <2>3, <3>1 DEF Tickets
    <3>3. live' \subseteq DOMAIN begun'
      BY <1>7, <2>3, <3>2
    <3> QED
      BY <2>3, <3>1, <3>2, <3>3
  <2>4. pc'[t] \in {"failed", "check", "store"} /\ pc'[t] = to
    BY <1>4
  <2>5. \/ Fail(t) /\ UNCHANGED <<begun, live>>
        \/ held' = ticket[i] /\ ticket[i] # 0 /\ Goto(t, "check", i) /\ UNCHANGED <<begun, live>>
        \/ /\ Len(begun) < MaxTickets /\ begun' = Append(begun, AttemptId(i)) /\ held' = Len(begun) + 1
           /\ live' = live \cup {Len(begun) + 1} /\ Goto(t, "store", i)
    BY DEF AcceptTry
  <2>6. \A x \in {"failed", "check", "store"} : \A y \in {1, i} : Goto(t, x, y) => to = x
    <3>1. ASSUME NEW x \in {"failed", "check", "store"}, NEW y \in {1, i}, Goto(t, x, y) PROVE to = x
      BY <1>1, <1>3, <3>1 DEF Goto, TypeOK
    <3> QED
      BY <3>1
  <2> QED
    BY <2>1, <2>2, <2>3, <2>5, <2>6 DEF Fail
<1>9. TypeOK'
  BY <1>1, <1>2, <1>4, <1>5, <1>6, <1>8
     DEF TypeOK, PolicyTypeOK, PlacesOK, PhasesOK, AcceptTry
<1>10. IdsFresh'
  <2>1. nextId \in Nat /\ \A j \in Servers : handleIds[j] \in Nat
    BY <1>1, ServerAssumption DEF TypeOK, Ids
  <2>2. sessions' = sessions /\ \A m \in DOMAIN sessions : sessions[m] \in Nat
    BY <1>1, ServerAssumption DEF TypeOK, Ids, AcceptTry
  <2>3. CASE handleIds[i] = 0
    <3>1. nextId' = nextId + 1 /\ handleIds'[i] = nextId
      BY <1>2, <1>6, <2>3 DEF AttemptId
    <3> QED
      BY <1>1, <1>6, <2>1, <2>2, <3>1 DEF AcceptInv, IdsFresh
  <2>4. CASE handleIds[i] # 0
    BY <1>2, <2>2, <2>4 DEF AcceptInv, IdsFresh
  <2> QED
    BY <2>3, <2>4
<1>11. ASSUME NEW j \in Servers, ticket[j] # 0
       PROVE  /\ ticket[j] \in DOMAIN begun /\ begun[ticket[j]] = handleIds[j] /\ handleIds'[j] = handleIds[j]
              /\ ~CloseRuns => ticketId[j] = handleIds[j]
  <2>1. ticket[j] \in DOMAIN begun /\ begun[ticket[j]] = handleIds[j]
    BY <1>11 DEF AcceptInv, BegunFor
  <2>2. handleIds[j] # 0
    BY <1>7, <2>1
  <2>3. \A u \in Threads : pc[u] # "keep"
    BY <1>1 DEF Lone, Accepting
  <2>4. ~CloseRuns => ticketId[j] = handleIds[j]
    BY <1>11, <2>3 DEF AcceptInv, IdKept
  <2> QED
    BY <1>2, <1>6, <2>1, <2>2, <2>4
<1>12. UNCHANGED <<ticket, ticketId, closed, acceptLock>>
  BY DEF AcceptTry
<1>13. AttemptId(i) # 0
  BY <1>2, <1>7
<1>14. to = "check" => held' \in DOMAIN begun' /\ begun'[held'] = handleIds'[i]
  BY <1>1, <1>8, <1>11
<1>15. to # "keep" /\ to # "expire"
  OBVIOUS
<1> HIDE DEF i
<1> QED
  BY <1>1, <1>2, <1>3, <1>4, <1>6, <1>8, <1>9, <1>10, <1>11, <1>12, <1>13, <1>14, <1>15, AcceptPlaces
     DEF Working, Accepting

(* The new ticket is stored on its server. *)
LEMMA AcceptStoreKeeps ==
  ASSUME AcceptInv, NEW t \in Threads, AcceptStore(t)
  PROVE  AcceptInv'
<1> DEFINE i == index[t]
<1>1. /\ i \in Servers /\ pc[t] \in Accepting /\ pc[t] = "store" /\ IdsLeft /\ handleIds[i] # 0
      /\ acceptLock = t /\ Lone(t) /\ TypeOK /\ pc[t] \notin Closing
  BY IndexHere, Alone
     DEF AcceptInv, TicketKeepsId, LockHeld, IdChosen, AcceptStore, Accepting, Closing, Working
<1>2. PlacesOK' /\ pc'[t] = "keep" /\ index'[t] = i /\ OthersStay(t)
  BY <1>1, PlacesStep, Moved, IndexHere DEF AcceptStore, Accepting
<1>3. PhasesOK'
  BY <1>1, <1>2, PhasesStep DEF AcceptStore
<1>4. held \in DOMAIN begun /\ begun[held] = handleIds[i]
  BY <1>1 DEF AcceptInv, BegunFor, Working
<1>5. held \in Tickets
  <2>1. begun \in Seq(Ids) /\ held \in Tickets \cup {0}
    BY <1>1 DEF TypeOK
  <2>2. 0 \notin DOMAIN begun
    BY <2>1, TicketNumbers
  <2> QED
    BY <1>4, <2>1, <2>2
<1>6. /\ ticket' \in [Servers -> Tickets \cup {0}] /\ ticketsLeft' \subseteq Tickets
      /\ ticket'[i] = held /\ \A j \in Servers : j # i => ticket'[j] = ticket[j]
  BY <1>1, <1>5 DEF TypeOK, AcceptStore
<1>7. TypeOK'
  BY <1>1, <1>2, <1>3, <1>6 DEF TypeOK, PolicyTypeOK, PlacesOK, PhasesOK, AcceptStore
<1>8. IdsFresh' /\ IdsLeft'
  BY <1>1 DEF AcceptInv, IdsFresh, IdsLeft, AcceptStore
<1>9. UNCHANGED <<closed, acceptLock, handleIds, held, begun, ticketId>>
  BY DEF AcceptStore
<1>10. \A j \in Servers : ticket'[j] # 0 => ticket'[j] \in DOMAIN begun' /\ begun'[ticket'[j]] = handleIds'[j]
  BY <1>4, <1>6, <1>9 DEF AcceptInv, BegunFor
<1>11. ~CloseRuns => \A j \in Servers : ticket'[j] # 0 => ticketId'[j] = handleIds'[j] \/ j = i
  <2>1. \A u \in Threads : pc[u] # "keep"
    BY <1>1 DEF Lone, Accepting
  <2> QED
    BY <1>6, <1>9, <2>1 DEF AcceptInv, IdKept
<1> QED
  BY <1>1, <1>2, <1>4, <1>7, <1>8, <1>9, <1>10, <1>11, AcceptPlaces

(* ... and then its id. *)
LEMMA AcceptKeepKeeps ==
  ASSUME AcceptInv, NEW t \in Threads, AcceptKeep(t)
  PROVE  AcceptInv'
<1> DEFINE i == index[t]
<1>1. /\ i \in Servers /\ pc[t] \in Accepting /\ pc[t] = "keep" /\ IdsLeft /\ handleIds[i] # 0
      /\ acceptLock = t /\ Lone(t) /\ TypeOK /\ pc[t] \notin Closing
  BY IndexHere, Alone
     DEF AcceptInv, TicketKeepsId, LockHeld, IdChosen, AcceptKeep, Accepting, Closing, Working
<1>2. PlacesOK' /\ pc'[t] = "wait" /\ index'[t] = i /\ OthersStay(t)
  BY <1>1, PlacesStep, Moved, IndexHere DEF AcceptKeep, Accepting
<1>3. PhasesOK'
  BY <1>1, <1>2, PhasesStep DEF AcceptKeep
<1>4. held \in DOMAIN begun /\ begun[held] = handleIds[i]
  BY <1>1 DEF AcceptInv, BegunFor, Working
<1>5. /\ ticketId' \in [Servers -> Ids \cup {0}]
      /\ ticketId'[i] = handleIds[i] /\ \A j \in Servers : j # i => ticketId'[j] = ticketId[j]
  BY <1>1 DEF TypeOK, AcceptKeep
<1>6. TypeOK'
  BY <1>1, <1>2, <1>3, <1>5 DEF TypeOK, PolicyTypeOK, PlacesOK, PhasesOK, AcceptKeep
<1>7. IdsFresh' /\ IdsLeft'
  BY <1>1 DEF AcceptInv, IdsFresh, IdsLeft, AcceptKeep
<1>8. UNCHANGED <<closed, acceptLock, handleIds, held, begun, ticket>>
  BY DEF AcceptKeep
<1>9. \A j \in Servers : ticket'[j] # 0 => ticket'[j] \in DOMAIN begun' /\ begun'[ticket'[j]] = handleIds'[j]
  BY <1>8 DEF AcceptInv, BegunFor
<1>10. ~CloseRuns => \A j \in Servers : ticket'[j] # 0 => ticketId'[j] = handleIds'[j]
  <2>1. \A u \in Threads : pc[u] = "keep" => u = t
    BY <1>1 DEF Lone, Accepting
  <2> QED
    BY <1>5, <1>8, <2>1 DEF AcceptInv, IdKept
<1> QED
  BY <1>1, <1>2, <1>4, <1>6, <1>7, <1>8, <1>9, <1>10, AcceptPlaces

(* The steps of an accept that change no id and store no ticket. *)
LEMMA AcceptMoves ==
  ASSUME AcceptInv, NEW t \in Threads, pc[t] \in {"check", "wait", "claim", "deadline"},
         NEW to \in {"try", "wait", "claim", "claimed", "deadline", "expire", "failed"}, NEW i \in Servers,
         Goto(t, to, i),
         to \in {"wait", "claim", "claimed"} => i = index[t] /\ pc[t] # "deadline" /\ held' = held,
         held' \in {0, held}, live' \subseteq DOMAIN begun, open' \subseteq Ids,
         UNCHANGED <<policyVars, closed, acceptLock, idVars, sessionVars, ticketVars, serverClosed, begun,
                     phase, err, snapshot, leftVars, joined>>
  PROVE  AcceptInv'
<1>1. /\ pc[t] \in Accepting /\ IdsLeft /\ acceptLock = t /\ Lone(t) /\ TypeOK /\ pc[t] \notin Closing
  BY Alone DEF AcceptInv, TicketKeepsId, LockHeld, Accepting, Closing
<1>2. PlacesOK' /\ pc'[t] = to /\ index'[t] = i /\ OthersStay(t)
  <2>1. /\ i \in Nat /\ sessions' = sessions
        /\ to \in Closing \cup {"idle", "failed"} \cup Accepting
        /\ to \notin {"idle", "sessions", "servers"}
    BY ServerNumbers DEF Accepting
  <2> QED
    BY <1>1, <2>1, PlacesStep, Moved
<1>3. PhasesOK'
  BY <1>1, <1>2, PhasesStep
<1>4. TypeOK'
  BY <1>1, <1>2, <1>3 DEF TypeOK, PolicyTypeOK, PlacesOK, PhasesOK
<1>5. IdsFresh' /\ IdsLeft'
  BY <1>1 DEF AcceptInv, IdsFresh, IdsLeft
<1>6. to \in {"wait", "claim", "claimed"} => handleIds'[i] # 0 /\ pc[t] \in {"check", "wait", "claim"}
  BY DEF AcceptInv, IdChosen, Working
<1>7. to \in {"wait", "claim"} => held' \in DOMAIN begun' /\ begun'[held'] = handleIds'[i]
  BY <1>6 DEF AcceptInv, BegunFor, Working
<1>8. \A j \in Servers : ticket'[j] # 0 => ticket'[j] \in DOMAIN begun' /\ begun'[ticket'[j]] = handleIds'[j]
  BY DEF AcceptInv, BegunFor
<1>9. ~CloseRuns => \A j \in Servers : ticket'[j] # 0 => ticketId'[j] = handleIds'[j]
  <2>1. \A u \in Threads : pc[u] # "keep"
    BY <1>1 DEF Lone, Accepting
  <2> QED
    BY <2>1 DEF AcceptInv, IdKept
<1>10. phase'[t] = "free"
  BY <1>1 DEF TypeOK
<1> QED
  BY <1>1, <1>2, <1>4, <1>5, <1>6, <1>7, <1>8, <1>9, <1>10, AcceptPlaces DEF Working

(* The comparison of the two ids of a pending ticket. *)
LEMMA AcceptCheckKeeps ==
  ASSUME AcceptInv, NEW t \in Threads, AcceptCheck(t)
  PROVE  AcceptInv'
<1>1. index[t] \in Servers /\ pc[t] = "check" /\ 1 \in Servers
  BY IndexHere, ServerNumbers DEF AcceptInv, TicketKeepsId, AcceptCheck
<1>2. /\ live' \subseteq DOMAIN begun /\ open' \subseteq Ids
      /\ UNCHANGED <<policyVars, closed, acceptLock, idVars, sessionVars, ticketVars, serverClosed, begun,
                     phase, err, snapshot, leftVars, joined>>
  BY DEF AcceptInv, TicketKeepsId, TypeOK, AcceptCheck
<1>3. \/ Goto(t, "wait", index[t]) /\ held' = held
      \/ Goto(t, "failed", 1) /\ held' = 0
  BY DEF AcceptCheck, Fail
<1> QED
  BY <1>1, <1>2, <1>3, AcceptMoves

(* A poll that would block keeps the id of its server, the next place is a server's. *)
LEMMA WouldBlockMoves ==
  ASSUME AcceptInv, NEW t \in Threads, index[t] \in Servers, WouldBlock(t)
  PROVE  /\ handleIds' = handleIds /\ held' = 0
         /\ \E to \in {"try", "deadline"}, i \in Servers : Goto(t, to, i)
<1>1. handleIds' = handleIds /\ held' = 0
  BY DEF AcceptInv, TicketKeepsId, TypeOK, WouldBlock, KeptId
<1>2. CASE index[t] < Last /\ Goto(t, "try", index[t] + 1)
  <2>1. index[t] + 1 \in Servers
    BY <1>2, ServerNumbers
  <2> QED
    BY <1>1, <1>2, <2>1
<1>3. CASE Goto(t, "deadline", 1)
  BY <1>1, <1>3, ServerNumbers
<1> QED
  BY <1>2, <1>3 DEF WouldBlock

(* server_accept_wait and server_accept_claim. *)
LEMMA AcceptPollKeeps ==
  ASSUME AcceptInv, NEW t \in Threads, AcceptWait(t) \/ AcceptClaim(t)
  PROVE  AcceptInv'
<1>1. index[t] \in Servers /\ pc[t] \in {"wait", "claim"} /\ 1 \in Servers
  BY IndexHere, ServerNumbers DEF AcceptInv, TicketKeepsId, AcceptWait, AcceptClaim
<1>2. handleIds[index[t]] \in Ids
  BY <1>1 DEF AcceptInv, TicketKeepsId, TypeOK, IdChosen, Working
<1>3. live' \subseteq DOMAIN begun /\ open' \subseteq Ids
  BY <1>2 DEF AcceptInv, TicketKeepsId, TypeOK, AcceptWait, AcceptClaim
<1>4. /\ handleIds' = handleIds
      /\ \/ held' = 0 /\ \E to \in {"try", "deadline"}, i \in Servers : Goto(t, to, i)
         \/ held' = held /\ \E to \in {"claim", "claimed"} : Goto(t, to, index[t])
         \/ held' = 0 /\ Goto(t, "failed", 1)
  BY <1>1, WouldBlockMoves DEF AcceptWait, AcceptClaim, Fail
<1>5. UNCHANGED <<policyVars, closed, acceptLock, idVars, sessionVars, ticketVars, serverClosed, begun,
                  phase, err, snapshot, leftVars, joined>>
  BY <1>4 DEF AcceptWait, AcceptClaim
<1>6. PICK to \in {"try", "claim", "claimed", "deadline", "failed"}, i \in Servers :
        Goto(t, to, i) /\ (to \in {"claim", "claimed"} => i = index[t] /\ held' = held) /\ held' \in {0, held}
  BY <1>1, <1>4
<1> QED
  BY <1>1, <1>3, <1>5, <1>6, AcceptMoves

(* The deadline of an accept: another round, or the tickets are released. *)
LEMMA AcceptDeadlineKeeps ==
  ASSUME AcceptInv, NEW t \in Threads, AcceptAgain(t) \/ AcceptExpire(t)
  PROVE  AcceptInv'
<1>1. \E to \in {"try", "expire"} : Goto(t, to, 1)
  BY DEF AcceptAgain, AcceptExpire
<1>2. /\ pc[t] = "deadline" /\ held' = held
      /\ live' \subseteq DOMAIN begun /\ open' \subseteq Ids
      /\ UNCHANGED <<policyVars, closed, acceptLock, idVars, sessionVars, ticketVars, serverClosed, begun,
                     phase, err, snapshot, leftVars, joined>>
  BY DEF AcceptInv, TicketKeepsId, TypeOK, AcceptAgain, AcceptExpire
<1> QED
  BY <1>1, <1>2, AcceptMoves, ServerNumbers

(* The session is listed under its id, which no server uses from then on. *)
LEMMA AcceptReturnKeeps ==
  ASSUME AcceptInv, NEW t \in Threads, AcceptReturn(t)
  PROVE  AcceptInv'
<1> DEFINE i == index[t]
           id == handleIds[i]
<1>1. /\ i \in Servers /\ i \in Nat /\ pc[t] \in Accepting /\ pc[t] = "claimed" /\ id \in Ids
      /\ acceptLock = t /\ Lone(t) /\ TypeOK /\ pc[t] \notin Closing
  <2>1. /\ i \in Servers /\ i \in Nat /\ pc[t] \in Accepting /\ pc[t] = "claimed"
        /\ acceptLock = t /\ Lone(t) /\ TypeOK /\ pc[t] \notin Closing
    BY IndexHere, Alone DEF AcceptInv, TicketKeepsId, AcceptReturn, Accepting, Closing
  <2>2. id \in Ids
    BY <2>1 DEF AcceptInv, TypeOK, IdChosen
  <2> QED
    BY <2>1, <2>2
<1>2. \/ /\ Goto(t, "idle", 0) /\ sessions' = Append(sessions, id) /\ acceptLock' = NoThread
         /\ handleIds' = [handleIds EXCEPT ![i] = 0]
      \/ Goto(t, "failed", 1) /\ UNCHANGED <<sessions, handleIds, acceptLock>>
  BY DEF AcceptReturn, Fail
<1>3. PlacesOK' /\ pc'[t] \in {"idle", "failed"} /\ OthersStay(t)
  BY <1>1, <1>2, PlacesStep, Moved, ServerNumbers DEF Accepting
<1>4. PhasesOK'
  BY <1>1, <1>3, PhasesStep DEF AcceptReturn
<1>5. sessions' \in Seq(Ids)
  <2>1. sessions \in Seq(Ids) /\ Append(sessions, id) \in Seq(Ids)
    BY <1>1 DEF TypeOK
  <2> QED
    BY <1>2, <2>1
<1>6. /\ sessionsLeft' \subseteq Ids /\ unknown' \subseteq Ids /\ held' = 0
      /\ ticket' \in [Servers -> Tickets \cup {0}] /\ ticketId' \in [Servers -> Ids \cup {0}]
      /\ ticket'[i] = 0
      /\ \A j \in Servers : j # i => ticket'[j] = ticket[j] /\ ticketId'[j] = ticketId[j]
  BY <1>1 DEF TypeOK, AcceptReturn, Fail
<1>7. /\ handleIds' \in [Servers -> Ids \cup {0}] /\ acceptLock' \in Threads \cup {NoThread}
      /\ \A j \in Servers : j # i => handleIds'[j] = handleIds[j]
  BY <1>1, <1>2 DEF TypeOK
<1>8. TypeOK'
  BY <1>1, <1>3, <1>4, <1>5, <1>6, <1>7
     DEF TypeOK, PolicyTypeOK, PlacesOK, PhasesOK, AcceptReturn
<1>9. IdsFresh'
  <2>1. CASE UNCHANGED <<sessions, handleIds>>
    BY <2>1 DEF AcceptInv, IdsFresh, AcceptReturn
  <2>2. CASE sessions' = Append(sessions, id) /\ handleIds' = [handleIds EXCEPT ![i] = 0]
    <3>1. /\ sessions \in Seq(Ids) /\ Len(sessions) \in Nat
          /\ DOMAIN sessions = 1 .. Len(sessions) /\ DOMAIN sessions' = 1 .. (Len(sessions) + 1)
          /\ sessions'[Len(sessions) + 1] = id
          /\ \A m \in 1 .. Len(sessions) : sessions'[m] = sessions[m] /\ sessions[m] \in Ids
      BY <1>1, <2>2 DEF TypeOK
    <3>2. nextId' = nextId /\ nextId \in 1 .. (MaxIds + 1) /\ 0 < nextId /\ MaxIds \in Nat
      BY <1>1, ServerAssumption DEF AcceptReturn, TypeOK
    <3>3. handleIds'[i] = 0 /\ \A j \in Servers : j # i => handleIds'[j] = handleIds[j]
      BY <1>1, <2>2 DEF TypeOK
    <3>4. \A j \in Servers : handleIds'[j] < nextId
      BY <3>2, <3>3 DEF AcceptInv, IdsFresh
    <3>5. \A j, k \in Servers : handleIds'[j] = handleIds'[k] /\ handleIds'[j] # 0 => j = k
      BY <3>3 DEF AcceptInv, IdsFresh
    <3>6. ASSUME NEW m \in DOMAIN sessions'
          PROVE  sessions'[m] < nextId /\ \A j \in Servers : handleIds'[j] # sessions'[m]
      <4>1. CASE m \in 1 .. Len(sessions)
        BY <3>1, <3>3, <4>1 DEF AcceptInv, IdsFresh, Ids
      <4>2. CASE m = Len(sessions) + 1
        BY <1>1, <3>1, <3>3, <4>2 DEF AcceptInv, IdsFresh, Ids
      <4> QED
        BY <3>1, <4>1, <4>2
    <3> QED
      BY <3>2, <3>4, <3>5, <3>6 DEF IdsFresh
  <2> QED
    BY <1>2, <2>1, <2>2
<1>10. begun' = begun /\ closed' = closed
  BY DEF AcceptReturn
<1>11. \A j \in Servers : ticket'[j] # 0 => ticket'[j] \in DOMAIN begun' /\ begun'[ticket'[j]] = handleIds'[j]
  BY <1>6, <1>7, <1>10 DEF AcceptInv, BegunFor
<1>12. ~CloseRuns => \A j \in Servers : ticket'[j] # 0 => ticketId'[j] = handleIds'[j]
  <2>1. \A u \in Threads : pc[u] # "keep"
    BY <1>1 DEF Lone, Accepting
  <2> QED
    BY <1>6, <1>7, <2>1 DEF AcceptInv, IdKept
<1>13. pc'[t] \notin Accepting \cup Working \cup {"claimed"}
  BY <1>3 DEF Accepting, Working
<1> QED
  BY <1>1, <1>3, <1>8, <1>9, <1>10, <1>11, <1>12, <1>13, AcceptPlaces DEF Accepting

(* A step of a release: the ticket is given up and forgotten, then its id. *)
LEMMA ReleaseTypes ==
  ASSUME TypeOK, NEW t \in Threads, NEW i \in Servers, pc[t] \in {"expire", "release"},
         ReleaseFree(t, i) \/ ReleaseClear(t, i) \/ (ReleaseEnd(t, i) /\ err' \in [Threads -> BOOLEAN])
  PROVE  /\ phase' \in [Threads -> {"free", "clear", "forget"}]
         /\ \A u \in Threads : u # t => phase'[u] = phase[u]
         /\ live' \subseteq live /\ ticketsLeft \subseteq ticketsLeft' /\ ticketsLeft' \subseteq Tickets
         /\ ticket' \in [Servers -> Tickets \cup {0}] /\ ticketId' \in [Servers -> Ids \cup {0}]
         /\ \A j \in Servers : ticket'[j] \in {0, ticket[j]} /\ ticketId'[j] \in {0, ticketId[j]}
         /\ \A j \in Servers : j # i => ticket'[j] = ticket[j] /\ ticketId'[j] = ticketId[j]
         /\ err' \in [Threads -> BOOLEAN]
<1>1. live \subseteq Tickets
  <2>1. begun \in Seq(Ids) /\ Len(begun) <= MaxTickets /\ MaxTickets \in Nat /\ live \subseteq DOMAIN begun
    BY ServerAssumption DEF TypeOK
  <2> QED
    BY <2>1, TicketNumbers DEF Tickets
<1>2. CASE ReleaseFree(t, i)
  <2>1. phase' = [phase EXCEPT ![t] = "clear"] /\ UNCHANGED <<ticket, ticketId>>
    BY <1>2 DEF ReleaseFree, ToPhase
  <2>2. live' \subseteq live /\ ticketsLeft \subseteq ticketsLeft' /\ ticketsLeft' \subseteq Tickets
    BY <1>1, <1>2 DEF ReleaseFree, TypeOK
  <2>3. err' \in [Threads -> BOOLEAN]
    BY <1>2 DEF ReleaseFree, TypeOK
  <2> QED
    BY <2>1, <2>2, <2>3 DEF TypeOK
<1>3. CASE ReleaseClear(t, i)
  BY <1>3 DEF ReleaseClear, ToPhase, TypeOK
<1>4. CASE ReleaseEnd(t, i) /\ err' \in [Threads -> BOOLEAN]
  BY <1>4 DEF ReleaseEnd, ToPhase, TypeOK
<1> QED
  BY <1>2, <1>3, <1>4

(* The tickets of an accept that expired: an id goes after the ticket begun with it. *)
LEMMA AcceptReleaseKeeps ==
  ASSUME AcceptInv, NEW t \in Threads, AcceptRelease(t)
  PROVE  AcceptInv'
<1> DEFINE i == index[t]
<1>1. /\ i \in Servers /\ i \in Nat /\ pc[t] \in Accepting /\ pc[t] = "expire"
      /\ acceptLock = t /\ Lone(t) /\ TypeOK /\ pc[t] \notin Closing
  BY IndexHere, Alone DEF AcceptInv, TicketKeepsId, AcceptRelease, Accepting, Closing
<1>2. /\ sessions' = sessions /\ closed' = closed /\ begun' = begun /\ nextId' = nextId
      /\ UNCHANGED <<policyVars, sessionClosed, polling, serverClosed, open, snapshot, sessionsLeft,
                     unknown, joined>>
  BY DEF AcceptRelease
<1>3. \A u \in Threads : pc[u] # "keep"
  BY <1>1 DEF Lone, Accepting
<1>4. \A j \in Servers : ticket[j] # 0 /\ ~CloseRuns => ticketId[j] = handleIds[j]
  BY <1>3 DEF AcceptInv, IdKept
<1>5. CASE /\ ReleaseFree(t, i) \/ ReleaseClear(t, i)
           /\ UNCHANGED <<handleIds, acceptLock, held, pc, index>>
  <2>1. /\ phase' \in [Threads -> {"free", "clear", "forget"}]
        /\ \A u \in Threads : u # t => phase'[u] = phase[u]
        /\ live' \subseteq live /\ ticketsLeft' \subseteq Tickets
        /\ ticket' \in [Servers -> Tickets \cup {0}] /\ ticketId' \in [Servers -> Ids \cup {0}]
        /\ \A j \in Servers : ticket'[j] \in {0, ticket[j]}
        /\ err' \in [Threads -> BOOLEAN]
    BY <1>1, <1>5, ReleaseTypes
  <2>2. ticketId' = ticketId /\ (phase'[t] = "forget" => ticket'[i] = 0)
    BY <1>1, <1>5 DEF ReleaseFree, ReleaseClear, ToPhase, TypeOK
  <2>3. TypeOK'
    BY <1>1, <1>2, <1>5, <2>1 DEF TypeOK, PolicyTypeOK
  <2>4. OthersStay(t) /\ pc'[t] = "expire" /\ index'[t] = i
    BY <1>1, <1>5 DEF OthersStay
  <2>5. IdsFresh'
    BY <1>2, <1>5 DEF AcceptInv, IdsFresh
  <2>6. \A j \in Servers : ticket'[j] # 0 => ticket'[j] \in DOMAIN begun' /\ begun'[ticket'[j]] = handleIds'[j]
    BY <1>2, <1>5, <2>1 DEF AcceptInv, BegunFor
  <2>7. ~CloseRuns => \A j \in Servers : ticket'[j] # 0 => ticketId'[j] = handleIds'[j]
    BY <1>4, <1>5, <2>1, <2>2
  <2> QED
    BY <1>1, <1>2, <1>5, <2>2, <2>3, <2>4, <2>5, <2>6, <2>7, AcceptPlaces DEF Working
<1>6. CASE /\ ReleaseEnd(t, i)
           /\ handleIds' = [handleIds EXCEPT ![i] = 0]
           /\ \/ i < Last /\ Goto(t, "expire", i + 1) /\ UNCHANGED <<err, acceptLock, held>>
              \/ i = Last /\ err[t] /\ Fail(t)
                 /\ err' = [err EXCEPT ![t] = FALSE] /\ UNCHANGED acceptLock
              \/ i = Last /\ ~err[t] /\ Leave(t)
  <2>1. PICK to \in {"expire", "failed", "idle"}, k \in Nat :
          /\ Goto(t, to, k)
          /\ to # "idle" => k \in Servers
          /\ to = "expire" => acceptLock' = acceptLock
    <3>1. i + 1 \in Nat /\ (i < Last => i + 1 \in Servers) /\ 1 \in Servers /\ 1 \in Nat /\ 0 \in Nat
      BY <1>1, ServerNumbers
    <3> QED
      BY <1>1, <1>6, <3>1 DEF Leave, Fail
  <2>2. to \in Closing \cup {"idle", "failed"} \cup Accepting
    BY DEF Accepting
  <2>3. PlacesOK' /\ pc'[t] = to /\ index'[t] = k /\ OthersStay(t)
    BY <1>1, <1>2, <2>1, <2>2, PlacesStep, Moved
  <2>4. /\ err' \in [Threads -> BOOLEAN] /\ acceptLock' \in Threads \cup {NoThread}
        /\ held' \in Tickets \cup {0}
    BY <1>1, <1>6 DEF TypeOK, Leave, Fail
  <2>5. /\ phase' \in [Threads -> {"free", "clear", "forget"}]
        /\ live' \subseteq live /\ ticketsLeft' \subseteq Tickets
        /\ ticket' \in [Servers -> Tickets \cup {0}] /\ ticketId' \in [Servers -> Ids \cup {0}]
        /\ \A j \in Servers : ticket'[j] \in {0, ticket[j]}
        /\ \A j \in Servers : j # i => ticketId'[j] = ticketId[j]
    BY <1>1, <1>6, <2>4, ReleaseTypes
  <2>6. /\ phase'[t] = "free" /\ \A u \in Threads : u # t => phase'[u] = phase[u]
        /\ ticket' = ticket
    BY <1>1, <1>6 DEF ReleaseEnd, ToPhase, TypeOK
  <2>7. PhasesOK'
    BY <1>1, <2>3, <2>5, <2>6 DEF TypeOK, PhasesOK, OthersStay
  <2>8. handleIds' \in [Servers -> Ids \cup {0}] /\ handleIds'[i] = 0
        /\ \A j \in Servers : j # i => handleIds'[j] = handleIds[j]
    BY <1>1, <1>6 DEF TypeOK
  <2>9. TypeOK'
    BY <1>1, <1>2, <2>3, <2>4, <2>5, <2>7, <2>8 DEF TypeOK, PolicyTypeOK, PlacesOK, PhasesOK
  <2>10. ticket[i] = 0
    BY <1>1, <1>6 DEF ReleaseEnd, AcceptInv, BegunFor
  <2>11. IdsFresh'
    <3>1. 0 < nextId /\ \A m \in DOMAIN sessions : sessions[m] # 0
      BY <1>1, ServerAssumption DEF TypeOK, Ids
    <3> QED
      BY <1>2, <2>8, <3>1 DEF AcceptInv, IdsFresh
  <2>12. \A j \in Servers : ticket'[j] # 0 => ticket'[j] \in DOMAIN begun' /\ begun'[ticket'[j]] = handleIds'[j]
    BY <1>2, <2>6, <2>8, <2>10 DEF AcceptInv, BegunFor
  <2>13. ~CloseRuns => \A j \in Servers : ticket'[j] # 0 => ticketId'[j] = handleIds'[j]
    BY <1>4, <2>5, <2>6, <2>8, <2>10
  <2>14. pc'[t] \notin Working \cup {"claimed"} /\ (pc'[t] \in Accepting => pc'[t] = "expire" /\ acceptLock' = t)
    BY <1>1, <2>1, <2>3 DEF Working, Accepting
  <2> QED
    BY <1>1, <1>2, <2>3, <2>6, <2>9, <2>11, <2>12, <2>13, <2>14, AcceptPlaces
<1> QED
  BY <1>5, <1>6 DEF AcceptRelease

-----------------------------------------------------------------------------
(* close and the policies: types, lock and ids. *)

(* A step of a close changes no id, takes no lock but may give up its own, and
   touches a ticket only to clear it. *)
LEMMA CloseMoves ==
  ASSUME AcceptInv, NEW t \in Threads, TypeOK', OthersStay(t),
         pc[t] \notin Accepting, pc'[t] \notin Accepting,
         UNCHANGED <<idVars, sessions, begun>>,
         acceptLock' # acceptLock \/ held' # held => acceptLock = t,
         CloseRuns => CloseRuns', ticketId' # ticketId => CloseRuns,
         \A u \in Threads : u # t => phase'[u] = phase[u],
         \A j \in Servers : ticket'[j] \in {0, ticket[j]}
  PROVE  AcceptInv'
<1>1. \A u \in Threads : pc'[u] \in Accepting =>
         /\ pc[u] \in Accepting /\ pc'[u] = pc[u] /\ index'[u] = index[u] /\ u # t
         /\ phase'[u] = phase[u] /\ acceptLock = u /\ held' = held /\ acceptLock' = acceptLock
  BY DEF OthersStay, AcceptInv, LockHeld
<1>2. IdsLeft' = IdsLeft
  BY DEF IdsLeft
<1>3. LockHeld'
  BY <1>1, <1>2 DEF AcceptInv, LockHeld
<1>4. IdChosen' /\ IdsFresh'
  BY <1>1 DEF AcceptInv, IdChosen, IdsFresh, Accepting, Working
<1>5. BegunFor'
  <2>1. \A j \in Servers : ticket'[j] # 0 => ticket'[j] \in DOMAIN begun' /\ begun'[ticket'[j]] = handleIds'[j]
    BY DEF AcceptInv, BegunFor
  <2>2. \A u \in Threads : pc'[u] \in Working => held' \in DOMAIN begun' /\ begun'[held'] = handleIds'[index'[u]]
    BY <1>1 DEF AcceptInv, BegunFor, Working, Accepting
  <2>3. ASSUME NEW u \in Threads, pc'[u] = "expire", phase'[u] = "forget" PROVE ticket'[index'[u]] = 0
    <3>1. pc[u] = "expire" /\ phase[u] = "forget" /\ index'[u] = index[u]
      BY <1>1, <2>3 DEF Accepting
    <3>2. index[u] \in Servers /\ ticket[index[u]] = 0
      BY <3>1, IndexHere DEF AcceptInv, BegunFor, TicketKeepsId
    <3> QED
      BY <3>1, <3>2
  <2> QED
    BY <2>1, <2>2, <2>3 DEF BegunFor
<1>6. IdKept'
  <2>1. ASSUME ~CloseRuns', NEW j \in Servers, ticket'[j] # 0
        PROVE  ticketId'[j] = handleIds'[j] \/ \E u \in Threads : pc'[u] = "keep" /\ index'[u] = j
    <3>1. ticketId' = ticketId /\ ticket[j] # 0 /\ ~CloseRuns
      BY <2>1
    <3>2. \A u \in Threads : pc[u] = "keep" => pc'[u] = "keep" /\ index'[u] = index[u]
      BY DEF OthersStay, Accepting
    <3> QED
      BY <3>1, <3>2 DEF AcceptInv, IdKept
  <2> QED
    BY <2>1 DEF IdKept
<1>7. TicketKeepsId'
  <2>1. ASSUME NEW u \in Threads, pc'[u] \in {"check", "wait", "claim"}
        PROVE  /\ held' # 0 /\ begun'[held'] = handleIds'[index'[u]]
               /\ pc'[u] = "check" /\ ~CloseRuns' => ticketId'[index'[u]] = handleIds'[index'[u]]
    <3>1. pc'[u] = pc[u] /\ index'[u] = index[u] /\ held' = held
      BY <1>1, <2>1 DEF Accepting
    <3> QED
      BY <2>1, <3>1 DEF AcceptInv, TicketKeepsId
  <2> QED
    BY <2>1 DEF TicketKeepsId
<1> QED
  BY <1>3, <1>4, <1>5, <1>6, <1>7 DEF AcceptInv

(* The end of a call. *)
LEMMA Left ==
  ASSUME TypeOK, NEW t \in Threads, Leave(t), sessions' = sessions
  PROVE  /\ PlacesOK' /\ pc'[t] = "idle" /\ OthersStay(t)
         /\ err' \in [Threads -> BOOLEAN] /\ acceptLock' \in Threads \cup {NoThread}
         /\ held' \in Tickets \cup {0}
         /\ acceptLock' # acceptLock \/ held' # held => acceptLock = t
<1>1. Goto(t, "idle", 0)
  BY DEF Leave
<1>2. PlacesOK' /\ pc'[t] = "idle" /\ OthersStay(t)
  BY <1>1, PlacesStep, Moved
<1> QED
  BY <1>2 DEF Leave, TypeOK

(* close, and the close inside an accept that failed, from its first step on. *)
LEMMA CloseKeeps ==
  ASSUME AcceptInv, NEW t \in Threads, Close(t)
  PROVE  AcceptInv' /\ OthersStay(t)
<1>1. /\ TypeOK /\ pc[t] \in {"idle", "failed"} /\ phase' = phase
      /\ UNCHANGED <<policyVars, closed, idVars, sessionVars, ticketVars, serverClosed, nativeVars,
                     snapshot, leftVars, joined>>
  BY DEF AcceptInv, TicketKeepsId, Close
<1>2. /\ PlacesOK' /\ OthersStay(t) /\ pc'[t] \in {"idle", "servers", "sessions"}
      /\ err' \in [Threads -> BOOLEAN] /\ acceptLock' \in Threads \cup {NoThread}
      /\ held' \in Tickets \cup {0}
      /\ acceptLock' # acceptLock \/ held' # held => acceptLock = t
  <2>1. CASE closed /\ Leave(t)
    BY <1>1, <2>1, Left
  <2>2. CASE UNCHANGED <<err, acceptLock, held>> /\ Goto(t, "servers", Last)
    BY <1>1, <2>2, PlacesStep, Moved, ServerNumbers DEF Closing, TypeOK
  <2>3. CASE UNCHANGED <<err, acceptLock, held>> /\ sessions # <<>> /\ Goto(t, "sessions", Len(sessions))
    <3>1. Len(sessions) \in Nat /\ Len(sessions) \in DOMAIN sessions
      BY <1>1, <2>3 DEF TypeOK
    <3> QED
      BY <1>1, <2>3, <3>1, PlacesStep, Moved DEF Closing, TypeOK
  <2> QED
    BY <2>1, <2>2, <2>3 DEF Close
<1>3. PhasesOK'
  BY <1>1, <1>2, PhasesStep
<1>4. TypeOK'
  BY <1>1, <1>2, <1>3 DEF TypeOK, PolicyTypeOK, PlacesOK, PhasesOK
<1>5. CloseRuns => CloseRuns'
  BY <1>1, <1>2, CloseGoesOn DEF Closing
<1>6. \A j \in Servers : ticket'[j] \in {0, ticket[j]}
  BY <1>1
<1> QED
  BY <1>1, <1>2, <1>4, <1>5, <1>6, CloseMoves DEF Accepting

(* A step of a close that is not the last one. *)
LEMMA CloseGoes ==
  ASSUME AcceptInv, NEW t \in Threads, TypeOK', OthersStay(t), pc[t] \in Closing, pc'[t] \in Closing,
         UNCHANGED <<closed, acceptLock, held, idVars, sessions, begun>>,
         \A u \in Threads : u # t => phase'[u] = phase[u],
         \A j \in Servers : ticket'[j] \in {0, ticket[j]}
  PROVE  AcceptInv'
<1>1. CloseRuns /\ CloseRuns'
  BY DEF CloseRuns
<1> QED
  BY <1>1, CloseMoves DEF Closing, Accepting

(* The sessions, one by one. *)
LEMMA CloseSessionKeeps ==
  ASSUME AcceptInv, NEW t \in Threads, CloseSession(t)
  PROVE  AcceptInv'
<1> DEFINE k == index[t]
<1>1. /\ TypeOK /\ sessions' = sessions /\ k \in 1 .. Len(sessions) /\ sessions[k] \in Ids /\ Len(sessions) \in Nat
      /\ pc[t] = "sessions"
  BY IndexHere DEF AcceptInv, TicketKeepsId, TypeOK, CloseSession
<1>2. Goto(t, "servers", Last) \/ (k # 1 /\ Goto(t, "sessions", k - 1))
  BY DEF CloseSession, AfterSession
<1>3. PlacesOK' /\ pc'[t] \in {"servers", "sessions"} /\ OthersStay(t)
  <2>1. CASE Goto(t, "servers", Last)
    BY <1>1, <2>1, PlacesStep, Moved, ServerNumbers DEF Closing
  <2>2. CASE k # 1 /\ Goto(t, "sessions", k - 1)
    <3>1. k - 1 \in Nat /\ k - 1 \in DOMAIN sessions
      BY <1>1, <2>2 DEF TypeOK
    <3> QED
      BY <1>1, <2>2, <3>1, PlacesStep, Moved DEF Closing
  <2> QED
    BY <1>2, <2>1, <2>2
<1>4. PhasesOK'
  BY <1>1, <1>3, PhasesStep DEF CloseSession
<1>5. open' \subseteq Ids /\ sessionClosed' \subseteq Ids /\ sessionsLeft' \subseteq Ids
  BY <1>1 DEF TypeOK, CloseSession
<1>6. TypeOK'
  BY <1>1, <1>3, <1>4, <1>5 DEF TypeOK, PolicyTypeOK, PlacesOK, PhasesOK, CloseSession
<1> QED
  BY <1>1, <1>3, <1>6, CloseGoes DEF CloseSession, Closing

(* The policy dispatcher of a server that is being closed. *)
LEMMA CloseServerKeeps ==
  ASSUME AcceptInv, NEW t \in Threads, CloseServer(t)
  PROVE  AcceptInv'
<1> DEFINE i == index[t]
<1>1. TypeOK /\ sessions' = sessions /\ i \in Nat /\ i \in Servers /\ i - 1 \in 0 .. Last /\ pc[t] = "servers"
  BY IndexHere, ServerNumbers DEF AcceptInv, TicketKeepsId, CloseServer
<1>2. Goto(t, "servers", i - 1) \/ Goto(t, "release", i) \/ Goto(t, "join", i)
  BY DEF CloseServer
<1>3. PlacesOK' /\ pc'[t] \in {"servers", "release", "join"} /\ OthersStay(t)
  <2>1. CASE Goto(t, "servers", i - 1)
    <3>1. i - 1 \in Nat
      BY <1>1, ServerNumbers
    <3> QED
      BY <1>1, <2>1, <3>1, PlacesStep, Moved DEF Closing
  <2>2. CASE Goto(t, "release", i)
    BY <1>1, <2>2, PlacesStep, Moved DEF Closing
  <2>3. CASE Goto(t, "join", i)
    BY <1>1, <2>3, PlacesStep, Moved DEF Closing
  <2> QED
    BY <1>2, <2>1, <2>2, <2>3
<1>4. PhasesOK'
  BY <1>1, <1>3, PhasesStep DEF CloseServer
<1>5. PolicyTypeOK' /\ snapshot' \in [Threads -> SUBSET Requests]
  <2>1. CASE UNCHANGED <<policyVars, snapshot>>
    BY <1>1, <2>1 DEF TypeOK, PolicyTypeOK
  <2>2. CASE DispatcherMark(i) /\ snapshot' = [snapshot EXCEPT ![t] = futures[i]]
    BY <1>1, <2>2 DEF TypeOK, PolicyTypeOK, DispatcherMark
  <2> QED
    BY <2>1, <2>2 DEF CloseServer
<1>6. TypeOK'
  BY <1>1, <1>3, <1>4, <1>5 DEF TypeOK, PlacesOK, PhasesOK, CloseServer
<1> QED
  BY <1>1, <1>3, <1>6, CloseGoes DEF CloseServer, Closing

(* Waiting for the workers, releasing the ticket and closing the native server. *)
LEMMA CloseServerEndKeeps ==
  ASSUME AcceptInv, NEW t \in Threads, CloseJoin(t) \/ CloseRelease(t) \/ CloseConnection(t)
  PROVE  AcceptInv'
<1> DEFINE i == index[t]
<1>1. /\ TypeOK /\ sessions' = sessions /\ i \in Nat /\ i \in Servers /\ i - 1 \in 0 .. Last /\ i - 1 \in Nat
      /\ pc[t] \in Closing
  BY IndexHere, ServerNumbers DEF AcceptInv, TicketKeepsId, CloseJoin, CloseRelease, CloseConnection, Closing
<1>2. CASE CloseJoin(t)
  <2>1. PlacesOK' /\ pc'[t] = "release" /\ OthersStay(t)
    BY <1>1, <1>2, PlacesStep, Moved DEF Closing, CloseJoin
  <2>2. PhasesOK'
    BY <1>1, <1>2, <2>1, PhasesStep DEF CloseJoin
  <2>3. snapshot' \in [Threads -> SUBSET Requests] /\ joined' \in [Servers -> {"no", "clean", "error"}]
    BY <1>1, <1>2 DEF TypeOK, CloseJoin
  <2>4. TypeOK'
    BY <1>1, <1>2, <2>1, <2>2, <2>3 DEF TypeOK, PolicyTypeOK, PlacesOK, PhasesOK, CloseJoin
  <2> QED
    BY <1>1, <1>2, <2>1, <2>4, CloseGoes DEF CloseJoin, Closing
<1>3. CASE CloseRelease(t)
  <2>1. /\ PlacesOK' /\ pc'[t] \in {"release", "connection"} /\ OthersStay(t)
        /\ err' \in [Threads -> BOOLEAN]
    <3>1. CASE (ReleaseFree(t, i) \/ ReleaseClear(t, i)) /\ UNCHANGED <<pc, index>>
      <4>1. PlacesOK' /\ OthersStay(t) /\ pc'[t] = "release"
        BY <1>1, <1>3, <3>1 DEF TypeOK, PlacesOK, OthersStay, CloseRelease
      <4> QED
        BY <1>1, <1>3, <3>1, <4>1, ReleaseTypes DEF CloseRelease
    <3>2. CASE Goto(t, "connection", i) /\ UNCHANGED err
      BY <1>1, <3>2, PlacesStep, Moved DEF Closing, TypeOK
    <3> QED
      BY <1>3, <3>1, <3>2 DEF CloseRelease
  <2>2. /\ phase' \in [Threads -> {"free", "clear", "forget"}]
        /\ \A u \in Threads : u # t => phase'[u] = phase[u]
        /\ live' \subseteq live /\ ticketsLeft' \subseteq Tickets
        /\ ticket' \in [Servers -> Tickets \cup {0}] /\ ticketId' \in [Servers -> Ids \cup {0}]
        /\ \A j \in Servers : ticket'[j] \in {0, ticket[j]}
    BY <1>1, <1>3, <2>1, ReleaseTypes DEF CloseRelease
  <2>3. pc'[t] = "connection" => phase'[t] = "free"
    <3>1. pc'[t] = "connection" => ReleaseEnd(t, i)
      BY <1>3 DEF CloseRelease
    <3> QED
      BY <1>1, <3>1 DEF ReleaseEnd, ToPhase, TypeOK
  <2>4. PhasesOK'
    BY <1>1, <2>1, <2>2, <2>3 DEF TypeOK, PhasesOK, OthersStay
  <2>5. TypeOK'
    BY <1>1, <1>3, <2>1, <2>2, <2>4 DEF TypeOK, PolicyTypeOK, PlacesOK, PhasesOK, CloseRelease
  <2> QED
    BY <1>1, <1>3, <2>1, <2>2, <2>5, CloseGoes DEF CloseRelease, Closing
<1>4. CASE CloseConnection(t)
  <2>1. PlacesOK' /\ pc'[t] = "servers" /\ OthersStay(t)
    BY <1>1, <1>4, PlacesStep, Moved DEF Closing, CloseConnection
  <2>2. PhasesOK'
    BY <1>1, <1>4, <2>1, PhasesStep DEF CloseConnection
  <2>3. serverClosed' \in [Servers -> BOOLEAN]
    BY <1>1, <1>4 DEF TypeOK, CloseConnection
  <2>4. TypeOK'
    BY <1>1, <1>4, <2>1, <2>2, <2>3 DEF TypeOK, PolicyTypeOK, PlacesOK, PhasesOK, CloseConnection
  <2> QED
    BY <1>1, <1>4, <2>1, <2>4, CloseGoes DEF CloseConnection, Closing
<1> QED
  BY <1>2, <1>3, <1>4

(* The end of a close. *)
LEMMA CloseReturnKeeps ==
  ASSUME AcceptInv, NEW t \in Threads, CloseReturn(t)
  PROVE  AcceptInv'
<1>1. TypeOK /\ sessions' = sessions /\ Leave(t) /\ phase' = phase /\ pc[t] = "servers" /\ closed' = TRUE
  BY DEF AcceptInv, TicketKeepsId, CloseReturn
<1>2. /\ PlacesOK' /\ pc'[t] = "idle" /\ OthersStay(t)
      /\ err' \in [Threads -> BOOLEAN] /\ acceptLock' \in Threads \cup {NoThread}
      /\ held' \in Tickets \cup {0}
      /\ acceptLock' # acceptLock \/ held' # held => acceptLock = t
  BY <1>1, Left
<1>3. PhasesOK'
  BY <1>1, <1>2, PhasesStep
<1>4. TypeOK'
  BY <1>1, <1>2, <1>3 DEF TypeOK, PolicyTypeOK, PlacesOK, PhasesOK, CloseReturn
<1>5. CloseRuns'
  BY <1>1 DEF CloseRuns
<1> QED
  BY <1>1, <1>2, <1>4, <1>5, CloseMoves DEF CloseReturn, Accepting

(* The policy dispatcher keeps its own types. *)
LEMMA PolicyTypes ==
  ASSUME PolicyTypeOK, NEW r \in Requests, PolicyBegin(r) \/ PolicyStep(r)
  PROVE  PolicyTypeOK'
<1>1. CASE PolicyBegin(r)
  BY <1>1, RequestAssumption DEF PolicyTypeOK, PolicyBegin
<1>2. CASE PolicyEvaluate(r)
  BY <1>2 DEF PolicyTypeOK, PolicyEvaluate
<1>3. CASE PolicyAddCallback(r) \/ PolicyCallback(r)
  <2>1. firstError' \in [Servers -> BOOLEAN]
    BY <1>3 DEF PolicyTypeOK, PolicyAddCallback, PolicyCallback, OnComplete
  <2> QED
    BY <1>3, <2>1, RequestAssumption DEF PolicyTypeOK, PolicyAddCallback, PolicyCallback, OnComplete
<1> QED
  BY <1>1, <1>2, <1>3 DEF PolicyStep

(* A receive of the application takes the poll lock of its session or gives it up. *)
LEMMA ReceiveTypes ==
  ASSUME TypeOK, NEW s \in Polled, Receive(s)
  PROVE  TypeOK'
<1>1. polling' \subseteq Ids
  BY ServerAssumption DEF Receive, ReceiveBegin, ReceiveEnd, TypeOK
<1> QED
  BY <1>1 DEF TypeOK, PolicyTypeOK, Receive

\* What TypeOK and AcceptInv are about, but for the dispatcher and the poll locks.
acceptVars == <<closed, acceptLock, idVars, sessions, sessionClosed, ticketVars, held, serverClosed,
                nativeVars, threadVars, leftVars, joined>>

LEMMA AcceptFrame ==
  ASSUME AcceptInv, TypeOK', UNCHANGED acceptVars
  PROVE  AcceptInv'
  BY DEF acceptVars, AcceptInv, TicketKeepsId, LockHeld, IdChosen, IdsFresh, IdsLeft, BegunFor, IdKept, CloseRuns

(* AcceptInv is kept by every step. *)
LEMMA AcceptInvStep ==
  ASSUME AcceptInv, [Next]_vars
  PROVE  AcceptInv'
<1>1. ASSUME NEW t \in Threads, Accept(t) \/ AcceptStep(t) PROVE AcceptInv'
  BY <1>1, AcceptKeeps, AcceptTryKeeps, AcceptCheckKeeps, AcceptStoreKeeps, AcceptKeepKeeps, AcceptPollKeeps,
     AcceptReturnKeeps, AcceptDeadlineKeeps, AcceptReleaseKeeps DEF AcceptStep
<1>2. ASSUME NEW t \in Threads, Close(t) \/ CloseStep(t) PROVE AcceptInv'
  BY <1>2, CloseKeeps, CloseSessionKeeps, CloseServerKeeps, CloseServerEndKeeps, CloseReturnKeeps
     DEF CloseStep
<1>3. ASSUME NEW s \in Polled, Receive(s) PROVE AcceptInv'
  <2>1. TypeOK' /\ UNCHANGED acceptVars
    BY <1>3, ReceiveTypes DEF Receive, acceptVars, AcceptInv, TicketKeepsId
  <2> QED
    BY <2>1, AcceptFrame
<1>4. CASE Policy \/ UNCHANGED vars
  <2>1. PolicyTypeOK' /\ UNCHANGED serverVars
    BY <1>4, PolicyTypes DEF Policy, AcceptInv, TicketKeepsId, TypeOK, vars, PolicyTypeOK
  <2>2. TypeOK' /\ UNCHANGED acceptVars
    BY <2>1 DEF serverVars, acceptVars, AcceptInv, TicketKeepsId, TypeOK
  <2> QED
    BY <2>2, AcceptFrame
<1> QED
  BY <1>1, <1>2, <1>3, <1>4 DEF Next, Threads

(* A server that was just bound. *)
LEMMA AcceptInvInit == Init => AcceptInv
<1> SUFFICES ASSUME Init PROVE AcceptInv
  OBVIOUS
<1>1. TypeOK
  <2>1. PolicyTypeOK
    BY DEF Init, PolicyInit, PolicyTypeOK
  <2>2. /\ sessions \in Seq(Ids) /\ nextId \in 1 .. (MaxIds + 1)
        /\ begun \in Seq(Ids) /\ Len(begun) <= MaxTickets /\ live \subseteq DOMAIN begun
    BY ServerAssumption DEF Init
  <2> QED
    BY <2>1, <2>2 DEF Init, TypeOK
<1> QED
  BY <1>1 DEF Init, AcceptInv, TicketKeepsId, LockHeld, IdChosen, IdsFresh, BegunFor, IdKept, Accepting, Working

(* AcceptInv is an invariant. *)
LEMMA AcceptInvariance == Spec => []AcceptInv
  BY AcceptInvInit, AcceptInvStep, PTL DEF Spec

(* accept_session and NativeServer agree on the id of a pending ticket, whatever fails and
   whoever clears the ticket and its id meanwhile; the types of the state hold with it. *)
THEOREM TicketKeepsIdHolds == Spec => []TicketKeepsId
<1>1. AcceptInv => TicketKeepsId
  BY DEF AcceptInv
<1> QED
  BY <1>1, AcceptInvariance, PTL

-----------------------------------------------------------------------------
(* The policy dispatcher. *)

(* Goto, when only the place matters. *)
LEMMA Goes ==
  ASSUME TypeOK, NEW t \in Threads, NEW to, NEW i, Goto(t, to, i)
  PROVE  pc'[t] = to /\ index'[t] = i /\ OthersStay(t)
  BY DEF TypeOK, Goto, OthersStay

(* A step of a call that is not about the dispatcher. *)
LEMMA PolicyFrame ==
  ASSUME TypeOK, PolicyInv, NEW t \in Threads, OthersStay(t), pc'[t] # "join",
         UNCHANGED <<policyVars, snapshot, joined>>
  PROVE  PolicyInv'
<1>1. FuturesCounted' /\ JoinedClosed' /\ PolicyErrorsRaised'
  BY DEF PolicyInv, FuturesCounted, JoinedClosed, PolicyErrorsRaised, Done
<1>2. \A u \in Threads : pc'[u] = "join" => u # t /\ pc[u] = "join" /\ index'[u] = index[u]
  BY DEF OthersStay
<1>3. JoinKnows'
  BY <1>2 DEF PolicyInv, JoinKnows
<1> QED
  BY <1>1, <1>3 DEF PolicyInv

(* Every step of accept is one. *)
LEMMA AcceptIsFrame ==
  ASSUME TypeOK, PolicyInv, NEW t \in Threads, Accept(t) \/ AcceptStep(t)
  PROVE  PolicyInv'
<1>1. UNCHANGED <<policyVars, snapshot, joined>>
  BY DEF Accept, AcceptStep, AcceptTry, AcceptCheck, AcceptStore, AcceptKeep, AcceptWait, AcceptClaim,
     AcceptReturn, AcceptAgain, AcceptExpire, AcceptRelease
<1>2. \/ UNCHANGED <<pc, index>> /\ pc[t] = "expire"
      \/ \E to, i : Goto(t, to, i) /\ to # "join"
  <2>1. CASE Accept(t) \/ AcceptTry(t) \/ AcceptCheck(t) \/ AcceptStore(t) \/ AcceptKeep(t)
    BY <2>1 DEF Accept, AcceptTry, AcceptCheck, AcceptStore, AcceptKeep, Fail
  <2>2. CASE AcceptReturn(t) \/ AcceptAgain(t) \/ AcceptExpire(t)
    BY <2>2 DEF AcceptReturn, AcceptAgain, AcceptExpire, Fail
  <2>3. CASE AcceptWait(t) \/ AcceptClaim(t)
    BY <2>3 DEF AcceptWait, AcceptClaim, WouldBlock, Fail
  <2>4. CASE AcceptRelease(t)
    BY <2>4 DEF AcceptRelease, Leave, Fail
  <2> QED
    BY <2>1, <2>2, <2>3, <2>4 DEF AcceptStep
<1>3. OthersStay(t) /\ pc'[t] # "join"
  BY <1>2, Goes DEF OthersStay
<1> QED
  BY <1>1, <1>3, PolicyFrame

(* A close marks the dispatcher closed and sees its futures. *)
LEMMA CloseServerPolicy ==
  ASSUME TypeOK, PolicyInv, NEW t \in Threads, CloseServer(t)
  PROVE  PolicyInv'
<1> DEFINE i == index[t]
<1>1. i \in Servers
  BY IndexHere, ServerNumbers DEF CloseServer
<1>2. CASE UNCHANGED <<policyVars, snapshot>> /\ (Goto(t, "servers", i - 1) \/ Goto(t, "release", i))
  BY <1>2, Goes, PolicyFrame DEF CloseServer
<1>3. CASE /\ DispatcherMark(i) /\ snapshot' = [snapshot EXCEPT ![t] = futures[i]]
           /\ Goto(t, "join", i)
  <2>1. pc'[t] = "join" /\ index'[t] = i /\ OthersStay(t)
    BY <1>3, Goes
  <2>2. snapshot'[t] = futures[i] /\ \A u \in Threads : u # t => snapshot'[u] = snapshot[u]
    BY <1>3 DEF TypeOK
  <2>3. dispatcherClosed'[i] = TRUE /\ \A j \in Servers : dispatcherClosed[j] => dispatcherClosed'[j]
    BY <1>1, <1>3 DEF TypeOK, PolicyTypeOK, DispatcherMark
  <2>4. UNCHANGED <<futures, firstError, worker, callback, joined>>
    BY <1>3 DEF DispatcherMark, CloseServer
  <2>5. FuturesCounted' /\ PolicyErrorsRaised'
    BY <2>4 DEF PolicyInv, FuturesCounted, PolicyErrorsRaised, Done
  <2>6. JoinedClosed'
    BY <2>3, <2>4 DEF PolicyInv, JoinedClosed
  <2>7. ASSUME NEW u \in Threads, pc'[u] = "join"
        PROVE  /\ dispatcherClosed'[index'[u]]
               /\ \A r \in Requests : r.server = index'[u] /\ callback'[r] \in {"missing", "added"}
                                        => r \in snapshot'[u]
    <3>1. CASE u = t
      BY <2>1, <2>2, <2>3, <2>4, <3>1 DEF PolicyInv, FuturesCounted
    <3>2. CASE u # t
      <4>1. pc[u] = "join" /\ index'[u] = index[u] /\ index[u] \in Servers
        BY <2>1, <2>7, <3>2, IndexHere DEF OthersStay
      <4> QED
        BY <2>2, <2>3, <2>4, <3>2, <4>1 DEF PolicyInv, JoinKnows
    <3> QED
      BY <3>1, <3>2
  <2> QED
    BY <2>5, <2>6, <2>7 DEF PolicyInv, JoinKnows
<1> QED
  BY <1>2, <1>3 DEF CloseServer

(* close raises the error of every request: it was recorded by its callback, or
   the request is one of the futures close saw. *)
LEMMA CloseJoinPolicy ==
  ASSUME TypeOK, PolicyInv, NEW t \in Threads, CloseJoin(t)
  PROVE  PolicyInv'
<1> DEFINE i == index[t]
<1>1. i \in Servers /\ pc[t] = "join"
  BY IndexHere DEF CloseJoin
<1>2. UNCHANGED policyVars /\ Goto(t, "release", i)
  BY DEF CloseJoin
<1>3. pc'[t] = "release" /\ OthersStay(t)
  BY <1>2, Goes
<1>4. \A u \in Threads : u # t => snapshot'[u] = snapshot[u]
  BY DEF TypeOK, CloseJoin
<1>5. \A j \in Servers : j # i => joined'[j] = joined[j]
  BY <1>1 DEF TypeOK, CloseJoin
<1>6. \A r \in Requests : r.server = i /\ worker[r] # "none" => Done(r) /\ callback[r] \in {"missing", "run"}
  BY DEF CloseJoin, WorkersIdle, PolicyInv, FuturesCounted, TypeOK, PolicyTypeOK
<1>7. ASSUME NEW r \in Requests, r.server = i, worker[r] = "error" PROVE joined'[i] = "error"
  <2>1. CASE callback[r] = "run"
    <3>1. firstError[i]
      BY <1>7, <2>1 DEF PolicyInv, FuturesCounted
    <3> QED
      BY <1>1, <3>1 DEF CloseJoin, FinalError, TypeOK
  <2>2. CASE callback[r] = "missing"
    <3>1. r \in snapshot[t]
      BY <1>1, <1>7, <2>2 DEF PolicyInv, JoinKnows
    <3> QED
      BY <1>1, <1>7, <3>1 DEF CloseJoin, FinalError, TypeOK
  <2> QED
    BY <1>6, <1>7, <2>1, <2>2
<1>8. PolicyErrorsRaised'
  BY <1>2, <1>5, <1>6, <1>7 DEF PolicyInv, PolicyErrorsRaised, Done
<1>9. JoinedClosed'
  BY <1>1, <1>2, <1>5 DEF PolicyInv, JoinKnows, JoinedClosed
<1>10. FuturesCounted'
  BY <1>2 DEF PolicyInv, FuturesCounted, Done
<1>11. JoinKnows'
  BY <1>2, <1>3, <1>4 DEF PolicyInv, JoinKnows, OthersStay
<1> QED
  BY <1>8, <1>9, <1>10, <1>11 DEF PolicyInv

(* The other steps of a close. *)
LEMMA CloseIsFrame ==
  ASSUME TypeOK, PolicyInv, NEW t \in Threads,
         Close(t) \/ CloseSession(t) \/ CloseRelease(t) \/ CloseConnection(t) \/ CloseReturn(t)
  PROVE  PolicyInv'
<1>1. UNCHANGED <<policyVars, snapshot, joined>>
  BY DEF Close, CloseSession, CloseRelease, CloseConnection, CloseReturn
<1>2. \/ UNCHANGED <<pc, index>> /\ pc[t] = "release"
      \/ \E to, i : Goto(t, to, i) /\ to # "join"
  BY DEF Close, CloseSession, AfterSession, CloseRelease, CloseConnection, CloseReturn, Leave
<1>3. OthersStay(t) /\ pc'[t] # "join"
  BY <1>2, Goes DEF OthersStay
<1> QED
  BY <1>1, <1>3, PolicyFrame

(* A closed dispatcher takes no request; an open one counts what it takes. *)
LEMMA PolicyBeginKeeps ==
  ASSUME TypeOK, PolicyInv, UNCHANGED serverVars, NEW r \in Requests, PolicyBegin(r)
  PROVE  PolicyInv'
<1>1. UNCHANGED <<pc, index, snapshot, joined, dispatcherClosed, firstError>>
  BY DEF serverVars, PolicyBegin
<1>2. CASE UNCHANGED <<worker, callback, futures>>
  BY <1>1, <1>2 DEF PolicyInv, FuturesCounted, JoinKnows, JoinedClosed, PolicyErrorsRaised, Done
<1>3. CASE /\ ~dispatcherClosed[r.server]
           /\ worker' = [worker EXCEPT ![r] = "pending"]
           /\ callback' = [callback EXCEPT ![r] = "missing"]
           /\ futures' = [futures EXCEPT ![r.server] = @ \cup {r}]
  <2>1. /\ worker'[r] = "pending" /\ callback'[r] = "missing" /\ r \in futures'[r.server]
        /\ \A q \in Requests : q # r => worker'[q] = worker[q] /\ callback'[q] = callback[q]
        /\ \A q \in Requests : q \in futures[q.server] => q \in futures'[q.server]
    BY <1>3, RequestAssumption DEF TypeOK, PolicyTypeOK
  <2>2. FuturesCounted'
    BY <1>1, <2>1 DEF PolicyInv, FuturesCounted, Done
  <2>3. \A t \in Threads : pc[t] = "join" => index[t] # r.server
    BY <1>3 DEF PolicyInv, JoinKnows
  <2>4. JoinKnows'
    BY <1>1, <2>1, <2>3 DEF PolicyInv, JoinKnows
  <2>5. joined[r.server] = "no"
    BY <1>3, RequestAssumption DEF PolicyInv, JoinedClosed
  <2>6. PolicyErrorsRaised' /\ JoinedClosed'
    BY <1>1, <2>1, <2>5 DEF PolicyInv, JoinedClosed, PolicyErrorsRaised, Done
  <2> QED
    BY <2>2, <2>4, <2>6 DEF PolicyInv
<1> QED
  BY <1>2, <1>3 DEF PolicyBegin

(* The answer of a request that is still counted. *)
LEMMA PolicyEvaluateKeeps ==
  ASSUME TypeOK, PolicyInv, UNCHANGED serverVars, NEW r \in Requests, PolicyEvaluate(r)
  PROVE  PolicyInv'
<1>1. UNCHANGED <<pc, index, snapshot, joined, dispatcherClosed, firstError, callback, futures>>
  BY DEF serverVars, PolicyEvaluate
<1>2. /\ worker[r] = "pending" /\ worker'[r] \in {"ok", "error"}
      /\ \A q \in Requests : q # r => worker'[q] = worker[q]
  BY DEF TypeOK, PolicyTypeOK, PolicyEvaluate
<1>3. callback[r] \in {"missing", "added"}
  BY <1>2 DEF TypeOK, PolicyTypeOK, PolicyInv, FuturesCounted, Done
<1>4. FuturesCounted'
  BY <1>1, <1>2, <1>3 DEF PolicyInv, FuturesCounted, Done
<1>5. joined[r.server] = "no"
  BY <1>2, RequestAssumption DEF PolicyInv, PolicyErrorsRaised, Done
<1>6. JoinKnows' /\ JoinedClosed'
  BY <1>1 DEF PolicyInv, JoinKnows, JoinedClosed
<1>7. PolicyErrorsRaised'
  BY <1>1, <1>2, <1>5 DEF PolicyInv, PolicyErrorsRaised, Done
<1> QED
  BY <1>4, <1>6, <1>7 DEF PolicyInv

(* The callback records the error before the future is no longer counted. *)
LEMMA PolicyCallbackKeeps ==
  ASSUME TypeOK, PolicyInv, UNCHANGED serverVars, NEW r \in Requests,
         PolicyAddCallback(r) \/ PolicyCallback(r)
  PROVE  PolicyInv'
<1>1. UNCHANGED <<pc, index, snapshot, joined, dispatcherClosed, worker>> /\ callback[r] \in {"missing", "added"}
  BY DEF serverVars, PolicyAddCallback, PolicyCallback
<1>2. PolicyErrorsRaised' /\ JoinedClosed'
  BY <1>1 DEF PolicyInv, PolicyErrorsRaised, JoinedClosed, Done
<1>3. CASE callback' = [callback EXCEPT ![r] = "added"] /\ UNCHANGED <<futures, firstError>>
  <2>1. callback'[r] = "added" /\ \A q \in Requests : q # r => callback'[q] = callback[q]
    BY <1>3 DEF TypeOK, PolicyTypeOK
  <2>2. FuturesCounted'
    BY <1>1, <1>3, <2>1 DEF PolicyInv, FuturesCounted, Done
  <2>3. JoinKnows'
    BY <1>1, <2>1 DEF PolicyInv, JoinKnows
  <2> QED
    BY <1>2, <2>2, <2>3 DEF PolicyInv
<1>4. CASE Done(r) /\ OnComplete(r)
  <2>1. callback'[r] = "run" /\ \A q \in Requests : q # r => callback'[q] = callback[q]
    BY <1>4 DEF TypeOK, PolicyTypeOK, OnComplete
  <2>2. \A q \in Requests : q # r /\ q \in futures[q.server] => q \in futures'[q.server]
    BY <1>4, RequestAssumption DEF TypeOK, PolicyTypeOK, OnComplete
  <2>3. worker[r] = "error" => firstError'[r.server]
    BY <1>4, RequestAssumption DEF TypeOK, PolicyTypeOK, OnComplete
  <2>4. \A q \in Requests : firstError[q.server] => firstError'[q.server]
    BY <1>4, RequestAssumption DEF TypeOK, PolicyTypeOK, OnComplete
  <2>5. FuturesCounted'
    <3>1. ASSUME NEW q \in Requests
          PROVE  /\ worker'[q] = "none" <=> callback'[q] = "none"
                 /\ callback'[q] \in {"missing", "added"} => q \in futures'[q.server]
                 /\ callback'[q] = "run" => Done(q)' /\ (worker'[q] = "error" => firstError'[q.server])
      <4>1. CASE q = r
        BY <1>1, <1>4, <2>1, <2>3, <4>1 DEF Done
      <4>2. CASE q # r
        BY <1>1, <2>1, <2>2, <2>4, <4>2 DEF PolicyInv, FuturesCounted, Done
      <4> QED
        BY <4>1, <4>2
    <3> QED
      BY <3>1 DEF FuturesCounted
  <2>6. JoinKnows'
    BY <1>1, <2>1 DEF PolicyInv, JoinKnows
  <2> QED
    BY <1>2, <2>5, <2>6 DEF PolicyInv
<1> QED
  BY <1>3, <1>4 DEF PolicyAddCallback, PolicyCallback

(* PolicyInv is kept by every step. *)
LEMMA PolicyInvStep ==
  ASSUME TypeOK, PolicyInv, [Next]_vars
  PROVE  PolicyInv'
<1>1. ASSUME NEW t \in Threads, Accept(t) \/ AcceptStep(t) PROVE PolicyInv'
  BY <1>1, AcceptIsFrame
<1>2. ASSUME NEW t \in Threads, Close(t) \/ CloseStep(t) PROVE PolicyInv'
  BY <1>2, CloseIsFrame, CloseServerPolicy, CloseJoinPolicy DEF CloseStep
<1>3. CASE Policy
  BY <1>3, PolicyBeginKeeps, PolicyEvaluateKeeps, PolicyCallbackKeeps DEF Policy, PolicyStep
<1>4. CASE (\E s \in Polled : Receive(s)) \/ UNCHANGED vars
  <2>1. UNCHANGED <<policyVars, pc, index, snapshot, joined>>
    BY <1>4 DEF Receive, vars, serverVars
  <2> QED
    BY <2>1 DEF PolicyInv, FuturesCounted, JoinKnows, JoinedClosed, PolicyErrorsRaised, Done
<1> QED
  BY <1>1, <1>2, <1>3, <1>4 DEF Next, Threads

(* NativeRuntimeServer.close of a policy dispatcher waits for every request it took
   and raises when the answer of one was not taken, however the callbacks, the workers
   and two closes are interleaved. *)
THEOREM PolicyErrorsRaisedHolds == Spec => []PolicyErrorsRaised
<1>1. Init => PolicyInv
  BY DEF Init, PolicyInit, PolicyInv, FuturesCounted, JoinKnows, JoinedClosed, PolicyErrorsRaised
<1>2. AcceptInv /\ PolicyInv /\ [Next]_vars => PolicyInv'
  BY PolicyInvStep DEF AcceptInv, TicketKeepsId
<1>3. Spec => []PolicyInv
  BY <1>1, <1>2, AcceptInvariance, PTL DEF Spec
<1>4. PolicyInv => PolicyErrorsRaised
  BY DEF PolicyInv
<1> QED
  BY <1>3, <1>4, PTL

-----------------------------------------------------------------------------
(* What a close leaves behind, first for the steps that do not matter to a part of
   CloseInv. *)

\* What the accept of another thread works with stays.
OthersIds(t) ==
  \A u \in Threads : u # t /\ pc[u] \in Working \cup {"claimed"} =>
    held' = held /\ handleIds'[index[u]] = handleIds[index[u]]

(* An accept is alone with its ids, ... *)
LEMMA AloneIds ==
  ASSUME AcceptInv, NEW t \in Threads, pc[t] \in Accepting
  PROVE  OthersIds(t) /\ \A u \in Threads : u # t => pc[u] \notin Working \cup {"claimed"}
  BY Alone DEF OthersIds, Accepting, Working, Lone

(* ... and a close changes none. *)
LEMMA CloseIds ==
  ASSUME AcceptInv, NEW t \in Threads, handleIds' = handleIds, held' # held => acceptLock = t
  PROVE  OthersIds(t)
  BY DEF OthersIds, AcceptInv, LockHeld, Accepting, Working

(* No ticket has the number 0. *)
LEMMA NoTicketZero ==
  ASSUME TypeOK
  PROVE  0 \notin live
<1>1. begun \in Seq(Ids) /\ live \subseteq DOMAIN begun
  BY DEF TypeOK
<1> QED
  BY <1>1, TicketNumbers

(* Tickets are only given up, and then they are left or no longer live. *)
LEMMA LiveFrame ==
  ASSUME CloseInv, NEW t \in Threads, OthersStay(t), OthersIds(t), pc[t] # "store",
         live' \subseteq live, ticketsLeft \subseteq ticketsLeft',
         \A j \in Servers : ticket'[j] # ticket[j] /\ ticket[j] \in live' => ticket[j] \in ticketsLeft'
  PROVE  LiveKept'
<1>1. ASSUME NEW x \in live'
      PROVE  \/ x \in ticketsLeft'
             \/ \E j \in Servers : ticket'[j] = x
             \/ \E u \in Threads : pc'[u] = "store" /\ held' = x
  <2>1. CASE x \in ticketsLeft
    BY <2>1
  <2>2. CASE \E j \in Servers : ticket[j] = x
    BY <1>1, <2>2
  <2>3. ASSUME NEW u \in Threads, pc[u] = "store", held = x
        PROVE  pc'[u] = "store" /\ held' = x
    BY <2>3 DEF OthersStay, OthersIds, Working
  <2> QED
    BY <1>1, <2>1, <2>2, <2>3 DEF CloseInv, LiveKept
<1> QED
  BY <1>1 DEF LiveKept

(* The ticket an accept works with, while no ticket is stored and none is claimed. *)
LEMMA HeldFrame ==
  ASSUME TypeOK, CloseInv, NEW t \in Threads, OthersStay(t), OthersIds(t),
         pc'[t] \notin {"store", "claimed"},
         pc'[t] \in Working => /\ pc[t] \in Working \ {"store"} /\ index'[t] = index[t] /\ held' = held,
         live' \subseteq live, \A j \in Servers : ticket'[j] \in {0, ticket[j]}
  PROVE  HeldHere'
<1>1. ASSUME NEW u \in Threads, pc'[u] \in Working \cup {"claimed"}
      PROVE  /\ index'[u] = index[u] /\ held' = held /\ index[u] \in Servers
             /\ pc[u] \in Working \cup {"claimed"}
             /\ pc'[u] \in {"store", "claimed"} => pc'[u] = pc[u]
             /\ pc'[u] # "store" => pc[u] # "store"
  <2>1. CASE u = t
    BY <1>1, <2>1, IndexHere DEF Working
  <2>2. CASE u # t
    BY <1>1, <2>2, IndexHere DEF OthersStay, OthersIds, Working
  <2> QED
    BY <2>1, <2>2
<1>2. ASSUME NEW u \in Threads, pc'[u] = "store" PROVE ticket'[index'[u]] = 0
  BY <1>1, <1>2 DEF CloseInv, HeldHere, Working
<1>3. ASSUME NEW u \in Threads, pc'[u] \in (Working \ {"store"}) \cup {"claimed"}
      PROVE  ticket'[index'[u]] \in {0, held'}
  <2>1. ticket[index[u]] \in {0, held} /\ index[u] \in Servers /\ index'[u] = index[u] /\ held' = held
    BY <1>1, <1>3 DEF CloseInv, HeldHere
  <2> QED
    BY <2>1
<1>4. ASSUME NEW u \in Threads, pc'[u] = "claimed" PROVE held' \notin live'
  BY <1>1, <1>4 DEF CloseInv, HeldHere
<1> QED
  BY <1>2, <1>3, <1>4 DEF HeldHere

(* The tickets of the servers that were passed, while none is stored. *)
LEMMA TicketsFrame ==
  ASSUME TypeOK, CloseInv, NEW t \in Threads, OthersStay(t), serverClosed' = serverClosed,
         \A u \in Threads : u # t => phase'[u] = phase[u],
         live' \subseteq live, ticketsLeft \subseteq ticketsLeft',
         \A j \in Servers : ticket'[j] \in {0, ticket[j]},
         HasReleased(t)' => index'[t] \in Servers /\ Released(index[t])'
  PROVE  TicketsReleased'
<1>1. \A j \in Servers : Released(j) => Released(j)'
  BY NoTicketZero DEF Released
<1>2. ASSUME NEW u \in Threads, HasReleased(u)' PROVE Released(index[u])'
  <2>1. CASE u # t
    <3>1. HasReleased(u) /\ index'[u] = index[u] /\ index[u] \in Servers
      BY <1>2, <2>1, IndexHere DEF HasReleased, OthersStay
    <3>2. Released(index[u])
      BY <3>1 DEF CloseInv, TicketsReleased
    <3> QED
      BY <1>1, <3>1, <3>2 DEF Released
  <2> QED
    BY <1>2, <2>1
<1> QED
  BY <1>1, <1>2 DEF CloseInv, TicketsReleased, Released

(* The sessions, when none is opened or closed. *)
LEMMA OpenFrame ==
  ASSUME CloseInv, NEW t \in Threads, OthersStay(t), OthersIds(t), pc[t] # "claimed",
         UNCHANGED <<open, sessions, sessionClosed>>, unknown \subseteq unknown'
  PROVE  OpenKept'
<1>1. ASSUME NEW u \in Threads, pc[u] = "claimed"
      PROVE  pc'[u] = "claimed" /\ handleIds'[index'[u]] = handleIds[index[u]]
  BY <1>1 DEF OthersStay, OthersIds
<1> QED
  BY <1>1 DEF CloseInv, OpenKept

(* What was passed stays passed while no close moves. *)
LEMMA ServersFrame ==
  ASSUME CloseInv, NEW t \in Threads, OthersStay(t), pc[t] \notin Closing, pc'[t] \notin Closing,
         UNCHANGED <<closed, serverClosed>>
  PROVE  ServersPassed'
<1>1. \A u \in Threads : (pc[u] \in Closing \/ pc'[u] \in Closing) => pc'[u] = pc[u] /\ index'[u] = index[u]
  BY DEF OthersStay
<1>2. CloseRuns' = CloseRuns
  BY <1>1 DEF CloseRuns
<1>3. \A u \in Threads : pc'[u] \in Closing \ {"sessions"} =>
         \A j \in Servers : j > index'[u] => serverClosed'[j]
  BY <1>1 DEF CloseInv, ServersPassed
<1> QED
  BY <1>2, <1>3 DEF CloseInv, ServersPassed

(* The sessions that were passed stay settled while nobody comes to the end of them. *)
LEMMA SessionsFrame ==
  ASSUME CloseInv, NEW t \in Threads, OthersStay(t), pc'[t] # "sessions",
         pc'[t] \in Closing => pc[t] \in Closing \ {"sessions"},
         closed' => closed \/ pc[t] \in Closing \ {"sessions"},
         UNCHANGED <<sessions, open>>, sessionsLeft \subseteq sessionsLeft'
  PROVE  SessionsPassed'
<1>1. \A m : Settled(m) => Settled(m)'
  BY DEF Settled
<1>2. \A u \in Threads : pc'[u] = "sessions" => pc[u] = "sessions" /\ index'[u] = index[u]
  BY DEF OthersStay
<1>3. \A u \in Threads : pc'[u] \in Closing \ {"sessions"} =>
        \E v \in Threads : pc[v] \in Closing \ {"sessions"}
  BY DEF OthersStay
<1> QED
  BY <1>1, <1>2, <1>3 DEF CloseInv, SessionsPassed

(* A step of an accept that only moves on. *)
LEMMA AcceptQuiet ==
  ASSUME TypeOK, CloseInv, NEW t \in Threads, OthersStay(t),
         pc[t] \notin Closing \cup {"store", "claimed", "expire"},
         pc'[t] \notin Closing \cup {"store", "claimed"}, OthersIds(t),
         pc'[t] \in Working => pc[t] \in Working /\ index'[t] = index[t] /\ held' = held,
         UNCHANGED <<closed, serverClosed, live, open, sessions, sessionClosed, ticket, phase, leftVars>>
  PROVE  CloseInv'
<1>1. LiveKept' /\ OpenKept'
  BY LiveFrame, OpenFrame
<1>2. HeldHere'
  BY HeldFrame
<1>3. phase[t] = "free"
  BY DEF TypeOK, Closing
<1>4. TicketsReleased'
  BY <1>3, TicketsFrame DEF HasReleased, Closing
<1>5. ServersPassed'
  BY ServersFrame
<1>6. SessionsPassed'
  BY SessionsFrame DEF Closing
<1> QED
  BY <1>1, <1>2, <1>4, <1>5, <1>6 DEF CloseInv

(* The steps of an accept that leave tickets and sessions alone. *)
LEMMA AcceptQuietSteps ==
  ASSUME AcceptInv, CloseInv, NEW t \in Threads,
         Accept(t) \/ AcceptCheck(t) \/ AcceptKeep(t) \/ AcceptWait(t) \/ AcceptAgain(t) \/ AcceptExpire(t)
  PROVE  CloseInv'
<1>1. TypeOK /\ pc[t] \in {"idle", "check", "keep", "wait", "deadline"} /\ OthersIds(t)
  <2>1. CASE Accept(t)
    BY <2>1, CloseIds DEF AcceptInv, TicketKeepsId, Accept
  <2>2. CASE AcceptCheck(t) \/ AcceptKeep(t) \/ AcceptWait(t) \/ AcceptAgain(t) \/ AcceptExpire(t)
    BY <2>2, AloneIds
       DEF AcceptInv, TicketKeepsId, AcceptCheck, AcceptKeep, AcceptWait, AcceptAgain, AcceptExpire, Accepting
  <2> QED
    BY <2>1, <2>2
<1>2. \/ \E to \in {"try", "failed", "deadline", "expire"} : \E k : Goto(t, to, k)
      \/ /\ \E to \in {"wait", "claim"} : Goto(t, to, index[t])
         /\ held' = held /\ pc[t] \in {"check", "keep", "wait"}
  BY DEF Accept, AcceptCheck, AcceptKeep, AcceptWait, WouldBlock, AcceptAgain, AcceptExpire, Fail
<1>3. /\ OthersStay(t) /\ pc'[t] \in {"try", "wait", "claim", "failed", "deadline", "expire"}
      /\ pc'[t] \in {"wait", "claim"} =>
           index'[t] = index[t] /\ held' = held /\ pc[t] \in {"check", "keep", "wait"}
  BY <1>1, <1>2, Goes
<1>4. UNCHANGED <<closed, serverClosed, live, open, sessions, sessionClosed, ticket, phase, leftVars>>
  BY DEF Accept, AcceptCheck, AcceptKeep, AcceptWait, AcceptAgain, AcceptExpire
<1> QED
  BY <1>1, <1>3, <1>4, AcceptQuiet DEF Closing, Working

(* A ticket that is begun is about to be stored where there is none. *)
LEMMA AcceptTryClose ==
  ASSUME AcceptInv, CloseInv, NEW t \in Threads, AcceptTry(t)
  PROVE  CloseInv'
<1> DEFINE i == index[t]
<1>1. TypeOK /\ i \in Servers /\ pc[t] = "try" /\ pc[t] \in Accepting /\ phase[t] = "free"
  BY IndexHere DEF AcceptInv, TicketKeepsId, AcceptTry, Accepting, TypeOK
<1>2. OthersIds(t) /\ \A u \in Threads : pc[u] \notin Working \cup {"claimed"}
  BY <1>1, AloneIds DEF Working
<1>3. UNCHANGED <<closed, serverClosed, open, sessions, sessionClosed, ticket, phase, leftVars>>
  BY DEF AcceptTry
<1>4. CASE live' = live /\ Goto(t, "failed", 1)
  <2>1. OthersStay(t) /\ pc'[t] = "failed"
    BY <1>1, <1>4, Goes
  <2> QED
    BY <1>1, <1>2, <1>3, <1>4, <2>1, AcceptQuiet DEF Closing, Working
<1>5. ASSUME NEW to \in {"check", "store"}, Goto(t, to, i)
      PROVE  /\ OthersStay(t) /\ pc'[t] = to /\ index'[t] = i
             /\ OpenKept' /\ ServersPassed' /\ SessionsPassed'
             /\ \A u \in Threads : u # t => pc'[u] \notin Working \cup {"claimed"}
             /\ ~HasReleased(t)'
  <2>1. OthersStay(t) /\ pc'[t] = to /\ index'[t] = i
    BY <1>1, <1>5, Goes
  <2>2. OpenKept'
    BY <1>1, <1>2, <1>3, <2>1, OpenFrame
  <2>3. ServersPassed' /\ SessionsPassed'
    BY <1>1, <1>3, <2>1, ServersFrame, SessionsFrame DEF Closing
  <2> QED
    BY <1>2, <2>1, <2>2, <2>3 DEF OthersStay, HasReleased
<1>6. CASE live' = live /\ held' = ticket[i] /\ Goto(t, "check", i)
  <2>1. HeldHere'
    BY <1>1, <1>3, <1>5, <1>6 DEF HeldHere, Working
  <2>2. LiveKept'
    BY <1>1, <1>2, <1>3, <1>5, <1>6, LiveFrame
  <2>3. TicketsReleased'
    BY <1>1, <1>3, <1>5, <1>6, TicketsFrame
  <2> QED
    BY <1>5, <1>6, <2>1, <2>2, <2>3 DEF CloseInv
<1>7. CASE ticket[i] = 0 /\ held' = Len(begun) + 1 /\ live' = live \cup {Len(begun) + 1} /\ Goto(t, "store", i)
  <2>1. LiveKept'
    BY <1>2, <1>3, <1>5, <1>7 DEF CloseInv, LiveKept, Working
  <2>2. HeldHere'
    BY <1>3, <1>5, <1>7 DEF HeldHere, Working
  <2>3. \A j \in Servers : ticket[j] # Len(begun) + 1
    <3>1. begun \in Seq(Ids) /\ \A j \in Servers : ticket[j] # 0 => ticket[j] \in DOMAIN begun
      BY <1>1 DEF TypeOK, AcceptInv, BegunFor
    <3>2. Len(begun) \in Nat /\ DOMAIN begun = 1 .. Len(begun)
      BY <3>1, TicketNumbers
    <3> QED
      BY <3>1, <3>2
  <2>4. \A j \in Servers : Released(j) => Released(j)'
    BY <1>3, <1>7, <2>3 DEF Released
  <2>5. ASSUME NEW u \in Threads, HasReleased(u)' PROVE Released(index[u])'
    <3>1. u # t /\ HasReleased(u) /\ index'[u] = index[u] /\ index[u] \in Servers
      BY <1>1, <1>3, <1>5, <1>7, <2>5, IndexHere DEF HasReleased, OthersStay
    <3>2. Released(index[u])
      BY <3>1 DEF CloseInv, TicketsReleased
    <3> QED
      BY <2>4, <3>1, <3>2 DEF Released
  <2>6. TicketsReleased'
    BY <1>3, <2>4, <2>5 DEF CloseInv, TicketsReleased, Released
  <2> QED
    BY <1>5, <1>7, <2>1, <2>2, <2>6 DEF CloseInv
<1> QED
  BY <1>4, <1>6, <1>7 DEF AcceptTry, Fail

(* A ticket that is stored while a close runs is left. *)
LEMMA AcceptStoreClose ==
  ASSUME AcceptInv, CloseInv, NEW t \in Threads, AcceptStore(t)
  PROVE  CloseInv'
<1> DEFINE i == index[t]
<1>1. TypeOK /\ i \in Servers /\ pc[t] = "store" /\ pc[t] \in Accepting /\ Lone(t)
  BY IndexHere, Alone DEF AcceptInv, TicketKeepsId, AcceptStore, Accepting
<1>2. OthersIds(t) /\ \A u \in Threads : u # t => pc[u] \notin Working \cup {"claimed"}
  BY <1>1, AloneIds
<1>3. UNCHANGED <<closed, serverClosed, live, open, sessions, sessionClosed, handleIds, held, phase,
                  sessionsLeft, unknown>>
      /\ ticketsLeft \subseteq ticketsLeft'
  BY DEF AcceptStore
<1>4. OthersStay(t) /\ pc'[t] = "keep" /\ index'[t] = i
  BY <1>1, Goes DEF AcceptStore
<1>5. ticket'[i] = held /\ \A j \in Servers : j # i => ticket'[j] = ticket[j]
  BY <1>1 DEF TypeOK, AcceptStore
<1>6. ticket[i] = 0 /\ 0 \notin live
  BY <1>1, NoTicketZero DEF CloseInv, HeldHere
<1>7. LiveKept'
  <2>1. ASSUME NEW x \in live', x \notin ticketsLeft' PROVE \E j \in Servers : ticket'[j] = x
    <3>1. \/ \E j \in Servers : ticket[j] = x
          \/ \E u \in Threads : pc[u] = "store" /\ held = x
      BY <1>3, <2>1 DEF CloseInv, LiveKept
    <3>2. CASE \E j \in Servers : ticket[j] = x
      BY <1>3, <1>5, <1>6, <2>1, <3>2
    <3>3. CASE held = x
      BY <1>1, <1>5, <3>3
    <3> QED
      BY <3>1, <3>2, <3>3
  <2> QED
    BY <2>1 DEF LiveKept
<1>8. HeldHere'
  BY <1>2, <1>3, <1>4, <1>5 DEF HeldHere, OthersStay, Working
<1>9. TicketsReleased'
  <2>1. \A j \in Servers : j # i /\ Released(j) => Released(j)'
    BY <1>3, <1>5 DEF Released
  <2>2. CloseRuns => Released(i)'
    BY <1>3, <1>4, <1>5 DEF Released, AcceptStore
  <2>3. \A j \in Servers : serverClosed'[j] => Released(j)'
    BY <1>3, <1>4, <2>1, <2>2 DEF CloseInv, TicketsReleased, ServersPassed, Released
  <2>4. ASSUME NEW u \in Threads, HasReleased(u)' PROVE Released(index[u])'
    <3>1. u # t /\ HasReleased(u) /\ index'[u] = index[u] /\ index[u] \in Servers
      BY <1>1, <1>3, <1>4, <2>4, IndexHere DEF HasReleased, OthersStay
    <3>2. CloseRuns
      BY <1>1, <3>1 DEF HasReleased, CloseRuns, Closing, Lone, Accepting
    <3>3. Released(index[u])
      BY <3>1 DEF CloseInv, TicketsReleased
    <3> QED
      BY <1>4, <2>1, <2>2, <3>1, <3>2, <3>3 DEF Released
  <2> QED
    BY <2>3, <2>4 DEF TicketsReleased, Released
<1>10. OpenKept'
  BY <1>1, <1>2, <1>3, <1>4, OpenFrame
<1>11. ServersPassed' /\ SessionsPassed'
  BY <1>1, <1>3, <1>4, ServersFrame, SessionsFrame DEF Closing
<1> QED
  BY <1>7, <1>8, <1>9, <1>10, <1>11 DEF CloseInv

(* A session that is claimed has an id no session had. *)
LEMMA AcceptClaimClose ==
  ASSUME AcceptInv, CloseInv, NEW t \in Threads, AcceptClaim(t)
  PROVE  CloseInv'
<1> DEFINE i == index[t]
           id == handleIds[i]
<1>1. TypeOK /\ i \in Servers /\ pc[t] = "claim" /\ pc[t] \in Accepting
  BY IndexHere DEF AcceptInv, TicketKeepsId, AcceptClaim, Accepting
<1>2. OthersIds(t) /\ \A u \in Threads : u # t => pc[u] \notin Working \cup {"claimed"}
  BY <1>1, AloneIds
<1>3. UNCHANGED <<closed, serverClosed, sessions, sessionClosed, ticket, phase, leftVars>>
  BY DEF AcceptClaim
<1>4. CASE UNCHANGED <<live, open>> /\ \E to \in {"try", "deadline", "failed"} : \E k : Goto(t, to, k)
  <2>1. OthersStay(t) /\ pc'[t] \in {"try", "deadline", "failed"}
    BY <1>1, <1>4, Goes
  <2> QED
    BY <1>1, <1>2, <1>3, <1>4, <2>1, AcceptQuiet DEF Closing, Working
<1>5. CASE live' = live \ {held} /\ open' = open \cup {id} /\ Goto(t, "claimed", i)
           /\ UNCHANGED <<handleIds, held>>
  <2>1. OthersStay(t) /\ pc'[t] = "claimed" /\ index'[t] = i
    BY <1>1, <1>5, Goes
  <2>2. \A m \in DOMAIN sessions : sessions[m] # id
    BY <1>1 DEF AcceptInv, IdsFresh
  <2>3. LiveKept'
    BY <1>1, <1>2, <1>3, <1>5, <2>1, LiveFrame
  <2>4. HeldHere'
    <3>1. ticket[i] \in {0, held}
      BY <1>1 DEF CloseInv, HeldHere, Working
    <3> QED
      BY <1>2, <1>3, <1>5, <2>1, <3>1 DEF HeldHere, OthersStay, Working
  <2>5. TicketsReleased'
    BY <1>1, <1>3, <1>5, <2>1, TicketsFrame DEF HasReleased
  <2>6. OpenKept'
    BY <1>2, <1>3, <1>5, <2>1, <2>2 DEF CloseInv, OpenKept
  <2>7. ServersPassed'
    BY <1>1, <1>3, <2>1, ServersFrame DEF Closing
  <2>8. SessionsPassed'
    <3>1. \A m \in DOMAIN sessions : Settled(m)' = Settled(m)
      BY <1>3, <1>5, <2>2 DEF Settled
    <3>2. \A u \in Threads : pc'[u] \in Closing => pc'[u] = pc[u] /\ index'[u] = index[u]
      BY <2>1 DEF OthersStay, Closing
    <3> QED
      BY <1>3, <3>1, <3>2 DEF CloseInv, SessionsPassed, Closing
  <2> QED
    BY <2>3, <2>4, <2>5, <2>6, <2>7, <2>8 DEF CloseInv
<1> QED
  BY <1>4, <1>5 DEF AcceptClaim, WouldBlock, Fail

(* A session that is listed while a close runs is left, and one that is never listed is
   of an unknown transport. *)
LEMMA AcceptReturnClose ==
  ASSUME AcceptInv, CloseInv, NEW t \in Threads, AcceptReturn(t)
  PROVE  CloseInv'
<1> DEFINE i == index[t]
           id == handleIds[i]
<1>1. TypeOK /\ i \in Servers /\ pc[t] = "claimed" /\ pc[t] \in Accepting
  BY IndexHere DEF AcceptInv, TicketKeepsId, AcceptReturn, Accepting
<1>2. OthersIds(t) /\ \A u \in Threads : u # t => pc[u] \notin Working \cup {"claimed"}
  BY <1>1, AloneIds
<1>3. /\ UNCHANGED <<closed, serverClosed, live, open, sessionClosed, phase, ticketsLeft>>
      /\ sessionsLeft \subseteq sessionsLeft' /\ unknown \subseteq unknown'
  BY DEF AcceptReturn
<1>4. \/ /\ Goto(t, "idle", 0) /\ sessions' = Append(sessions, id)
         /\ CloseRuns => id \in sessionsLeft'
      \/ Goto(t, "failed", 1) /\ sessions' = sessions /\ id \in unknown'
  BY DEF AcceptReturn, Fail
<1>5. OthersStay(t) /\ pc'[t] \in {"idle", "failed"}
  BY <1>1, <1>4, Goes
<1>6. /\ \A j \in Servers : ticket'[j] \in {0, ticket[j]}
      /\ \A j \in Servers : ticket'[j] # ticket[j] => j = i
  BY <1>1 DEF TypeOK, AcceptReturn
<1>7. ticket[i] \notin live
  <2>1. held \notin live /\ ticket[i] \in {0, held}
    BY <1>1 DEF CloseInv, HeldHere
  <2> QED
    BY <1>1, <2>1, NoTicketZero
<1>8. LiveKept'
  BY <1>1, <1>2, <1>3, <1>5, <1>6, <1>7, LiveFrame
<1>9. HeldHere'
  BY <1>1, <1>2, <1>3, <1>5, <1>6, HeldFrame DEF Working
<1>10. TicketsReleased'
  BY <1>1, <1>3, <1>5, <1>6, TicketsFrame DEF HasReleased
<1>11. ServersPassed'
  BY <1>1, <1>3, <1>5, ServersFrame DEF Closing
<1>12. /\ DOMAIN sessions \subseteq DOMAIN sessions'
       /\ \A m \in DOMAIN sessions : sessions'[m] = sessions[m]
       /\ \A m \in DOMAIN sessions' \ DOMAIN sessions : sessions'[m] = id /\ (CloseRuns => id \in sessionsLeft')
       /\ id \in unknown' \/ \E m \in DOMAIN sessions' : sessions'[m] = id
  <2>1. CASE sessions' = sessions /\ id \in unknown'
    BY <2>1
  <2>2. CASE sessions' = Append(sessions, id) /\ (CloseRuns => id \in sessionsLeft')
    <3>1. /\ Len(sessions) \in Nat
          /\ DOMAIN sessions = 1 .. Len(sessions) /\ DOMAIN sessions' = 1 .. (Len(sessions) + 1)
          /\ sessions'[Len(sessions) + 1] = id
          /\ \A m \in 1 .. Len(sessions) : sessions'[m] = sessions[m]
      BY <1>1, <2>2 DEF TypeOK
    <3> QED
      BY <2>2, <3>1
  <2> QED
    BY <1>4, <2>1, <2>2
<1>13. OpenKept'
  <2>1. \A u \in Threads : pc[u] = "claimed" => u = t
    BY <1>2
  <2>2. ASSUME NEW x \in open' PROVE x \in unknown' \/ \E m \in DOMAIN sessions' : sessions'[m] = x
    BY <1>3, <1>12, <2>1, <2>2 DEF CloseInv, OpenKept
  <2> QED
    BY <1>3, <1>12, <2>2 DEF CloseInv, OpenKept
<1>14. SessionsPassed'
  <2>1. \A u \in Threads : pc'[u] \in Closing => pc'[u] = pc[u] /\ index'[u] = index[u]
    BY <1>5 DEF OthersStay, Closing
  <2>2. \A m \in DOMAIN sessions : Settled(m) => Settled(m)'
    BY <1>3, <1>12 DEF Settled
  <2>3. CloseRuns => \A m \in DOMAIN sessions' \ DOMAIN sessions : Settled(m)'
    BY <1>12 DEF Settled
  <2>4. closed' \/ (\E u \in Threads : pc'[u] \in Closing) => CloseRuns
    BY <1>3, <2>1 DEF CloseRuns
  <2>5. ASSUME NEW u \in Threads, pc'[u] = "sessions", NEW m \in DOMAIN sessions', m > index'[u]
        PROVE  Settled(m)'
    BY <2>1, <2>2, <2>3, <2>4, <2>5 DEF CloseInv, SessionsPassed, Closing
  <2>6. ASSUME closed' \/ \E u \in Threads : pc'[u] \in Closing \ {"sessions"}, NEW m \in DOMAIN sessions'
        PROVE  Settled(m)'
    <3>1. CloseRuns
      BY <2>4, <2>6
    <3>2. closed \/ \E u \in Threads : pc[u] \in Closing \ {"sessions"}
      BY <1>3, <2>1, <2>6
    <3> QED
      BY <2>2, <2>3, <3>1, <3>2 DEF CloseInv, SessionsPassed
  <2> QED
    BY <2>5, <2>6 DEF SessionsPassed
<1> QED
  BY <1>8, <1>9, <1>10, <1>11, <1>13, <1>14 DEF CloseInv

(* A ticket is released, or left, before it is forgotten. *)
LEMMA ReleaseSettles ==
  ASSUME TypeOK, CloseInv, NEW t \in Threads, index[t] \in Servers, pc[t] \in {"expire", "release"},
         \/ ReleaseFree(t, index[t]) \/ ReleaseClear(t, index[t])
         \/ ReleaseEnd(t, index[t]) /\ err' \in [Threads -> BOOLEAN]
  PROVE  /\ live' \subseteq live /\ ticketsLeft \subseteq ticketsLeft'
         /\ \A u \in Threads : u # t => phase'[u] = phase[u]
         /\ \A j \in Servers : ticket'[j] \in {0, ticket[j]}
         /\ \A j \in Servers : ticket'[j] # ticket[j] /\ ticket[j] \in live' => ticket[j] \in ticketsLeft'
         /\ ticket'[index[t]] \in live' => ticket'[index[t]] \in ticketsLeft'
<1> DEFINE i == index[t]
<1>1. /\ live' \subseteq live /\ ticketsLeft \subseteq ticketsLeft'
      /\ \A u \in Threads : u # t => phase'[u] = phase[u]
      /\ \A j \in Servers : ticket'[j] \in {0, ticket[j]}
      /\ \A j \in Servers : j # i => ticket'[j] = ticket[j]
  BY ReleaseTypes
<1>2. 0 \notin live'
  BY <1>1, NoTicketZero
<1>3. phase[t] \in {"clear", "forget"} => (ticket[i] \in live => ticket[i] \in ticketsLeft)
  BY DEF CloseInv, TicketsReleased, HasReleased, Released
<1>4. CASE ReleaseFree(t, i)
  <2>1. ticket' = ticket /\ (ticket[i] \in live' => ticket[i] \in ticketsLeft')
    BY <1>4 DEF ReleaseFree
  <2> QED
    BY <1>1, <2>1
<1>5. CASE ReleaseClear(t, i)
  BY <1>1, <1>2, <1>3, <1>5 DEF ReleaseClear
<1>6. CASE ReleaseEnd(t, i)
  <2>1. ticket' = ticket /\ live' = live /\ ticketsLeft' = ticketsLeft
        /\ (ticket[i] = 0 \/ phase[t] = "forget")
    BY <1>6 DEF ReleaseEnd
  <2> QED
    BY <1>1, <1>2, <1>3, <2>1
<1> QED
  BY <1>4, <1>5, <1>6

(* The tickets of an accept that expired. *)
LEMMA AcceptReleaseClose ==
  ASSUME AcceptInv, CloseInv, NEW t \in Threads, AcceptRelease(t)
  PROVE  CloseInv'
<1> DEFINE i == index[t]
<1>1. TypeOK /\ i \in Servers /\ pc[t] = "expire" /\ pc[t] \in Accepting
  BY IndexHere DEF AcceptInv, TicketKeepsId, AcceptRelease, Accepting
<1>2. OthersIds(t)
  BY <1>1, AloneIds
<1>3. UNCHANGED <<closed, serverClosed, open, sessions, sessionClosed, sessionsLeft, unknown>>
  BY DEF AcceptRelease
<1>4. \/ UNCHANGED <<pc, index>> /\ (ReleaseFree(t, i) \/ ReleaseClear(t, i))
      \/ ReleaseEnd(t, i) /\ \E to \in {"expire", "failed", "idle"} : \E k : Goto(t, to, k)
  BY DEF AcceptRelease, Leave, Fail
<1>5. OthersStay(t) /\ pc'[t] \in {"expire", "failed", "idle"}
  BY <1>1, <1>4, Goes DEF OthersStay
<1>6. ReleaseEnd(t, i) => err' \in [Threads -> BOOLEAN]
  <2>1. ReleaseEnd(t, i) /\ phase[t] # "clear" => phase'[t] = "free"
    BY <1>1 DEF ReleaseEnd, ToPhase, TypeOK
  <2> QED
    BY <1>1 DEF AcceptRelease, Leave, TypeOK, ReleaseFree, ReleaseClear, ReleaseEnd
<1>7. /\ live' \subseteq live /\ ticketsLeft \subseteq ticketsLeft'
      /\ \A u \in Threads : u # t => phase'[u] = phase[u]
      /\ \A j \in Servers : ticket'[j] \in {0, ticket[j]}
      /\ \A j \in Servers : ticket'[j] # ticket[j] /\ ticket[j] \in live' => ticket[j] \in ticketsLeft'
      /\ ticket'[i] \in live' => ticket'[i] \in ticketsLeft'
  BY <1>1, <1>4, <1>6, ReleaseSettles
<1>8. HasReleased(t)' => index'[t] \in Servers /\ Released(index[t])'
  <2>1. CASE UNCHANGED <<pc, index>>
    BY <1>1, <1>7, <2>1 DEF Released
  <2>2. CASE ReleaseEnd(t, i)
    <3>1. phase'[t] = "free"
      BY <1>1, <2>2 DEF ReleaseEnd, ToPhase, TypeOK
    <3> QED
      BY <1>5, <3>1 DEF HasReleased
  <2> QED
    BY <1>4, <2>1, <2>2
<1>9. LiveKept'
  BY <1>1, <1>2, <1>5, <1>7, LiveFrame
<1>10. HeldHere'
  BY <1>1, <1>2, <1>5, <1>7, HeldFrame DEF Working
<1>11. TicketsReleased'
  BY <1>1, <1>3, <1>5, <1>7, <1>8, TicketsFrame
<1>12. OpenKept'
  BY <1>1, <1>2, <1>3, <1>5, OpenFrame
<1>13. ServersPassed' /\ SessionsPassed'
  BY <1>1, <1>3, <1>5, ServersFrame, SessionsFrame DEF Closing
<1> QED
  BY <1>9, <1>10, <1>11, <1>12, <1>13 DEF CloseInv

(* A close that begins has passed nothing. *)
LEMMA CloseClose ==
  ASSUME AcceptInv, CloseInv, NEW t \in Threads, Close(t)
  PROVE  CloseInv'
<1>1. TypeOK /\ pc[t] \in {"idle", "failed"}
  BY DEF AcceptInv, TicketKeepsId, Close
<1>2. /\ UNCHANGED <<closed, serverClosed, live, open, sessions, sessionClosed, ticket, leftVars, handleIds,
                     phase>>
      /\ OthersIds(t)
  BY CloseIds DEF Close, Leave
<1>3. \/ Goto(t, "idle", 0)
      \/ sessions = <<>> /\ Goto(t, "servers", Last)
      \/ Goto(t, "sessions", Len(sessions))
  BY DEF Close, Leave
<1>4. OthersStay(t) /\ pc'[t] \in {"idle", "servers", "sessions"}
  BY <1>1, <1>3, Goes
<1>5. LiveKept' /\ OpenKept'
  BY <1>1, <1>2, <1>4, LiveFrame, OpenFrame
<1>6. HeldHere'
  BY <1>1, <1>2, <1>4, HeldFrame DEF Working
<1>7. TicketsReleased'
  BY <1>1, <1>2, <1>4, TicketsFrame DEF HasReleased
<1>8. CASE pc'[t] = "idle"
  BY <1>1, <1>2, <1>4, <1>5, <1>6, <1>7, <1>8, ServersFrame, SessionsFrame DEF Closing, CloseInv
<1>9. CASE pc'[t] # "idle"
  <2>1. \/ sessions = <<>> /\ pc'[t] = "servers" /\ index'[t] = Last
        \/ pc'[t] = "sessions" /\ index'[t] = Len(sessions)
    BY <1>1, <1>3, <1>9, Goes
  <2>2. \A j \in Servers : ~(j > Last)
    BY ServerNumbers
  <2>3. CloseRuns => CloseRuns'
    BY <1>1, <1>2, <1>4, CloseGoesOn DEF Closing
  <2>4. ServersPassed'
    BY <1>2, <1>4, <2>1, <2>2, <2>3 DEF CloseInv, ServersPassed, OthersStay
  <2>5. \A m \in DOMAIN sessions : Settled(m)' = Settled(m) /\ ~(m > Len(sessions))
    BY <1>1, <1>2 DEF Settled, TypeOK
  <2>6. sessions = <<>> => DOMAIN sessions = {}
    OBVIOUS
  <2>7. SessionsPassed'
    BY <1>2, <1>4, <2>1, <2>5, <2>6 DEF CloseInv, SessionsPassed, OthersStay
  <2> QED
    BY <1>5, <1>6, <1>7, <2>4, <2>7 DEF CloseInv
<1> QED
  BY <1>8, <1>9

(* A session is closed, was closed, or is left; the older ones follow. *)
LEMMA CloseSessionClose ==
  ASSUME AcceptInv, CloseInv, NEW t \in Threads, CloseSession(t)
  PROVE  CloseInv'
<1> DEFINE k == index[t]
           x == sessions[k]
<1>1. /\ TypeOK /\ pc[t] = "sessions"
      /\ k \in DOMAIN sessions /\ DOMAIN sessions \subseteq Nat /\ k \in Nat
  BY IndexHere DEF AcceptInv, TicketKeepsId, TypeOK, CloseSession
<1>2. /\ UNCHANGED <<closed, serverClosed, live, sessions, ticket, handleIds, held, phase, ticketsLeft, unknown>>
      /\ OthersIds(t) /\ sessionsLeft \subseteq sessionsLeft' /\ open' \subseteq open
  BY CloseIds DEF CloseSession
<1>3. (k = 1 /\ Goto(t, "servers", Last)) \/ Goto(t, "sessions", k - 1)
  BY DEF CloseSession, AfterSession
<1>4. \/ x \in sessionClosed /\ UNCHANGED <<open, sessionClosed, sessionsLeft>>
      \/ open' = open \ {x} /\ sessionClosed' = sessionClosed \cup {x} /\ UNCHANGED sessionsLeft
      \/ sessionsLeft' = sessionsLeft \cup {x} /\ UNCHANGED <<open, sessionClosed>>
  BY DEF CloseSession
<1>5. /\ OthersStay(t)
      /\ \/ k = 1 /\ pc'[t] = "servers" /\ index'[t] = Last
         \/ pc'[t] = "sessions" /\ index'[t] = k - 1
  BY <1>1, <1>3, Goes
<1>6. LiveKept'
  BY <1>1, <1>2, <1>5, LiveFrame
<1>7. HeldHere' /\ TicketsReleased'
  BY <1>1, <1>2, <1>5, HeldFrame, TicketsFrame DEF Working, HasReleased
<1>8. OpenKept'
  <2>1. \A u \in Threads : pc[u] = "claimed" => pc'[u] = "claimed" /\ index'[u] = index[u]
    BY <1>1, <1>5 DEF OthersStay
  <2>2. \A id \in open' : \/ id \in unknown'
                          \/ \E m \in DOMAIN sessions' : sessions'[m] = id
                          \/ \E u \in Threads : pc'[u] = "claimed" /\ handleIds'[index'[u]] = id
    BY <1>2, <2>1 DEF CloseInv, OpenKept
  <2>3. \A id \in sessionClosed' : id \notin open' /\ \E m \in DOMAIN sessions' : sessions'[m] = id
    BY <1>1, <1>2, <1>4 DEF CloseInv, OpenKept
  <2> QED
    BY <2>2, <2>3 DEF OpenKept
<1>9. ServersPassed'
  <2>1. CloseRuns => CloseRuns'
    BY <1>2, <1>5, CloseGoesOn DEF Closing
  <2>2. \A j \in Servers : ~(j > Last)
    BY ServerNumbers
  <2> QED
    BY <1>2, <1>5, <2>1, <2>2 DEF CloseInv, ServersPassed, OthersStay
<1>10. SessionsPassed'
  <2>1. \A m : m = k => Settled(m)'
    BY <1>2, <1>4 DEF CloseInv, OpenKept, Settled
  <2>2. \A m : Settled(m) => Settled(m)'
    BY <1>2 DEF Settled
  <2>3. \A m \in DOMAIN sessions : m >= k => Settled(m)'
    <3>1. \A m \in DOMAIN sessions : m >= k => m = k \/ m > k
      BY <1>1
    <3> QED
      BY <1>1, <2>1, <2>2, <3>1 DEF CloseInv, SessionsPassed
  <2>4. k = 1 => \A m \in DOMAIN sessions : m >= k
    BY <1>1 DEF TypeOK
  <2>5. \A m \in DOMAIN sessions : m > k - 1 => m >= k
    BY <1>1
  <2>6. \A u \in Threads : pc'[u] = "sessions" => \A m \in DOMAIN sessions' : m > index'[u] => Settled(m)'
    BY <1>2, <1>5, <2>2, <2>3, <2>5 DEF CloseInv, SessionsPassed, OthersStay
  <2>7. ASSUME closed' \/ \E u \in Threads : pc'[u] \in Closing \ {"sessions"}, NEW m \in DOMAIN sessions'
        PROVE  Settled(m)'
    <3>1. CASE closed \/ \E u \in Threads : pc[u] \in Closing \ {"sessions"}
      BY <1>2, <2>2, <3>1 DEF CloseInv, SessionsPassed
    <3>2. CASE pc'[t] # "sessions"
      BY <1>2, <1>5, <2>3, <2>4, <3>2
    <3> QED
      BY <1>2, <1>5, <2>7, <3>1, <3>2 DEF OthersStay
  <2> QED
    BY <2>6, <2>7 DEF SessionsPassed
<1> QED
  BY <1>6, <1>7, <1>8, <1>9, <1>10 DEF CloseInv

(* The steps of the close of a server before its flag is set. *)
LEMMA CloseServerClose ==
  ASSUME AcceptInv, CloseInv, NEW t \in Threads,
         CloseServer(t) \/ CloseJoin(t) \/ CloseRelease(t)
  PROVE  CloseInv'
<1> DEFINE i == index[t]
<1>1. /\ TypeOK /\ i \in Servers /\ i \in Nat /\ Servers \subseteq Nat
      /\ pc[t] \in {"servers", "join", "release"}
  BY IndexHere, ServerNumbers DEF AcceptInv, TicketKeepsId, CloseServer, CloseJoin, CloseRelease
<1>2. /\ UNCHANGED <<closed, serverClosed, open, sessions, sessionClosed, handleIds, held, sessionsLeft, unknown>>
      /\ OthersIds(t)
  BY CloseIds DEF CloseServer, CloseJoin, CloseRelease
<1>3. \/ serverClosed[i] /\ Goto(t, "servers", i - 1) /\ ~CloseRelease(t)
      \/ \E to \in {"join", "release"} : Goto(t, to, i) /\ ~CloseRelease(t)
      \/ CloseRelease(t) /\ UNCHANGED <<pc, index>> /\ pc[t] = "release"
      \/ CloseRelease(t) /\ Goto(t, "connection", i) /\ ReleaseEnd(t, i)
  BY DEF CloseServer, CloseJoin, CloseRelease
<1>4. /\ OthersStay(t)
      /\ \/ serverClosed[i] /\ pc'[t] = "servers" /\ index'[t] = i - 1 /\ ~CloseRelease(t)
         \/ pc'[t] \in {"join", "release"} /\ index'[t] = i /\ ~CloseRelease(t)
         \/ pc'[t] \in {"release", "connection"} /\ index'[t] = i /\ CloseRelease(t)
  BY <1>1, <1>3, Goes DEF OthersStay
<1>5. /\ live' \subseteq live /\ ticketsLeft \subseteq ticketsLeft'
      /\ \A u \in Threads : u # t => phase'[u] = phase[u]
      /\ \A j \in Servers : ticket'[j] \in {0, ticket[j]}
      /\ \A j \in Servers : ticket'[j] # ticket[j] /\ ticket[j] \in live' => ticket[j] \in ticketsLeft'
      /\ HasReleased(t)' => index'[t] \in Servers /\ Released(index[t])'
  <2>1. CASE CloseServer(t) \/ CloseJoin(t)
    <3>1. UNCHANGED <<live, ticketsLeft, phase, ticket>> /\ phase[t] = "free" /\ ~CloseRelease(t)
      BY <1>1, <2>1 DEF CloseServer, CloseJoin, CloseRelease, TypeOK
    <3>2. ~HasReleased(t)'
      BY <1>4, <3>1 DEF HasReleased
    <3> QED
      BY <3>1, <3>2
  <2>2. CASE CloseRelease(t)
    <3>1. /\ pc[t] = "release" /\ (ReleaseEnd(t, i) => err' \in [Threads -> BOOLEAN] \/ pc'[t] # "connection")
          /\ ReleaseFree(t, i) \/ ReleaseClear(t, i) \/ (ReleaseEnd(t, i) /\ UNCHANGED err)
      BY <1>1, <2>2 DEF CloseRelease, TypeOK
    <3>2. err \in [Threads -> BOOLEAN]
      BY <1>1 DEF TypeOK
    <3>3. /\ live' \subseteq live /\ ticketsLeft \subseteq ticketsLeft'
          /\ \A u \in Threads : u # t => phase'[u] = phase[u]
          /\ \A j \in Servers : ticket'[j] \in {0, ticket[j]}
          /\ \A j \in Servers : ticket'[j] # ticket[j] /\ ticket[j] \in live' => ticket[j] \in ticketsLeft'
          /\ ticket'[i] \in live' => ticket'[i] \in ticketsLeft'
      BY <1>1, <3>1, <3>2, ReleaseSettles
    <3>4. index'[t] = i
      BY <1>4, <2>2
    <3> QED
      BY <1>1, <3>3, <3>4 DEF Released
  <2> QED
    BY <2>1, <2>2
<1>6. LiveKept'
  BY <1>1, <1>2, <1>4, <1>5, LiveFrame
<1>7. HeldHere'
  BY <1>1, <1>2, <1>4, <1>5, HeldFrame DEF Working
<1>8. TicketsReleased'
  BY <1>1, <1>2, <1>4, <1>5, TicketsFrame
<1>9. OpenKept'
  BY <1>1, <1>2, <1>4, OpenFrame
<1>10. ServersPassed'
  <2>1. CloseRuns => CloseRuns'
    BY <1>2, <1>4, CloseGoesOn DEF Closing
  <2>2. ASSUME NEW j \in Servers, j > i - 1 PROVE j > i \/ j = i
    <3>1. j \in Nat
      BY <1>1
    <3> QED
      BY <1>1, <2>2, <3>1
  <2>3. \A j \in Servers : j > i => serverClosed[j]
    BY <1>1 DEF CloseInv, ServersPassed, Closing
  <2> QED
    BY <1>2, <1>4, <2>1, <2>2, <2>3 DEF CloseInv, ServersPassed, OthersStay
<1>11. SessionsPassed'
  BY <1>1, <1>2, <1>4, SessionsFrame DEF Closing
<1> QED
  BY <1>6, <1>7, <1>8, <1>9, <1>10, <1>11 DEF CloseInv

(* The flag of a server is set once its ticket was released. *)
LEMMA CloseConnectionClose ==
  ASSUME AcceptInv, CloseInv, NEW t \in Threads, CloseConnection(t)
  PROVE  CloseInv'
<1> DEFINE i == index[t]
<1>1. TypeOK /\ i \in Servers /\ i \in Nat /\ Servers \subseteq Nat /\ pc[t] = "connection"
  BY IndexHere, ServerNumbers DEF AcceptInv, TicketKeepsId, CloseConnection
<1>2. /\ UNCHANGED <<closed, live, open, sessions, sessionClosed, ticket, leftVars, handleIds, held, phase>>
      /\ OthersIds(t)
  BY CloseIds DEF CloseConnection
<1>3. OthersStay(t) /\ pc'[t] = "servers" /\ index'[t] = i - 1
  BY <1>1, Goes DEF CloseConnection
<1>4. serverClosed'[i] = TRUE /\ \A j \in Servers : j # i => serverClosed'[j] = serverClosed[j]
  BY <1>1 DEF TypeOK, CloseConnection
<1>5. LiveKept'
  BY <1>1, <1>2, <1>3, LiveFrame
<1>6. HeldHere'
  BY <1>1, <1>2, <1>3, HeldFrame DEF Working
<1>7. TicketsReleased'
  <2>1. ticket[i] \in live => ticket[i] \in ticketsLeft
    BY <1>1 DEF CloseInv, TicketsReleased, HasReleased, Released
  <2> QED
    BY <1>1, <1>2, <1>3, <1>4, <2>1 DEF CloseInv, TicketsReleased, HasReleased, Released, OthersStay
<1>8. OpenKept'
  BY <1>1, <1>2, <1>3, OpenFrame
<1>9. ServersPassed'
  <2>1. CloseRuns'
    BY <1>3 DEF CloseRuns, Closing
  <2>2. \A j \in Servers : serverClosed[j] => serverClosed'[j]
    BY <1>4
  <2>3. \A j \in Servers : j > i - 1 => serverClosed'[j]
    <3>1. \A j \in Servers : j > i - 1 => j > i \/ j = i
      BY <1>1
    <3>2. \A j \in Servers : j > i => serverClosed[j]
      BY <1>1 DEF CloseInv, ServersPassed, Closing
    <3> QED
      BY <1>4, <2>2, <3>1, <3>2
  <2> QED
    BY <1>2, <1>3, <2>1, <2>2, <2>3 DEF CloseInv, ServersPassed, OthersStay
<1>10. SessionsPassed'
  BY <1>1, <1>2, <1>3, SessionsFrame DEF Closing
<1> QED
  BY <1>5, <1>6, <1>7, <1>8, <1>9, <1>10 DEF CloseInv

(* The flag of the whole is set once every server was passed. *)
LEMMA CloseReturnClose ==
  ASSUME AcceptInv, CloseInv, NEW t \in Threads, CloseReturn(t)
  PROVE  CloseInv'
<1>1. TypeOK /\ pc[t] = "servers" /\ index[t] = 0 /\ closed'
  BY DEF AcceptInv, TicketKeepsId, CloseReturn
<1>2. /\ UNCHANGED <<serverClosed, live, open, sessions, sessionClosed, ticket, leftVars, handleIds, phase>>
      /\ OthersIds(t)
  BY CloseIds DEF CloseReturn, Leave
<1>3. OthersStay(t) /\ pc'[t] = "idle"
  BY <1>1, Goes DEF CloseReturn, Leave
<1>4. LiveKept' /\ OpenKept'
  BY <1>1, <1>2, <1>3, LiveFrame, OpenFrame
<1>5. HeldHere'
  BY <1>1, <1>2, <1>3, HeldFrame DEF Working
<1>6. TicketsReleased'
  BY <1>1, <1>2, <1>3, TicketsFrame DEF HasReleased
<1>7. ServersPassed'
  <2>1. \A j \in Servers : j > 0
    BY ServerNumbers
  <2>2. \A j \in Servers : serverClosed[j]
    BY <1>1, <2>1 DEF CloseInv, ServersPassed, Closing
  <2> QED
    BY <1>1, <1>2, <2>2 DEF ServersPassed, CloseRuns
<1>8. SessionsPassed'
  BY <1>1, <1>2, <1>3, SessionsFrame DEF Closing
<1> QED
  BY <1>4, <1>5, <1>6, <1>7, <1>8 DEF CloseInv

(* CloseInv is kept by every step. *)
LEMMA CloseInvStep ==
  ASSUME AcceptInv, CloseInv, [Next]_vars
  PROVE  CloseInv'
<1>1. ASSUME NEW t \in Threads, Accept(t) \/ AcceptStep(t) PROVE CloseInv'
  BY <1>1, AcceptQuietSteps, AcceptTryClose, AcceptStoreClose, AcceptClaimClose, AcceptReturnClose,
     AcceptReleaseClose DEF AcceptStep
<1>2. ASSUME NEW t \in Threads, Close(t) \/ CloseStep(t) PROVE CloseInv'
  BY <1>2, CloseClose, CloseSessionClose, CloseServerClose, CloseConnectionClose, CloseReturnClose
     DEF CloseStep
<1>3. CASE UNCHANGED acceptVars
  BY <1>3 DEF acceptVars, CloseInv, LiveKept, HeldHere, TicketsReleased, Released, HasReleased, ServersPassed,
     SessionsPassed, OpenKept, Settled, CloseRuns
<1>4. CASE Policy \/ UNCHANGED vars \/ \E s \in Polled : Receive(s)
  <2>1. UNCHANGED acceptVars
    BY <1>4 DEF Policy, vars, serverVars, Receive, acceptVars
  <2> QED
    BY <1>3, <2>1
<1> QED
  BY <1>1, <1>2, <1>4 DEF Next, Threads

(* NativeServer.close, alone, twice at a time, beside an accept or inside one, leaves a
   native ticket open only when the native runtime refused to release it or an accept
   stored it while or after a close ran, and a native session only when the runtime refused
   to close it, an accept handed it out while or after a close ran, or it was claimed on a
   transport without a name; every server is closed. *)
THEOREM ClosedLeavesNothingHolds == Spec => []ClosedLeavesNothing
<1>1. Init => CloseInv
  BY DEF Init, CloseInv, LiveKept, HeldHere, TicketsReleased, HasReleased, Released, ServersPassed,
     SessionsPassed, OpenKept, CloseRuns, Closing, Working
<1>2. AcceptInv /\ CloseInv /\ [Next]_vars => CloseInv'
  BY CloseInvStep
<1>3. Spec => []CloseInv
  BY <1>1, <1>2, AcceptInvariance, PTL DEF Spec
<1>4. CloseInv => ClosedLeavesNothing
  <2> SUFFICES ASSUME CloseInv, closed, \A t \in Threads : pc[t] = "idle"
               PROVE  /\ live \subseteq ticketsLeft
                      /\ open \subseteq unknown \cup (sessionsLeft \cap {sessions[m] : m \in DOMAIN sessions})
                      /\ \A i \in Servers : serverClosed[i]
    BY DEF ClosedLeavesNothing
  <2>1. \A i \in Servers : serverClosed[i]
    BY DEF CloseInv, ServersPassed
  <2>2. ASSUME NEW x \in live PROVE x \in ticketsLeft
    BY <2>1, <2>2 DEF CloseInv, LiveKept, TicketsReleased, Released
  <2>3. ASSUME NEW id \in open, id \notin unknown
        PROVE  id \in sessionsLeft /\ \E m \in DOMAIN sessions : sessions[m] = id
    BY <2>3 DEF CloseInv, OpenKept, SessionsPassed, Settled
  <2> QED
    BY <2>1, <2>2, <2>3
<1> QED
  BY <1>3, <1>4, PTL
=============================================================================
