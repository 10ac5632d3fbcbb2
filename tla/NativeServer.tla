---------------------------- MODULE NativeServer ---------------------------
(***************************************************************************)
(* NativeServer of src/nnrp/server/native.py over the NativeRuntimeServer  *)
(* of src/nnrp/native.py it has for each transport.  accept polls the      *)
(* servers in turn under _accept_lock; a server keeps its native accept    *)
(* ticket, with the session handle id it was begun with, from one poll to  *)
(* the next.  close takes no lock of the server: it runs beside an accept, *)
(* beside another close, and inside an accept that failed, so every read   *)
(* and write of a server's ticket and of its id is a step of its own.  It  *)
(* does take the poll lock of each session, which the application's        *)
(* receives hold while they wait.                                          *)
(*                                                                         *)
(* The native runtime is external: it begins, waits on, claims and         *)
(* releases tickets and closes sessions and servers, and may refuse each.  *)
(***************************************************************************)
EXTENDS PolicyDispatcher, Sequences

CONSTANTS
  Acceptors, \* the callers of accept
  Closers,   \* the callers of close
  MaxIds,    \* bound: session handle ids allocated
  MaxTickets,\* bound: native tickets begun; more are refused
  Polled,    \* bound: the sessions, by handle id, the application receives on
  NoThread

Ids == 1..MaxIds
Threads == Acceptors \cup Closers

ASSUME ServerAssumption ==
  /\ IsFiniteSet(Servers) /\ Servers = 1..Cardinality(Servers) /\ Servers # {}
  /\ MaxIds \in Nat /\ MaxTickets \in Nat /\ Polled \subseteq Ids /\ NoThread \notin Threads

Tickets == 1..MaxTickets
Last == Cardinality(Servers)

VARIABLES
  closed,       \* _closed
  acceptLock,   \* the holder of _accept_lock
  handleIds,    \* _accept_session_handle_ids; 0: None
  nextId,       \* the next id of _allocate_native_handle_id
  sessions,     \* _sessions, by handle id
  sessionClosed,\* the sessions whose _closed flag is set
  polling,      \* the sessions whose _poll_lock a receive holds
  ticket,       \* _accept_ticket of each server; 0: None
  ticketId,     \* its _accept_session_handle_id, with _accept_generation; 0: None
  held,         \* accept_ticket, the local of the accept under way; 0: none
  serverClosed, \* _closed of each server
  begun,        \* the native tickets begun, by the id they were begun with
  live,         \* those that are neither claimed nor released
  open,         \* native sessions that are claimed and not closed
  pc, index, phase, err, snapshot, \* per thread: where it is, its loop index, how far
                \* its release of a ticket is, whether one of an accept
                \* failed, the futures its close saw
  ticketsLeft,  \* history: tickets the native runtime refused to release, and those
                \* stored while or after a close ran
  sessionsLeft, \* history: sessions it refused to close, and those handed to the
                \* application while or after a close ran
  unknown,      \* history: sessions claimed on a transport Python has no name for
  joined        \* history: servers whose policy workers a close has waited for,
                \* with whether it found an error

idVars == <<handleIds, nextId>>
ticketVars == <<ticket, ticketId>>
nativeVars == <<begun, live, open>>
sessionVars == <<sessions, sessionClosed, polling>>
leftVars == <<ticketsLeft, sessionsLeft, unknown>>
threadVars == <<pc, index, phase, err, snapshot>>
serverVars == <<closed, acceptLock, idVars, sessionVars, ticketVars, held, serverClosed,
                nativeVars, threadVars, leftVars, joined>>
vars == <<policyVars, serverVars>>

Init ==
  /\ PolicyInit
  /\ closed = FALSE /\ acceptLock = NoThread
  /\ handleIds = [i \in Servers |-> 0] /\ nextId = 1
  /\ sessions = <<>> /\ sessionClosed = {} /\ polling = {}
  /\ ticket = [i \in Servers |-> 0] /\ ticketId = [i \in Servers |-> 0] /\ held = 0
  /\ serverClosed = [i \in Servers |-> FALSE]
  /\ begun = <<>> /\ live = {} /\ open = {}
  /\ pc = [t \in Threads |-> "idle"] /\ index = [t \in Threads |-> 0]
  /\ phase = [t \in Threads |-> "free"]
  /\ err = [t \in Threads |-> FALSE] /\ snapshot = [t \in Threads |-> {}]
  /\ ticketsLeft = {} /\ sessionsLeft = {} /\ unknown = {}
  /\ joined = [i \in Servers |-> "no"]

Goto(t, to, i) == pc' = [pc EXCEPT ![t] = to] /\ index' = [index EXCEPT ![t] = i]
\* An accept that failed goes on to close the server.
Fail(t) == Goto(t, "failed", 1) /\ held' = 0
\* The end of a call: what held the accept lock was an accept.
Leave(t) ==
  /\ Goto(t, "idle", 0)
  /\ err' = [err EXCEPT ![t] = FALSE]
  /\ acceptLock' = IF acceptLock = t THEN NoThread ELSE acceptLock
  /\ held' = IF acceptLock = t THEN 0 ELSE held

Accepting == {"try", "check", "store", "keep", "wait", "claim", "claimed", "deadline", "expire"}
Closing == {"sessions", "servers", "join", "release", "connection"}
CloseRuns == closed \/ \E t \in Threads : pc[t] \in Closing

-----------------------------------------------------------------------------
(* accept *)

\* Bound: a call allocates at most one id for each server that has none.
IdsLeft == nextId + Cardinality({i \in Servers : handleIds[i] = 0}) <= MaxIds + 1

\* _accept: one caller at a time.
Accept(t) ==
  /\ pc[t] = "idle" /\ acceptLock = NoThread /\ ~closed
  /\ IdsLeft
  /\ acceptLock' = t
  /\ Goto(t, "try", 1)
  /\ UNCHANGED <<policyVars, closed, idVars, sessionVars, ticketVars, held, serverClosed,
                 nativeVars, phase, err, snapshot, leftVars, joined>>

\* The id an attempt on server i uses: the one kept, or a new one.
AttemptId(i) == IF handleIds[i] = 0 THEN nextId ELSE handleIds[i]

\* The top of accept_session: refused by a closed server; the ticket is read, and begun
\* where there is none.  The native runtime may refuse that.
AcceptTry(t) ==
  LET i == index[t]
      id == AttemptId(i)
  IN /\ pc[t] = "try"
     /\ handleIds' = [handleIds EXCEPT ![i] = id]
     /\ nextId' = IF id = nextId THEN nextId + 1 ELSE nextId
     /\ \/ /\ serverClosed[i] \/ ticket[i] = 0
           /\ Fail(t) /\ UNCHANGED <<begun, live>>
        \/ /\ ~serverClosed[i] /\ ticket[i] # 0
           /\ held' = ticket[i] /\ Goto(t, "check", i) /\ UNCHANGED <<begun, live>>
        \/ /\ ~serverClosed[i] /\ ticket[i] = 0 /\ Len(begun) < MaxTickets
           /\ begun' = Append(begun, id) /\ held' = Len(begun) + 1
           /\ live' = live \cup {Len(begun) + 1} /\ Goto(t, "store", i)
     /\ UNCHANGED <<policyVars, closed, acceptLock, sessionVars, ticketVars, serverClosed,
                    open, phase, err, snapshot, leftVars, joined>>

\* The ticket was there: its id is read, which a close may have cleared since.  Another
\* id is the "requires the original session handle id and generation" error.
AcceptCheck(t) ==
  LET i == index[t]
  IN /\ pc[t] = "check"
     /\ \/ ticketId[i] = handleIds[i] /\ Goto(t, "wait", i) /\ UNCHANGED held
        \/ ticketId[i] # handleIds[i] /\ Fail(t)
     /\ UNCHANGED <<policyVars, closed, acceptLock, idVars, sessionVars, ticketVars, serverClosed,
                    nativeVars, phase, err, snapshot, leftVars, joined>>

\* A new ticket is stored on the server, ...
AcceptStore(t) ==
  LET i == index[t]
  IN /\ pc[t] = "store"
     /\ ticket' = [ticket EXCEPT ![i] = held]
     /\ ticketsLeft' = IF CloseRuns THEN ticketsLeft \cup {held} ELSE ticketsLeft
     /\ Goto(t, "keep", i)
     /\ UNCHANGED <<policyVars, closed, acceptLock, idVars, sessionVars, ticketId, held, serverClosed,
                    nativeVars, phase, err, snapshot, sessionsLeft, unknown, joined>>

\* ... then the id it was begun with.
AcceptKeep(t) ==
  LET i == index[t]
  IN /\ pc[t] = "keep"
     /\ ticketId' = [ticketId EXCEPT ![i] = handleIds[i]]
     /\ Goto(t, "wait", i)
     /\ UNCHANGED <<policyVars, closed, acceptLock, idVars, sessionVars, ticket, held, serverClosed,
                    nativeVars, phase, err, snapshot, leftVars, joined>>

\* Mutant of KeptId: a poll that would block gives up its id.
KeptId_Fresh(i) == 0

\* The id of a server whose poll would block is kept for the next poll.
KeptId(i) == handleIds[i]

\* Nothing yet: the next server, and after the last the deadline is looked at.
WouldBlock(t) ==
  LET i == index[t]
  IN /\ handleIds' = [handleIds EXCEPT ![i] = KeptId(i)]
     /\ held' = 0
     /\ \/ i < Last /\ Goto(t, "try", i + 1)
        \/ i = Last /\ Goto(t, "deadline", 1)

\* server_accept_wait, on a ticket that may have been released meanwhile.
AcceptWait(t) ==
  LET i == index[t]
  IN /\ pc[t] = "wait"
     /\ \/ held \in live /\ Goto(t, "claim", i) /\ UNCHANGED <<handleIds, held>>
        \/ held \in live /\ WouldBlock(t)
        \/ Fail(t) /\ UNCHANGED handleIds
     /\ UNCHANGED <<policyVars, closed, acceptLock, nextId, sessionVars, ticketVars, serverClosed,
                    nativeVars, phase, err, snapshot, leftVars, joined>>

\* server_accept_claim makes the session; it may fail as the wait does.
AcceptClaim(t) ==
  LET i == index[t]
      id == handleIds[i]
  IN /\ pc[t] = "claim"
     /\ \/ /\ held \in live
           /\ live' = live \ {held} /\ open' = open \cup {id}
           /\ Goto(t, "claimed", i) /\ UNCHANGED <<handleIds, held>>
        \/ held \in live /\ WouldBlock(t) /\ UNCHANGED <<live, open>>
        \/ Fail(t) /\ UNCHANGED <<live, open, handleIds>>
     /\ UNCHANGED <<policyVars, closed, acceptLock, nextId, sessionVars, ticketVars, serverClosed,
                    begun, phase, err, snapshot, leftVars, joined>>

\* The ticket and its id are forgotten, and the session appended and returned; a result
\* that names an unknown transport fails the accept, and the session it claimed is dropped.
AcceptReturn(t) ==
  LET i == index[t]
      id == handleIds[i]
  IN /\ pc[t] = "claimed"
     /\ ticket' = [ticket EXCEPT ![i] = 0] /\ ticketId' = [ticketId EXCEPT ![i] = 0]
     /\ \/ /\ sessions' = Append(sessions, id)
           /\ handleIds' = [handleIds EXCEPT ![i] = 0]
           /\ sessionsLeft' = IF CloseRuns THEN sessionsLeft \cup {id} ELSE sessionsLeft
           /\ acceptLock' = NoThread /\ held' = 0 /\ Goto(t, "idle", 0) /\ UNCHANGED unknown
        \/ /\ unknown' = unknown \cup {id} /\ Fail(t)
           /\ UNCHANGED <<sessions, handleIds, sessionsLeft, acceptLock>>
     /\ UNCHANGED <<policyVars, closed, nextId, sessionClosed, polling, serverClosed, nativeVars,
                    phase, err, snapshot, ticketsLeft, joined>>

\* Another round, or the deadline has passed.
AcceptAgain(t) ==
  /\ pc[t] = "deadline" /\ Goto(t, "try", 1)
  /\ UNCHANGED <<policyVars, closed, acceptLock, idVars, sessionVars, ticketVars, held, serverClosed,
                 nativeVars, phase, err, snapshot, leftVars, joined>>

AcceptExpire(t) ==
  /\ pc[t] = "deadline" /\ Goto(t, "expire", 1)
  /\ UNCHANGED <<policyVars, closed, acceptLock, idVars, sessionVars, ticketVars, held, serverClosed,
                 nativeVars, phase, err, snapshot, leftVars, joined>>

ToPhase(t, to) == phase' = [phase EXCEPT ![t] = to]

\* _release_pending_accept_ticket of server i, one step of it.  A ticket that is there is
\* released, which the native runtime may refuse, and then forgotten in any case (it is
\* read with the native call: what others store meanwhile changes nothing in that): ...
ReleaseFree(t, i) ==
  /\ phase[t] = "free" /\ ticket[i] # 0
  /\ \/ ticket[i] \in live /\ live' = live \ {ticket[i]} /\ UNCHANGED <<ticketsLeft, err>>
     \/ /\ ticketsLeft' = ticketsLeft \cup (live \cap {ticket[i]}) /\ UNCHANGED live
        /\ err' = [err EXCEPT ![t] = pc[t] = "expire"]
  /\ ToPhase(t, "clear") /\ UNCHANGED ticketVars

\* ... the ticket first, ...
ReleaseClear(t, i) ==
  /\ phase[t] = "clear"
  /\ ticket' = [ticket EXCEPT ![i] = 0]
  /\ ToPhase(t, "forget") /\ UNCHANGED <<ticketId, live, ticketsLeft, err>>

\* ... then its id, which ends the release, as does a ticket that is None.
ReleaseEnd(t, i) ==
  /\ \/ phase[t] = "free" /\ ticket[i] = 0 /\ UNCHANGED ticketId
     \/ phase[t] = "forget" /\ ticketId' = [ticketId EXCEPT ![i] = 0]
  /\ ToPhase(t, "free") /\ UNCHANGED <<ticket, live, ticketsLeft>>

\* _release_pending_accept_tickets: every server, whatever fails; then the accept ends,
\* in a close when something did.
AcceptRelease(t) ==
  LET i == index[t]
  IN /\ pc[t] = "expire"
     /\ \/ (ReleaseFree(t, i) \/ ReleaseClear(t, i)) /\ UNCHANGED <<handleIds, acceptLock, held, pc, index>>
        \/ /\ ReleaseEnd(t, i)
           /\ handleIds' = [handleIds EXCEPT ![i] = 0]
           /\ \/ i < Last /\ Goto(t, "expire", i + 1) /\ UNCHANGED <<err, acceptLock, held>>
              \/ i = Last /\ err[t] /\ Fail(t)
                 /\ err' = [err EXCEPT ![t] = FALSE] /\ UNCHANGED acceptLock
              \/ i = Last /\ ~err[t] /\ Leave(t)
     /\ UNCHANGED <<policyVars, closed, nextId, sessionVars, serverClosed, begun, open,
                    snapshot, sessionsLeft, unknown, joined>>

-----------------------------------------------------------------------------
(* The application receives on its sessions, with a deadline, on threads of its own:
   next_event and receive_submit hold the poll lock while they wait. *)

ReceiveBegin(s) ==
  /\ s \in {sessions[m] : m \in DOMAIN sessions} \ (sessionClosed \cup polling)
  /\ polling' = polling \cup {s}

ReceiveEnd(s) == s \in polling /\ polling' = polling \ {s}

Receive(s) ==
  /\ ReceiveBegin(s) \/ ReceiveEnd(s)
  /\ UNCHANGED <<policyVars, closed, acceptLock, idVars, sessions, sessionClosed, ticketVars, held,
                 serverClosed, nativeVars, threadVars, leftVars, joined>>

-----------------------------------------------------------------------------
(* close *)

\* Mutant of MayClose: close waits for the accept lock.
MayClose_Locked(t) == acceptLock = NoThread

\* close does not take the accept lock.
MayClose(t) == TRUE

\* close is called, or an accept that failed calls it and drops what it raises.
Close(t) ==
  /\ pc[t] = "failed" \/ (pc[t] = "idle" /\ t \in Closers /\ ~closed)
  /\ MayClose(t)
  /\ \/ closed /\ Leave(t)
     \/ /\ ~closed /\ UNCHANGED <<err, acceptLock, held>>
        /\ IF sessions = <<>> THEN Goto(t, "servers", Last) ELSE Goto(t, "sessions", Len(sessions))
  /\ UNCHANGED <<policyVars, closed, idVars, sessionVars, ticketVars, serverClosed,
                 nativeVars, phase, snapshot, leftVars, joined>>

\* Mutant of AfterSession: a session that cannot be closed ends the loop.
AfterSession_Stops(t, k, error) == IF error \/ k = 1 THEN Goto(t, "servers", Last) ELSE Goto(t, "sessions", k - 1)

\* The sessions go on to be closed whatever happens to one of them, then the servers.
AfterSession(t, k, error) == IF k = 1 THEN Goto(t, "servers", Last) ELSE Goto(t, "sessions", k - 1)

\* The sessions there were when close began, from the newest: each is closed once its
\* poll lock is free.
CloseSession(t) ==
  LET k == index[t]
      s == sessions[k]
  IN /\ pc[t] = "sessions"
     /\ \/ /\ s \in sessionClosed /\ AfterSession(t, k, FALSE)
           /\ UNCHANGED <<open, sessionClosed, sessionsLeft>>
        \/ /\ s \notin sessionClosed /\ s \notin polling /\ AfterSession(t, k, FALSE)
           /\ open' = open \ {s} /\ sessionClosed' = sessionClosed \cup {s} /\ UNCHANGED sessionsLeft
        \/ /\ s \notin sessionClosed /\ s \notin polling /\ AfterSession(t, k, TRUE)
           /\ sessionsLeft' = sessionsLeft \cup {s} /\ UNCHANGED <<open, sessionClosed>>
     /\ UNCHANGED <<policyVars, closed, acceptLock, idVars, sessions, polling, ticketVars, held, serverClosed,
                    begun, live, phase, err, snapshot, ticketsLeft, unknown, joined>>

\* The servers, from the last; one that is closed is skipped.  NativeRuntimeServer.close
\* begins with the policy dispatcher, where a second close returns at once.
CloseServer(t) ==
  LET i == index[t]
  IN /\ pc[t] = "servers" /\ i > 0
     /\ \/ serverClosed[i] /\ Goto(t, "servers", i - 1) /\ UNCHANGED <<policyVars, snapshot>>
        \/ /\ ~serverClosed[i] /\ dispatcherClosed[i]
           /\ Goto(t, "release", i) /\ UNCHANGED <<policyVars, snapshot>>
        \/ /\ ~serverClosed[i] /\ ~dispatcherClosed[i]
           /\ DispatcherMark(i) /\ snapshot' = [snapshot EXCEPT ![t] = futures[i]]
           /\ Goto(t, "join", i)
     /\ UNCHANGED <<closed, acceptLock, idVars, sessionVars, ticketVars, held, serverClosed,
                    nativeVars, phase, err, leftVars, joined>>

\* The workers have answered every request; an error of one of them is raised later.
CloseJoin(t) ==
  LET i == index[t]
      error == FinalError(i, snapshot[t])
  IN /\ pc[t] = "join" /\ WorkersIdle(i)
     /\ joined' = [joined EXCEPT ![i] = IF error THEN "error" ELSE "clean"]
     /\ snapshot' = [snapshot EXCEPT ![t] = {}]
     /\ Goto(t, "release", i)
     /\ UNCHANGED <<policyVars, closed, acceptLock, idVars, sessionVars, ticketVars, held,
                    serverClosed, nativeVars, phase, err, leftVars>>

CloseRelease(t) ==
  LET i == index[t]
  IN /\ pc[t] = "release"
     /\ \/ (ReleaseFree(t, i) \/ ReleaseClear(t, i)) /\ UNCHANGED <<pc, index>>
        \/ ReleaseEnd(t, i) /\ Goto(t, "connection", i) /\ UNCHANGED err
     /\ UNCHANGED <<policyVars, closed, acceptLock, idVars, sessionVars, held, serverClosed, begun, open,
                    snapshot, sessionsLeft, unknown, joined>>

\* The native server is closed, or refuses to; the flag is set in either case.
CloseConnection(t) ==
  LET i == index[t]
  IN /\ pc[t] = "connection"
     /\ serverClosed' = [serverClosed EXCEPT ![i] = TRUE]
     /\ Goto(t, "servers", i - 1)
     /\ UNCHANGED <<policyVars, closed, acceptLock, idVars, sessionVars, ticketVars, held,
                    nativeVars, phase, err, snapshot, leftVars, joined>>

\* Everything has been closed, or has failed to be; what failed first is raised.
CloseReturn(t) ==
  /\ pc[t] = "servers" /\ index[t] = 0
  /\ closed' = TRUE /\ Leave(t)
  /\ UNCHANGED <<policyVars, idVars, sessionVars, ticketVars, serverClosed,
                 nativeVars, phase, snapshot, leftVars, joined>>

-----------------------------------------------------------------------------
AcceptStep(t) ==
  \/ AcceptTry(t) \/ AcceptCheck(t) \/ AcceptStore(t) \/ AcceptKeep(t) \/ AcceptWait(t) \/ AcceptClaim(t)
  \/ AcceptReturn(t) \/ AcceptAgain(t) \/ AcceptExpire(t) \/ AcceptRelease(t)

CloseStep(t) ==
  \/ CloseSession(t) \/ CloseServer(t) \/ CloseJoin(t)
  \/ CloseRelease(t) \/ CloseConnection(t) \/ CloseReturn(t)

\* A step inside a call.
CallStep(t) == AcceptStep(t) \/ (pc[t] = "failed" /\ Close(t)) \/ CloseStep(t)

Policy ==
  /\ \E r \in Requests : PolicyBegin(r) \/ PolicyStep(r)
  /\ UNCHANGED serverVars

Next ==
  \/ \E t \in Acceptors : Accept(t) \/ AcceptStep(t)
  \/ \E t \in Threads : Close(t) \/ CloseStep(t)
  \/ \E s \in Polled : Receive(s)
  \/ Policy

\* A thread inside a call goes on; a poll lock that is free again and again goes to a close
\* that waits; a receive has a deadline; the policy workers and the native thread that
\* registers a callback go on; the deadline of an accept passes.
Fairness ==
  /\ \A t \in Acceptors : SF_vars(AcceptExpire(t))
  /\ \A t \in Threads : WF_vars(CallStep(t))
  /\ SF_vars(\E t \in Threads : CloseSession(t))
  /\ \A s \in Polled : WF_vars(s \in polling /\ Receive(s))
  /\ \A r \in Requests : WF_vars(PolicyStep(r) /\ UNCHANGED serverVars)

Spec == Init /\ [][Next]_vars /\ Fairness

-----------------------------------------------------------------------------
TypeOK ==
  /\ PolicyTypeOK
  /\ closed \in BOOLEAN /\ acceptLock \in Threads \cup {NoThread}
  /\ handleIds \in [Servers -> Ids \cup {0}] /\ nextId \in 1..(MaxIds + 1)
  /\ ticket \in [Servers -> Tickets \cup {0}] /\ ticketId \in [Servers -> Ids \cup {0}]
  /\ held \in Tickets \cup {0}
  /\ sessions \in Seq(Ids) /\ sessionClosed \subseteq Ids /\ polling \subseteq Ids
  /\ serverClosed \in [Servers -> BOOLEAN]
  /\ begun \in Seq(Ids) /\ Len(begun) <= MaxTickets
  /\ live \subseteq DOMAIN begun /\ open \subseteq Ids
  /\ ticketsLeft \subseteq Tickets /\ sessionsLeft \subseteq Ids /\ unknown \subseteq Ids
  /\ pc \in [Threads -> Closing \cup {"idle", "failed"} \cup Accepting]
  /\ index \in [Threads -> Nat]
  /\ \A t \in Threads :
       /\ pc[t] = "sessions" => index[t] \in DOMAIN sessions
       /\ pc[t] = "servers" => index[t] \in 0..Last
       /\ pc[t] \notin {"idle", "sessions", "servers"} => index[t] \in Servers
       /\ pc[t] \notin {"expire", "release"} => phase[t] = "free"
  /\ phase \in [Threads -> {"free", "clear", "forget"}]
  /\ err \in [Threads -> BOOLEAN]
  /\ snapshot \in [Threads -> SUBSET Requests]
  /\ joined \in [Servers -> {"no", "clean", "error"}]

(* A native ticket is only waited on and claimed with the session handle id it was begun
   with: NativeServer and NativeRuntimeServer keep the id apart, from one poll to the next
   and from one accept to the next, and agree on it through time-outs, failures and a close
   that clears ticket and id one after the other.  The comparison of the two, which raises
   "pending native server accept ticket requires the original session handle id", fails
   only beside or after a close, never on its own.  The types of the state are checked
   with it. *)
TicketKeepsId ==
  /\ TypeOK
  /\ \A t \in Threads :
       /\ pc[t] \in {"check", "wait", "claim"} => held # 0 /\ begun[held] = handleIds[index[t]]
       /\ pc[t] = "check" /\ ~CloseRuns => ticketId[index[t]] = handleIds[index[t]]

(* What a closed server leaves behind once nobody is in a call.  A native ticket is only
   left open when the native runtime refused to release it, or when an accept stored it
   while or after a close ran.  A native session is only left open when the runtime refused
   to close it, when an accept that ran beside the close has handed it to the application,
   or when it was claimed on a transport Python has no name for: then nobody has it and
   nobody will close it.  The errors of some sessions, servers and policies do not keep the
   rest from being closed. *)
ClosedLeavesNothing ==
  closed /\ (\A t \in Threads : pc[t] = "idle") =>
    /\ live \subseteq ticketsLeft
    /\ open \subseteq unknown \cup (sessionsLeft \cap {sessions[m] : m \in DOMAIN sessions})
    /\ \A i \in Servers : serverClosed[i]

(* The close of a policy dispatcher waits for every request it ever took and raises
   when one of the answers was not taken by the native runtime: also when that request
   is counted but its callback is not registered yet. *)
PolicyErrorsRaised ==
  \A i \in Servers : joined[i] # "no" =>
    \A r \in Requests : r.server = i /\ worker[r] # "none" => Done(r) /\ (worker[r] = "error" => joined[i] = "error")

(* accept and close come back, also the close an accept makes while it holds the
   accept lock, and beside each other: close waits for the poll locks of the sessions, so
   this holds where every receive has a deadline. *)
CallsReturn == \A t \in Threads : pc[t] # "idle" ~> pc[t] = "idle"
=============================================================================
