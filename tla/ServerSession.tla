--------------------------- MODULE ServerSession ---------------------------
(***************************************************************************)
(* NativeRuntimeServerSession of src/nnrp/native.py: the receiving side of *)
(* one accepted session.  next_event and receive_submit run on executor    *)
(* threads and keep _poll_lock for as long as they wait; poll_events and   *)
(* poll_runtime_frames hold it for one native call.  close needs the lock  *)
(* too.  A submit is bound in _operation_frames when it is converted, and  *)
(* stays bound until its terminal reply or the end of the session.         *)
(***************************************************************************)
EXTENDS EventQueues

CONSTANTS
  Threads,        \* executor threads that call into one session
  Ops,            \* operation ids the peer submits, each once
  Calls,          \* the receiving calls the application makes
  EventKinds,     \* the kinds of events the peer produces
  BatchSize,      \* 64 in receive_submit and poll_runtime_frames
  MaxEvents,      \* bound: events the native runtime emits
  MaxCalls,       \* bound: receiving calls made by all threads together
  Faulty,         \* whether a native poll may fail while the session is open
  NoThread, NoOp

GoodKinds == {"submit", "runtime", "lifecycle", "session_close"}
\* Rejected by _native_event_from_ffi, and rejected when the decoded event is
\* converted by _server_event_from_polled.
BadKinds  == {"malformed", "bad_lifecycle"}
Fns       == {"next", "receive_submit", "poll", "frames"}

ASSUME ThreadsAssumption == NoThread \notin Threads
ASSUME OpsAssumption     == NoOp \notin Ops
ASSUME BoundAssumption   ==
  /\ {MaxEvents, MaxCalls} \subseteq Nat
  /\ BatchSize \in Nat \ {0}
  /\ Faulty \in BOOLEAN
ASSUME KindsAssumption   == EventKinds \subseteq GoodKinds \cup BadKinds

\* timed: the call has a deadline (for poll and frames, always).
Call == [fn : Fns, max : Nat \ {0}, timed : BOOLEAN]
ASSUME CallsAssumption ==
  /\ Calls \subseteq Call
  /\ \A c \in Calls : c.fn \in {"poll", "frames"} => c.timed

VARIABLES
  closed,        \* _closed
  pollLock,      \* the thread that holds _poll_lock
  pendingEvents, \* _pending_events
  bound,         \* the keys of _operation_frames
  native,        \* the native runtime's event queue for this session
  pc, call, acc, \* per thread: where it is, its call, what it collected
  calls,         \* calls begun so far
  seen,          \* history: per thread, the events returned to it
  lost,          \* history: ids consumed by a call that raised
  log,           \* history: every event the native runtime emitted
  replied        \* history: operations whose terminal reply succeeded

vars == <<closed, pollLock, pendingEvents, bound, native, pc, call, acc, calls,
          seen, lost, log, replied>>

Event  == [id : 1..MaxEvents, kind : EventKinds, op : Ops \cup {NoOp}]
NoCall == [fn |-> "poll", max |-> 1, timed |-> TRUE]

\* The calls that loop, lock in hand, until they have what they wait for.
Waits(c) == c.fn \in {"next", "receive_submit"}

Wanted(c, e) ==
  CASE c.fn = "receive_submit" -> e.kind = "submit"
    [] c.fn = "frames"         -> e.kind \in {"runtime", "session_close"}
    [] OTHER                   -> TRUE

Room(c, n) == IF Waits(c) THEN 1 ELSE c.max - n

NativeLimit(c, n) ==
  CASE c.fn = "next"           -> 1
    [] c.fn = "receive_submit" -> BatchSize
    [] c.fn = "frames"         -> IF Room(c, n) > BatchSize THEN Room(c, n) ELSE BatchSize
    [] OTHER                   -> Room(c, n)

TakeIdx(s, c, n)  == FirstOf({i \in DOMAIN s : Wanted(c, s[i])}, Room(c, n))
Taken(s, c, n)    == At(s, TakeIdx(s, c, n))
\* Mutant of Retained: taken events stay.
Retained_All(s, c, n) == s
Retained(s, c, n) == At(s, DOMAIN s \ TakeIdx(s, c, n))

\* Mutant of BindAfter: a batch replaces the bindings.
BindAfter_Replaces(batch) ==
  {batch[i].op : i \in {i \in DOMAIN batch : batch[i].kind = "submit"}}

(* _server_event_from_polled over a batch: every submit is bound, SESSION_CLOSE
   clears the bindings, and nothing else releases one. *)
BindAfter(batch) ==
  LET closes == {i \in DOMAIN batch : batch[i].kind = "session_close"}
  IN {o \in bound : closes = {}}
     \cup {batch[i].op : i \in {i \in DOMAIN batch :
             batch[i].kind = "submit" /\ \A j \in closes : j < i}}

Decodable(batch) == \A i \in DOMAIN batch : batch[i].kind \notin BadKinds

\* The events of a batch with a bad one that are converted before it raises.
ConvertedBefore(batch) ==
  LET malformed == {i \in DOMAIN batch : batch[i].kind = "malformed"}
      bad       == {i \in DOMAIN batch : batch[i].kind \in BadKinds}
  IN IF malformed # {} THEN <<>>
     ELSE SubSeq(batch, 1, (CHOOSE i \in bad : \A j \in bad : i <= j) - 1)

-----------------------------------------------------------------------------
Init ==
  /\ closed = FALSE
  /\ pollLock = NoThread
  /\ pendingEvents = <<>>
  /\ bound = {}
  /\ native = <<>>
  /\ pc = [t \in Threads |-> "idle"]
  /\ call = [t \in Threads |-> NoCall]
  /\ acc = [t \in Threads |-> <<>>]
  /\ calls = 0
  /\ seen = [t \in Threads |-> <<>>]
  /\ lost = {}
  /\ log = <<>>
  /\ replied = {}

\* Mutant of Finish: the lock is released only when there is something to return.
Finish_KeepsLock(t, returns, loses) ==
  /\ pc' = [pc EXCEPT ![t] = "idle"]
  /\ call' = [call EXCEPT ![t] = NoCall]
  /\ acc' = [acc EXCEPT ![t] = <<>>]
  /\ pollLock' = IF returns = <<>> THEN pollLock ELSE NoThread
  /\ seen' = [seen EXCEPT ![t] = @ \o returns]
  /\ lost' = lost \cup loses

Finish(t, returns, loses) ==
  /\ pc' = [pc EXCEPT ![t] = "idle"]
  /\ call' = [call EXCEPT ![t] = NoCall]
  /\ acc' = [acc EXCEPT ![t] = <<>>]
  /\ pollLock' = NoThread
  /\ seen' = [seen EXCEPT ![t] = @ \o returns]
  /\ lost' = lost \cup loses

\* The checks before the lock; poll_runtime_frames has no _ensure_open.
Begin(t, c) ==
  /\ pc[t] = "idle"
  /\ calls < MaxCalls
  /\ c.fn = "frames" \/ ~closed
  /\ pc' = [pc EXCEPT ![t] = "lock"]
  /\ call' = [call EXCEPT ![t] = c]
  /\ calls' = calls + 1
  /\ UNCHANGED <<closed, pollLock, pendingEvents, bound, native, acc, seen, lost, log, replied>>

\* Take what _pending_events has; call into the native runtime for the rest.
Take(t) ==
  LET c    == call[t]
      took == Taken(pendingEvents, c, 0)
  IN /\ pc[t] = "lock"
     /\ pollLock = NoThread
     /\ pendingEvents' = Retained(pendingEvents, c, 0)
     /\ IF Len(took) = Room(c, 0)
          THEN Finish(t, took, {})
          ELSE /\ pc' = [pc EXCEPT ![t] = "native"]
               /\ acc' = [acc EXCEPT ![t] = took]
               /\ pollLock' = t
               /\ UNCHANGED <<call, seen, lost>>
     /\ UNCHANGED <<closed, bound, native, calls, log, replied>>

\* The native call returns n events to a waiting call: they all go to
\* _pending_events, and the call takes from there or waits on.
WaitReturn(t) ==
  \E n \in 0..Len(native) :
    LET c     == call[t]
        batch == SubSeq(native, 1, n)
        queue == pendingEvents \o batch
        took  == Taken(queue, c, 0)
    IN /\ pc[t] = "native"
       /\ ~closed
       /\ Waits(c)
       /\ n <= NativeLimit(c, 0)
       /\ Decodable(batch)
       /\ native' = SubSeq(native, n + 1, Len(native))
       /\ bound' = BindAfter(batch)
       /\ IF took # <<>>
            THEN pendingEvents' = Retained(queue, c, 0) /\ Finish(t, took, {})
            ELSE pendingEvents' = queue /\ UNCHANGED <<pc, call, acc, pollLock, seen, lost>>
       /\ UNCHANGED <<closed, calls, log, replied>>

\* Mutant of WaitExpire: a timeout clears _pending_events.
WaitExpire_Clears(t) ==
  /\ pc[t] = "native"
  /\ Waits(call[t])
  /\ call[t].timed
  /\ pendingEvents' = <<>>
  /\ Finish(t, <<>>, Ids(pendingEvents))
  /\ UNCHANGED <<closed, bound, native, calls, log, replied>>

\* _raise_if_event_deadline_expired.
WaitExpire(t) ==
  /\ pc[t] = "native"
  /\ Waits(call[t])
  /\ call[t].timed
  /\ Finish(t, <<>>, {})
  /\ UNCHANGED <<closed, pendingEvents, bound, native, calls, log, replied>>

\* The native call returns n events to poll_events or poll_runtime_frames.
PollReturn(t) ==
  \E n \in 0..Len(native) :
    LET c     == call[t]
        batch == SubSeq(native, 1, n)
    IN /\ pc[t] = "native"
       /\ ~closed
       /\ ~Waits(c)
       /\ n <= NativeLimit(c, Len(acc[t]))
       /\ Decodable(batch)
       /\ native' = SubSeq(native, n + 1, Len(native))
       /\ bound' = BindAfter(batch)
       /\ pendingEvents' = pendingEvents \o Retained(batch, c, Len(acc[t]))
       /\ Finish(t, acc[t] \o Taken(batch, c, Len(acc[t])), {})
       /\ UNCHANGED <<closed, calls, log, replied>>

\* The native call fails, always so after close.
Fail(t) ==
  /\ pc[t] = "native"
  /\ closed \/ Faulty
  /\ Finish(t, <<>>, Ids(acc[t]))
  /\ UNCHANGED <<closed, pendingEvents, bound, native, calls, log, replied>>

\* A batch with a bad event raises and is gone, but submits converted before
\* the bad event are already bound.
DecodeFail(t) ==
  \E n \in 1..Len(native) :
    LET batch == SubSeq(native, 1, n)
    IN /\ pc[t] = "native"
       /\ ~closed
       /\ n <= NativeLimit(call[t], Len(acc[t]))
       /\ ~Decodable(batch)
       /\ native' = SubSeq(native, n + 1, Len(native))
       /\ bound' = BindAfter(ConvertedBefore(batch))
       /\ Finish(t, <<>>, Ids(acc[t]) \cup Ids(batch))
       /\ UNCHANGED <<closed, pendingEvents, calls, log, replied>>

\* close: wait for the lock, then close natively and drop every binding.
CloseBegin(t) ==
  /\ pc[t] = "idle"
  /\ ~closed
  /\ pc' = [pc EXCEPT ![t] = "closing"]
  /\ UNCHANGED <<closed, pollLock, pendingEvents, bound, native, call, acc, calls, seen, lost, log, replied>>

CloseLocked(t) ==
  /\ pc[t] = "closing"
  /\ pollLock = NoThread
  /\ closed' = TRUE
  /\ bound' = IF closed THEN bound ELSE {}
  /\ pc' = [pc EXCEPT ![t] = "idle"]
  /\ UNCHANGED <<pollLock, pendingEvents, native, call, acc, calls, seen, lost, log, replied>>

\* The application's terminal reply to an operation it received succeeds
\* (module ServerReplies) and the session forgets the operation.
Received == {e \in UNION {{seen[t][i] : i \in DOMAIN seen[t]} : t \in Threads} : e.kind = "submit"}

ReplyCompleted(o) ==
  /\ \E e \in Received : e.op = o
  /\ o \notin replied
  /\ ~closed
  /\ replied' = replied \cup {o}
  /\ bound' = bound \ {o}
  /\ UNCHANGED <<closed, pollLock, pendingEvents, native, pc, call, acc, calls, seen, lost, log>>

\* The native runtime queues an event; each operation is submitted once, and
\* nothing follows the peer's SESSION_CLOSE.
NativeEmit(k, o) ==
  /\ Len(log) < MaxEvents
  /\ ~closed
  /\ \A i \in DOMAIN log : log[i].kind # "session_close"
  /\ (o # NoOp) <=> (k = "submit")
  /\ k = "submit" => \A i \in DOMAIN log : log[i].op # o
  /\ LET e == [id |-> Len(log) + 1, kind |-> k, op |-> o]
     IN native' = Append(native, e) /\ log' = Append(log, e)
  /\ UNCHANGED <<closed, pollLock, pendingEvents, bound, pc, call, acc, calls, seen, lost, replied>>

CallStep(t) ==
  \/ Take(t)
  \/ WaitReturn(t)
  \/ WaitExpire(t)
  \/ PollReturn(t)
  \/ Fail(t)
  \/ DecodeFail(t)

Next ==
  \/ \E t \in Threads :
       \/ \E c \in Calls : Begin(t, c)
       \/ CallStep(t)
       \/ CloseBegin(t)
       \/ CloseLocked(t)
  \/ \E o \in Ops : ReplyCompleted(o)
  \/ \E k \in EventKinds, o \in Ops \cup {NoOp} : NativeEmit(k, o)

Spec == Init /\ [][Next]_vars

(* Threads are scheduled: a thread that can go on does; a deadline that a
   waiting call has does expire.  Nothing is assumed of the peer, of the
   application, or of the order in which threads get the lock. *)
Fairness ==
  /\ \A t \in Threads : WF_vars(Take(t))
  /\ \A t \in Threads : WF_vars(WaitExpire(t))
  /\ \A t \in Threads : WF_vars(PollReturn(t) \/ Fail(t) \/ DecodeFail(t))
  /\ \A t \in Threads : WF_vars(CloseLocked(t))

FairSpec == Spec /\ Fairness

-----------------------------------------------------------------------------
TypeOK ==
  /\ closed \in BOOLEAN
  /\ pollLock \in Threads \cup {NoThread}
  /\ pendingEvents \in Seq(Event)
  /\ bound \subseteq Ops
  /\ native \in Seq(Event)
  /\ pc \in [Threads -> {"idle", "lock", "native", "closing"}]
  /\ call \in [Threads -> Call]
  /\ acc \in [Threads -> Seq(Event)]
  /\ calls \in 0..MaxCalls
  /\ seen \in [Threads -> Seq(Event)]
  /\ lost \subseteq 1..MaxEvents
  /\ log \in Seq(Event)
  /\ replied \subseteq Ops

(* Two receivers never get the same event, and every event the peer sent is in
   exactly one place: queued, retained, in one call's hands, returned once, or
   consumed by a call that raised. *)
EventConservation ==
  \A i \in 1..Len(log) :
    Cardinality(Placed(NoThread, "native", Copies(native, i))
      \cup Placed(NoThread, "pending", Copies(pendingEvents, i))
      \cup PlacedAll(Threads, "acc", acc, i)
      \cup PlacedAll(Threads, "seen", seen, i)
      \cup Placed(NoThread, "lost", lost \cap {i})) = 1

(* "Retain every skipped non-submit event in its original session order": the
   retained events are in arrival order, all older than what is still to come. *)
RetainedInOrder ==
  LET s == pendingEvents \o native
  IN \A j, k \in DOMAIN s : j < k => s[j].id < s[k].id

(* What receiving promises, with the types of the state: every event is kept
   once, and what next_event, receive_submit and the polls retain for each other
   stays in order. *)
EventsOnceInOrder == TypeOK /\ EventConservation /\ RetainedInOrder

(* "Raise timeout or native errors without acknowledging or dropping retained
   events": whatever earlier calls retained, a step of next_event or
   receive_submit, one that raises included, removes no more of it than the one
   event it returns. *)
WaitKeepsRetained ==
  [][\A t \in Threads : pc[t] = "native" /\ Waits(call[t]) /\ pendingEvents' # pendingEvents =>
       Ids(pendingEvents) \subseteq Ids(pendingEvents') \cup Ids(seen'[t])]_vars

(* "cannot discard an interleaved control event": no event that can be decoded
   is ever lost to a call that raises. *)
NoGoodEventLost == \A i \in lost : log[i].kind \in BadKinds

(* "Release Python operation correlation only after one terminal reply succeeds
   or the session closes": a submit the application received stays bound. *)
AcceptedStaysBound ==
  \A e \in Received :
    \/ e.op \in bound
    \/ e.op \in replied
    \/ closed
    \/ \E i \in DOMAIN log : log[i].kind = "session_close"

(* When every wait has a deadline, close gets the lock and returns although
   receivers hold the lock for the whole of their wait. *)
CloseReturns == \A t \in Threads : pc[t] = "closing" ~> closed
=============================================================================
