--------------------------- MODULE NativeSession ---------------------------
(***************************************************************************)
(* NativeRuntimeSession of src/nnrp/native.py: the client role's session   *)
(* as several Python threads use it.  All receiving goes through one       *)
(* native event source under _poll_lock; events a call does not want are   *)
(* retained in _pending_events; _operation_frames binds each submitted     *)
(* operation to its frame id until there is evidence that it ended.        *)
(*                                                                         *)
(* A call takes the steps between which another thread can run: the checks *)
(* before the lock, the critical section up to the native call, and the    *)
(* return of the native call.  The native runtime (a Rust library behind   *)
(* ctypes) is external: it queues events, answers calls and may fail them. *)
(***************************************************************************)
EXTENDS EventQueues

CONSTANTS
  Threads,    \* threads that call into one session
  Ops,        \* operation ids the application submits, each once
  FrameOf,    \* the frame id each operation is submitted with
  PollCalls,  \* the receiving calls the application makes
  EventKinds, \* the kinds of events the peer produces
  FrameBatch, \* batch size of poll_runtime_frames (64 in the code)
  MaxEvents,  \* bound: events the native runtime emits
  RareKinds,  \* the kinds of events that are seldom,
  MaxRare,    \* bound: how many events are
  Faulty,     \* whether a native poll may fail while the session is open
  NoThread, NoOp

AnyKind == "any"

\* Each kind stands for one way the code classifies an event.  "error" is an ERROR
\* event with a wire header, which ends its operation but is no result.
RuntimeKinds   == {"result_push", "error", "control", "peer_cancel", "session_close"}
\* A stray lifecycle event names no operation: that is an error of its own, raised
\* only where something asks whether the event is a result.
LifecycleKinds == {"lifecycle", "lifecycle_terminal", "stray_lifecycle"}
\* A result, drop or error event without a wire header.
BareKinds      == {"bare_result"}
\* Events that _native_event_from_ffi rejects, and lifecycle events whose state
\* byte _operation_lifecycle_from_native_event rejects when they are observed.
BadKinds       == {"malformed", "bad_lifecycle"}
Fns == {"batch", "await", "drain", "result", "frames", "frames_all"}
\* What becomes of the events a call takes: returned at once, or handed out one
\* by one (dispatch_*, iter_*) by a call that may stop before the last; converted
\* first, by a poll for one type of event (poll_credit_updates and its like, or
\* the dispatch_* and iter_* over them) or by next_event.
Uses == {"return", "each", "typed", "typed_each", "next"}

ASSUME ThreadsAssumption == NoThread \notin Threads
ASSUME OpsAssumption     == NoOp \notin Ops
ASSUME BoundAssumption   ==
  MaxEvents \in Nat /\ MaxRare \in Nat /\ FrameBatch \in Nat \ {0} /\ Faulty \in BOOLEAN
ASSUME KindsAssumption   == EventKinds \subseteq RuntimeKinds \cup LifecycleKinds \cup BareKinds \cup BadKinds

\* Frame id 0 is the session scope, and a frame id names one operation.
ASSUME FrameAssumption ==
  /\ FrameOf \in [Ops -> Nat \ {0}]
  /\ \A o, p \in Ops : FrameOf[o] = FrameOf[p] => o = p

\* event_kind: None, or a u32; FLOW_UPDATED stands for those no event here has.
KindFilters ==
  {AnyKind, "RESULT_PUSHED", "OPERATION_LIFECYCLE", "CONTROL", "RUNTIME_FRAME", "FLOW_UPDATED"}

Call == [fn : Fns, max : Nat, kind : KindFilters, op : Ops \cup {NoOp}, use : Uses]
ASSUME CallsAssumption == PollCalls \subseteq Call

VARIABLES
  closed,          \* _closed
  pollLock,        \* the thread that holds _poll_lock across a native call
  pendingEvents,   \* _pending_events
  operationFrames, \* _operation_frames, 0 where the dict has no entry
  native,          \* the native runtime's event queue for this session
  nativeOp,        \* what the native runtime knows of an operation
  pc, call, acc,   \* per thread: where it is, its call, what it collected
  seen,            \* history: per thread, the events returned to it
  discarded,       \* history: ids a filtered drain or a typed poll threw away
  lost,            \* history: ids consumed by a call that raised
  log,             \* history: every event the native runtime emitted
  returned,        \* history: operations whose submit returned
  cancelled        \* history: operations a cancel, abort or supersede was sent for

vars == <<closed, pollLock, pendingEvents, operationFrames, native, nativeOp,
          pc, call, acc, seen, discarded, lost, log, returned, cancelled>>
threadVars  == <<pc, call, acc>>
queueVars   == <<pollLock, pendingEvents, native, seen, discarded, lost>>
bindingVars == <<operationFrames, returned, cancelled>>

Event == [id : 1..MaxEvents, kind : EventKinds, op : Ops \cup {NoOp}]
NoCall == [fn |-> "batch", max |-> 0, kind |-> AnyKind, op |-> NoOp, use |-> "return"]

-----------------------------------------------------------------------------
(* How the code classifies an event. *)

\* isinstance(event, NativeRuntimeEvent): the event has a wire header.
IsRuntimeEvent(e) == e.kind \in RuntimeKinds

\* _native_event_kind: the code the event_kind filter compares.
NativeEventKind(e) ==
  CASE e.kind \in {"result_push", "bare_result"} -> "RESULT_PUSHED"
    [] e.kind = "error"                      -> "ERROR"
    [] e.kind \in LifecycleKinds             -> "OPERATION_LIFECYCLE"
    [] e.kind \in {"control", "peer_cancel"} -> "CONTROL"
    [] OTHER                                 -> "RUNTIME_FRAME"

\* _event_is_result_event, where it does not raise.
IsResultEvent(e) == e.kind \in {"result_push", "bare_result", "error", "lifecycle_terminal"}

EventMatchesOperation(e, o) == e.op = o

\* Mutants of Releases: any event about an operation releases it; a terminal
\* lifecycle event does not.
Releases_Eager(e) == IF e.kind = "session_close" THEN Ops ELSE {e.op} \ {NoOp}
Releases_ResultOnly(e) ==
  CASE e.kind = "session_close"                  -> Ops
    [] e.kind \in {"result_push", "peer_cancel"} -> {e.op} \ {NoOp}
    [] OTHER                                     -> {}

\* The operations that _observe_polled_event unbinds for an event.
Releases(e) ==
  CASE e.kind = "session_close" -> Ops
    [] IsResultEvent(e) \/ e.kind = "peer_cancel" -> {e.op} \ {NoOp}
    [] OTHER -> {}

Forget(frames, released) == [o \in Ops |-> IF o \in released THEN 0 ELSE frames[o]]

ObservePolledEvents(batch) ==
  Forget(operationFrames, UNION {Releases(batch[i]) : i \in DOMAIN batch})

-----------------------------------------------------------------------------
(* What a receiving call takes. *)

Wanted(c, e) ==
  CASE c.fn \in {"frames", "frames_all"} -> IsRuntimeEvent(e)
    [] c.fn = "result" -> IsResultEvent(e) /\ EventMatchesOperation(e, c.op)
    [] c.fn = "drain"  -> TRUE
    [] OTHER           -> c.kind \in {AnyKind, NativeEventKind(e)}

\* How many more events the call may take when it holds n.
Room(c, n) ==
  CASE c.fn \in {"result", "drain"} -> 1
    [] c.fn = "frames_all"          -> MaxEvents
    [] OTHER                        -> c.max - n

\* The max_events passed to the native call when n are held.
NativeLimit(c, n) ==
  CASE c.fn = "result" -> c.max
    [] c.fn = "frames_all" -> FrameBatch
    [] c.fn = "frames" -> IF Room(c, n) > FrameBatch THEN Room(c, n) ELSE FrameBatch
    [] OTHER -> Room(c, n)

\* Mutant of TakeIdx: the newest wanted events first.
TakeIdx_Newest(s, c, n) ==
  LET W == {i \in DOMAIN s : Wanted(c, s[i])}
  IN {i \in W : Cardinality({j \in W : j >= i}) <= Room(c, n)}

\* The indices of s that the call takes, and the two halves of the split.
TakeIdx(s, c, n)  == FirstOf({i \in DOMAIN s : Wanted(c, s[i])}, Room(c, n))
Taken(s, c, n)    == At(s, TakeIdx(s, c, n))
Retained(s, c, n) == At(s, DOMAIN s \ TakeIdx(s, c, n))

\* poll_events without a limit takes every event and keeps the wanted kind.
Filtered(c, s) ==
  At(s, {i \in DOMAIN s : c.fn = "drain" => c.kind \in {AnyKind, NativeEventKind(s[i])}})

\* events.extend / the list a call builds up over its rounds.
Collect(held, more) == held \o more

\* Where a poll_result raises over the events of s: _event_is_result_event, asked
\* until the result was found, rejects a stray lifecycle event, and
\* NativeRuntimeResult._from_polled_event the result if it is an error event.
Unfit(c, s) ==
  LET W == {i \in DOMAIN s : Wanted(c, s[i])}
  IN {i \in DOMAIN s :
        /\ c.fn = "result"
        /\ \A j \in W : j >= i
        /\ s[i].kind = "stray_lifecycle" \/ (i \in W /\ s[i].kind = "error")}

\* Where a call raises over a native batch: the events that cannot be decoded or
\* observed, for every call, and those.
Bad(c, batch) == {i \in DOMAIN batch : batch[i].kind \in BadKinds} \cup Unfit(c, batch)

\* Whether the call is satisfied by what it took from _pending_events.
Satisfied(c, took, held) ==
  CASE c.fn = "result"     -> took > 0 \/ c.max = 0
    [] c.fn = "drain"      -> took > 0
    [] c.fn = "frames_all" -> FALSE
    [] OTHER               -> held = c.max

-----------------------------------------------------------------------------
Init ==
  /\ closed = FALSE
  /\ pollLock = NoThread
  /\ pendingEvents = <<>>
  /\ operationFrames = [o \in Ops |-> 0]
  /\ native = <<>>
  /\ nativeOp = [o \in Ops |-> "new"]
  /\ pc = [t \in Threads |-> "idle"]
  /\ call = [t \in Threads |-> NoCall]
  /\ acc = [t \in Threads |-> <<>>]
  /\ seen = [t \in Threads |-> <<>>]
  /\ discarded = {}
  /\ lost = {}
  /\ log = <<>>
  /\ returned = {}
  /\ cancelled = {}

Goto(t, to) == pc' = [pc EXCEPT ![t] = to]

\* The call returns the events in s to its caller.
Return(t, s) ==
  /\ Goto(t, "idle")
  /\ call' = [call EXCEPT ![t] = NoCall]
  /\ acc' = [acc EXCEPT ![t] = <<>>]
  /\ seen' = [seen EXCEPT ![t] = @ \o s]

\* The poll inside a call is over: its events are the result of the call, or
\* the batch that the call converts or hands out.
Finish(t, s) ==
  IF call[t].use = "return" \/ s = <<>>
    THEN Return(t, s)
    ELSE /\ Goto(t, IF call[t].use = "each" THEN "each" ELSE "convert")
         /\ acc' = [acc EXCEPT ![t] = s]
         /\ UNCHANGED <<call, seen>>

\* The call raises: what it had collected, and gone, is out of reach.
Raise(t, gone) ==
  /\ Goto(t, "idle")
  /\ call' = [call EXCEPT ![t] = NoCall]
  /\ acc' = [acc EXCEPT ![t] = <<>>]
  /\ lost' = lost \cup Ids(acc[t]) \cup gone
  /\ UNCHANGED <<seen, discarded>>

-----------------------------------------------------------------------------
(* Receiving: await_event, poll_events_batch, poll_events, poll_result and  *)
(* poll_runtime_frames.  A call that is refused changes nothing and is not  *)
(* a step.                                                                  *)

\* The checks before the lock; poll_runtime_frames has no _ensure_open.
PollBegin(t, c) ==
  /\ pc[t] = "idle"
  /\ c.fn \in {"frames", "frames_all"} \/ ~closed
  /\ c.fn = "result" => c.op \in returned
  /\ Goto(t, "lock")
  /\ call' = [call EXCEPT ![t] = c]
  /\ UNCHANGED <<closed, nativeOp, acc, log, queueVars, bindingVars>>

\* Under the lock: take from _pending_events, go on to the native call with
\* the lock held unless that is enough.
PollTake(t) ==
  LET c    == call[t]
      took == Taken(pendingEvents, c, Len(acc[t]))
      keep == Collect(acc[t], Filtered(c, took))
      enough == Satisfied(c, Len(took), Len(keep))
  IN /\ pc[t] = "lock"
     /\ pollLock = NoThread
     /\ Unfit(c, pendingEvents) = {}
     /\ pendingEvents' = Retained(pendingEvents, c, Len(acc[t]))
     /\ discarded' = discarded \cup (Ids(took) \ Ids(keep))
     /\ pollLock' = IF enough THEN NoThread ELSE t
     /\ IF enough /\ c.fn # "drain"
          THEN Finish(t, keep)
          ELSE /\ Goto(t, IF enough THEN "again" ELSE "native")
               /\ acc' = [acc EXCEPT ![t] = keep]
               /\ UNCHANGED <<call, seen>>
     /\ UNCHANGED <<closed, native, nativeOp, lost, log, bindingVars>>

\* _take_pending_result raises under the lock.  A stray lifecycle event stays where it
\* is, and every poll_result raises over it until another call takes it; a result
\* that cannot be converted was deleted before the conversion.
PollTakeFail(t) ==
  LET c    == call[t]
      bad  == Unfit(c, pendingEvents)
      gone == {i \in bad : Wanted(c, pendingEvents[i]) /\ \A j \in bad : i <= j}
      rest == At(pendingEvents, DOMAIN pendingEvents \ gone)
  IN /\ pc[t] = "lock"
     /\ pollLock = NoThread
     /\ bad # {}
     /\ pendingEvents' = rest
     /\ Raise(t, Ids(pendingEvents) \ Ids(rest))
     /\ UNCHANGED <<closed, pollLock, native, nativeOp, log, bindingVars>>

\* The native call returns n events (none: WOULD_BLOCK).  They are observed
\* and split; the lock is released unless poll_runtime_frames goes round again.
PollReturn(t) ==
  \E n \in 0..Len(native) :
    LET c     == call[t]
        batch == SubSeq(native, 1, n)
        took  == Taken(batch, c, Len(acc[t]))
        keep  == Collect(acc[t], Filtered(c, took))
        loops == c.fn = "frames_all" /\ n > 0
    IN /\ pc[t] = "native"
       /\ ~closed
       /\ n <= NativeLimit(c, Len(acc[t]))
       /\ Bad(c, batch) = {}
       /\ native' = SubSeq(native, n + 1, Len(native))
       /\ operationFrames' = ObservePolledEvents(batch)
       /\ pendingEvents' = pendingEvents \o Retained(batch, c, Len(acc[t]))
       /\ discarded' = discarded \cup (Ids(took) \ Ids(keep))
       /\ pollLock' = IF loops THEN t ELSE NoThread
       /\ IF loops \/ (c.fn = "drain" /\ n > 0)
            THEN /\ Goto(t, IF loops THEN "native" ELSE "again")
                 /\ acc' = [acc EXCEPT ![t] = keep]
                 /\ UNCHANGED <<call, seen>>
            ELSE Finish(t, keep)
       /\ UNCHANGED <<closed, nativeOp, lost, log, returned, cancelled>>

\* The next round of poll_events without a limit: poll_events_batch checks
\* _ensure_open again, and raises out of the loop when it fails.
PollAgain(t) ==
  /\ pc[t] = "again"
  /\ \/ ~closed /\ Goto(t, "lock") /\ UNCHANGED <<call, acc, seen, discarded, lost>>
     \/ closed /\ Raise(t, {})
  /\ UNCHANGED <<closed, pollLock, pendingEvents, native, nativeOp, log, bindingVars>>

\* raise_for_native_status: the native call fails, always so after close.
PollFail(t) ==
  /\ pc[t] = "native"
  /\ closed \/ Faulty
  /\ pollLock' = NoThread
  /\ Raise(t, {})
  /\ UNCHANGED <<closed, pendingEvents, native, nativeOp, log, bindingVars>>

\* How many events of a batch a call has gone through before one raises, and how many
\* of them are observed.  _poll_native_events_unlocked decodes the whole batch before it
\* observes any; _poll_result_batch observes an event before it asks for the result.
GoneThrough(c, batch) ==
  LET malformed == {i \in DOMAIN batch : batch[i].kind = "malformed"}
  IN IF c.fn # "result" /\ malformed # {} THEN 0
     ELSE (CHOOSE i \in Bad(c, batch) : \A j \in Bad(c, batch) : i <= j) - 1

Observed(c, batch) ==
  LET n == GoneThrough(c, batch)
  IN IF c.fn = "result" /\ batch[n + 1].kind \notin BadKinds THEN n + 1 ELSE n

\* A batch of n holds a bad event, and the call raises.  _poll_result_batch has
\* by then retained what came before it; otherwise the whole batch is gone.
PollDecodeFail(t) ==
  \E n \in 1..Len(native) :
    LET c      == call[t]
        batch  == SubSeq(native, 1, n)
        before == SubSeq(native, 1, GoneThrough(c, batch))
        kept   == IF c.fn = "result" THEN Retained(before, c, Len(acc[t])) ELSE <<>>
    IN /\ pc[t] = "native"
       /\ ~closed
       /\ n <= NativeLimit(c, Len(acc[t]))
       /\ Bad(c, batch) # {}
       /\ native' = SubSeq(native, n + 1, Len(native))
       /\ operationFrames' = ObservePolledEvents(SubSeq(native, 1, Observed(c, batch)))
       /\ pendingEvents' = pendingEvents \o kept
       /\ pollLock' = NoThread
       /\ Raise(t, Ids(batch) \ Ids(kept))
       /\ UNCHANGED <<closed, nativeOp, log, returned, cancelled>>

\* What the conversion of a batch may refuse: a poll for one type any event with a wire
\* header (another kind of metadata, a message type outside the payload family, or a
\* family it does not know), next_event what is no well-formed lifecycle event.
Refusable(c, e) ==
  IF c.use = "next" THEN e.kind \in {"stray_lifecycle"} \cup BareKinds ELSE IsRuntimeEvent(e)

\* The events that were taken are converted, outside the lock.  A poll for one type
\* drops those without a wire header; one that is refused takes all of them with it.
Convert(t) ==
  LET c       == call[t]
      refused == {i \in DOMAIN acc[t] : Refusable(c, acc[t][i])}
      kept    == At(acc[t], {i \in DOMAIN acc[t] : c.use # "next" => IsRuntimeEvent(acc[t][i])})
  IN /\ pc[t] = "convert"
     /\ \/ refused # {} /\ Raise(t, {})
        \/ /\ c.use = "next" => refused = {}
           /\ discarded' = discarded \cup (Ids(acc[t]) \ Ids(kept))
           /\ IF c.use = "typed_each" /\ kept # <<>>
                THEN Goto(t, "each") /\ acc' = [acc EXCEPT ![t] = kept] /\ UNCHANGED <<call, seen>>
                ELSE Return(t, kept)
           /\ UNCHANGED lost
     /\ UNCHANGED <<closed, pollLock, pendingEvents, native, nativeOp, log, bindingVars>>

\* _dispatch_callback_batch calls the callback with one event; the iterators
\* yield one.  A callback that raises, or a consumer that leaves the iteration,
\* ends the call, and the rest of the batch is out of reach.
HandOut(t) ==
  LET rest == Tail(acc[t])
      stop == /\ Goto(t, "idle")
              /\ call' = [call EXCEPT ![t] = NoCall]
              /\ acc' = [acc EXCEPT ![t] = <<>>]
  IN /\ pc[t] = "each"
     /\ seen' = [seen EXCEPT ![t] = Append(@, Head(acc[t]))]
     /\ \/ stop /\ lost' = lost \cup Ids(rest)
        \/ /\ rest # <<>>
           /\ acc' = [acc EXCEPT ![t] = rest]
           /\ UNCHANGED <<pc, call, lost>>
     /\ UNCHANGED <<closed, pollLock, pendingEvents, native, nativeOp, discarded, log, bindingVars>>

-----------------------------------------------------------------------------
(* Operations: submit_operation, cancel, operation-scoped runtime frames    *)
(* and close.                                                               *)

\* The peer closed the session: the native runtime emits nothing more on it
\* and refuses submits.
PeerClosed == \E i \in DOMAIN log : log[i].kind = "session_close"

\* The native submit succeeds; _remember_operation_frame is a later step.
SubmitNative(t, o) ==
  /\ pc[t] = "idle"
  /\ ~closed
  /\ ~PeerClosed
  /\ nativeOp[o] = "new"
  /\ nativeOp' = [nativeOp EXCEPT ![o] = "live"]
  /\ Goto(t, "remember")
  /\ call' = [call EXCEPT ![t] = [NoCall EXCEPT !.op = o]]
  /\ UNCHANGED <<closed, acc, log, queueVars, bindingVars>>

RememberOperationFrame(t) ==
  LET o == call[t].op
  IN /\ pc[t] = "remember"
     /\ operationFrames' = [operationFrames EXCEPT ![o] = FrameOf[o]]
     /\ returned' = returned \cup {o}
     /\ Goto(t, "idle")
     /\ call' = [call EXCEPT ![t] = NoCall]
     /\ UNCHANGED <<closed, nativeOp, acc, log, cancelled, queueVars>>

\* cancel(frame_id=...): the native cancel under the lock, then every
\* operation bound to that frame is forgotten.
Cancel(t, o) ==
  /\ pc[t] = "idle"
  /\ o \in returned
  /\ ~closed
  /\ pollLock = NoThread
  /\ operationFrames' =
       Forget(operationFrames, {p \in Ops : operationFrames[p] = FrameOf[o]})
  /\ cancelled' = cancelled \cup {o}
  /\ UNCHANGED <<closed, nativeOp, log, returned, threadVars, queueVars>>

\* _send_runtime_frame for an operation: look the frame up, send, and for
\* CANCEL, ABORT and SUPERSEDE forget the binding.
ControlLookup(t, o) ==
  /\ pc[t] = "idle"
  /\ ~closed
  /\ operationFrames[o] # 0
  /\ Goto(t, "send")
  /\ call' = [call EXCEPT ![t] = [NoCall EXCEPT !.op = o]]
  /\ UNCHANGED <<closed, nativeOp, acc, log, queueVars, bindingVars>>

ControlSent(t) ==
  LET o == call[t].op
  IN /\ pc[t] = "send"
     /\ \/ UNCHANGED <<operationFrames, cancelled>> \* not a releasing type, or refused
        \/ /\ ~closed
           /\ operationFrames' = Forget(operationFrames, {o})
           /\ cancelled' = cancelled \cup {o}
     /\ Goto(t, "idle")
     /\ call' = [call EXCEPT ![t] = NoCall]
     /\ UNCHANGED <<closed, nativeOp, acc, log, returned, queueVars>>

Close(t) ==
  /\ pc[t] = "idle"
  /\ pollLock = NoThread
  /\ ~closed
  /\ closed' = TRUE
  /\ operationFrames' = [o \in Ops |-> 0]
  /\ UNCHANGED <<nativeOp, log, returned, cancelled, threadVars, queueVars>>

-----------------------------------------------------------------------------
\* What a faulty native runtime emits.
Faults == BadKinds \cup {"stray_lifecycle"}

(* The native runtime emits an event: for an operation it knows, one result *)
(* and one terminal lifecycle event at most, others while it is live.  It   *)
(* queues on a session's handle only that session's events, so the code's   *)
(* comparison of event and session handles always succeeds.                 *)
NativeEmit(k, o) ==
  /\ Len(log) < MaxEvents
  /\ ~closed
  /\ ~PeerClosed
  /\ IF k \in {"session_close"} \cup Faults
       THEN UNCHANGED nativeOp
       ELSE /\ o # NoOp
            /\ \/ k \notin {"result_push", "bare_result", "error", "lifecycle_terminal"}
                  /\ nativeOp[o] = "live" /\ UNCHANGED nativeOp
               \/ k \in {"result_push", "bare_result", "error"}
                  /\ nativeOp[o] = "live" /\ nativeOp' = [nativeOp EXCEPT ![o] = "resulted"]
               \/ k = "lifecycle_terminal"
                  /\ nativeOp[o] \in {"live", "resulted"}
                  /\ nativeOp' = [nativeOp EXCEPT ![o] = "done"]
  /\ k \in {"session_close"} \cup Faults => o = NoOp
  /\ k \in RareKinds => Cardinality({i \in DOMAIN log : log[i].kind \in RareKinds}) < MaxRare
  /\ LET e == [id |-> Len(log) + 1, kind |-> k, op |-> o]
     IN native' = Append(native, e) /\ log' = Append(log, e)
  /\ UNCHANGED <<closed, pollLock, pendingEvents, seen, discarded, lost, threadVars, bindingVars>>

ThreadStep(t) ==
  \/ \E c \in PollCalls : PollBegin(t, c)
  \/ PollTake(t)
  \/ PollTakeFail(t)
  \/ PollReturn(t)
  \/ PollAgain(t)
  \/ PollFail(t)
  \/ PollDecodeFail(t)
  \/ Convert(t)
  \/ HandOut(t)
  \/ \E o \in Ops : SubmitNative(t, o)
  \/ RememberOperationFrame(t)
  \/ \E o \in Ops : Cancel(t, o)
  \/ \E o \in Ops : ControlLookup(t, o)
  \/ ControlSent(t)
  \/ Close(t)

Next ==
  \/ \E t \in Threads : ThreadStep(t)
  \/ \E k \in EventKinds, o \in Ops \cup {NoOp} : NativeEmit(k, o)

Spec == Init /\ [][Next]_vars

-----------------------------------------------------------------------------
TypeOK ==
  /\ closed \in BOOLEAN
  /\ pollLock \in Threads \cup {NoThread}
  /\ pendingEvents \in Seq(Event)
  /\ operationFrames \in [Ops -> Nat]
  /\ native \in Seq(Event)
  /\ nativeOp \in [Ops -> {"new", "live", "resulted", "done"}]
  /\ pc \in [Threads -> {"idle", "lock", "native", "again", "convert", "each", "remember", "send"}]
  /\ call \in [Threads -> Call]
  /\ acc \in [Threads -> Seq(Event)]
  /\ seen \in [Threads -> Seq(Event)]
  /\ discarded \subseteq 1..MaxEvents
  /\ lost \subseteq 1..MaxEvents
  /\ log \in Seq(Event)
  /\ returned \subseteq Ops
  /\ cancelled \subseteq Ops

(* No event is duplicated and none vanishes unaccounted for: every event the
   native runtime emitted is in exactly one place: still queued there, in
   _pending_events, in the hands of one running call, returned to one caller,
   thrown away by an unlimited filtered poll or by the type filter of a typed one,
   or consumed by a call that raised: over another event of its native batch, over
   the conversion of what was taken, or in a callback.  Two threads that poll for
   results never receive the same event. *)
EventConservation ==
  \A i \in 1..Len(log) :
    Cardinality(Placed(NoThread, "native", Copies(native, i))
      \cup Placed(NoThread, "pending", Copies(pendingEvents, i))
      \cup PlacedAll(Threads, "acc", acc, i)
      \cup PlacedAll(Threads, "seen", seen, i)
      \cup Placed(NoThread, "discarded", discarded \cap {i})
      \cup Placed(NoThread, "lost", lost \cap {i})) = 1

(* _pending_events holds events in the order the session received them, and
   everything in it is older than anything still to be received. *)
PendingIsOldest ==
  LET s == pendingEvents \o native
  IN \A j, k \in DOMAIN s : j < k => s[j].id < s[k].id

(* What a call has collected, over however many native polls with other
   threads polling in between, is in the order the peer sent it; so a callback
   or an iteration sees the events of its batch oldest first, and stopping in
   the middle of a batch never brings an older event back behind a newer one. *)
CollectedInOrder ==
  \A t \in Threads : \A j, k \in DOMAIN acc[t] : j < k => acc[t][j].id < acc[t][k].id

(* Whatever mixture of filtered, result and frame polls a thread makes, two
   events of one kind about one operation reach it in the order they were
   emitted. *)
SourceOrder ==
  \A t \in Threads : \A j, k \in DOMAIN seen[t] :
    /\ j < k
    /\ seen[t][j].kind = seen[t][k].kind
    /\ seen[t][j].op = seen[t][k].op
    => seen[t][j].id < seen[t][k].id

(* What polling promises, with the types of the state: every event once, and in
   order, in the session, in the hands of a call and with the caller. *)
EventsOnceInOrder == TypeOK /\ EventConservation /\ PendingIsOldest /\ CollectedInOrder /\ SourceOrder

\* The events that have left the native queue.
Consumed == {log[i] : i \in {i \in DOMAIN log : log[i].id \notin Ids(native)}}

\* Terminal evidence in an event of this session.
Ends(e, o) ==
  \/ e.kind = "session_close"
  \/ e.op = o /\ (IsResultEvent(e) \/ e.kind = "peer_cancel")

EvidenceFor(o) == closed \/ o \in cancelled \/ \E e \in Consumed : Ends(e, o)

(* "Preserve each submitted operation_id to frame_id pair for operation-scoped
   runtime controls": once submit returned, the binding is there, with the
   frame of the submit, until there is evidence that the operation ended. *)
LiveBindingKept ==
  \A o \in returned : operationFrames[o] = FrameOf[o] \/ (operationFrames[o] = 0 /\ EvidenceFor(o))

\* Evidence in an event that no call lost by raising.
VisibleEvidence(o) ==
  closed \/ o \in cancelled \/ \E e \in Consumed : e.id \notin lost /\ Ends(e, o)

(* The same release seen from the step that brings the evidence: whichever
   thread receives the event, cancels, or closes, an operation whose submit has
   returned is unbound from that step on. *)
ReleasedOnEvidence ==
  [][\A o \in returned :
       VisibleEvidence(o)' => operationFrames'[o] = 0 \/ VisibleEvidence(o)]_vars

(* "Release the binding after terminal evidence, cancellation, supersede,
   abort, or session close": no returned operation that ended stays bound. *)
BindingReleased ==
  \A o \in returned : EvidenceFor(o) => operationFrames[o] = 0
=============================================================================
