---------------------------- MODULE AsyncSubmit ----------------------------
(***************************************************************************)
(* async_submit_operation and async_submit_and_poll_result of              *)
(* NativeRuntimeSession (src/nnrp/native.py): one asyncio task, the worker *)
(* thread that dispatches its submit, the worker thread that polls for its *)
(* result, and callers that cancel the task at any await, more than once.  *)
(*                                                                         *)
(* A cancellation takes effect at the await the task is suspended in, even *)
(* when what it waits for is already there: asyncio then throws            *)
(* CancelledError instead of returning the value.                          *)
(*                                                                         *)
(* The names of the state and of the specification tell this module apart  *)
(* from NativeSession and ServerReplies: other modules extend it with one  *)
(* of these.                                                               *)
(***************************************************************************)
EXTENDS Naturals, Sequences

CONSTANT MaxCancels \* bound: how often the task is cancelled
ASSUME MaxCancelsAssumption == MaxCancels \in Nat

\* async_submit_operation, and submit-and-wait without a timeout, with one, and
\* with one but max_events = 0, which looks at retained events only.
Modes == {"submit", "wait", "timed_wait", "timed_probe"}
TimedModes == {"timed_wait", "timed_probe"}

VARIABLES
  mode,
  task,            \* where the task is: "new", the await it is suspended in, or "done"
  outcome,         \* what the task returned or raised
  cancels,         \* cancellations delivered to the task
  allowed,         \* dispatch_allowed
  dispatched,      \* dispatch_started
  submitter,       \* the dispatch worker
  poller,          \* the poll_until_complete worker
  requested,       \* the cancellation_requested event
  expired,         \* wait_deadline has passed
  answered,        \* a terminal event for the operation is there to be polled
  calls            \* the native calls made, in order

submitVars == <<mode, task, outcome, cancels, allowed, dispatched, submitter, poller,
                requested, expired, answered, calls>>

SubmitInit ==
  /\ mode \in Modes
  /\ task = "new"
  /\ outcome = "none"
  /\ cancels = 0
  /\ allowed = TRUE
  /\ dispatched = FALSE
  /\ submitter = "none"
  /\ poller = "none"
  /\ requested = FALSE
  /\ expired = FALSE
  /\ answered = FALSE
  /\ calls = <<>>

End(o) == task' = "done" /\ outcome' = o

-----------------------------------------------------------------------------
(* The task. *)

\* Up to the first await: a timed wait sends DEADLINE, which may fail.
Begin ==
  /\ task = "new"
  /\ calls' = IF mode \in TimedModes THEN <<"DEADLINE">> ELSE <<>>
  /\ \/ task' = "submit" /\ submitter' = "queued" /\ UNCHANGED outcome
     \/ mode \in TimedModes /\ End("error") /\ UNCHANGED submitter
  /\ UNCHANGED <<mode, cancels, allowed, dispatched, poller, requested, expired, answered>>

\* shield(submit_task) returns or raises; a wait goes on to its poll worker.
ResumeSubmit ==
  /\ task = "submit"
  /\ \/ submitter = "failed" /\ End("error") /\ UNCHANGED poller
     \/ submitter = "ok" /\ mode = "submit" /\ End("operation") /\ UNCHANGED poller
     \/ /\ submitter = "ok" /\ mode # "submit"
        /\ task' = "poll"
        /\ poller' = "check"
        /\ UNCHANGED outcome
  /\ UNCHANGED <<mode, cancels, allowed, dispatched, submitter, requested, expired, answered, calls>>

\* The end of the cancellation handler of async_submit_operation, once the
\* dispatch is over: operation.cancel() on the event loop, which may raise.
HandlerEnd ==
  \/ submitter = "failed" /\ End("error") /\ UNCHANGED calls
  \/ submitter = "ok" /\ calls' = Append(calls, "CANCEL") /\ (End("cancelled") \/ End("error"))

\* Cancelled in the first await: before dispatch the worker is told not to
\* start; afterwards the handler waits for it.
CancelSubmit ==
  /\ task = "submit"
  /\ cancels < MaxCancels
  /\ cancels' = cancels + 1
  /\ IF ~dispatched
       THEN allowed' = FALSE /\ End("cancelled") /\ UNCHANGED calls
       ELSE /\ UNCHANGED allowed
            /\ IF submitter \in {"ok", "failed"}
                 THEN HandlerEnd
                 ELSE task' = "submit_handler" /\ UNCHANGED <<outcome, calls>>
  /\ UNCHANGED <<mode, dispatched, submitter, poller, requested, expired, answered>>

ResumeHandler ==
  /\ task = "submit_handler"
  /\ HandlerEnd
  /\ UNCHANGED <<mode, cancels, allowed, dispatched, submitter, poller, requested, expired, answered>>

\* Cancelled again while the handler waits for the dispatch.
CancelHandler ==
  /\ task = "submit_handler"
  /\ cancels < MaxCancels
  /\ cancels' = cancels + 1
  /\ End("cancelled")
  /\ UNCHANGED <<mode, allowed, dispatched, submitter, poller, requested, expired, answered, calls>>

PollerOver == poller \in {"result", "timeout", "would_block", "error", "cancelled"}

ResumePoll ==
  /\ task = "poll"
  /\ PollerOver
  /\ End(poller)
  /\ UNCHANGED <<mode, cancels, allowed, dispatched, submitter, poller, requested, expired, answered, calls>>

\* The end of the handler of async_submit_and_poll_result: only the poller's
\* own cancellation exception gives way to CancelledError.
PollHandlerEnd == End(IF poller \in {"cancelled", "result"} THEN "cancelled" ELSE poller)

CancelPoll ==
  /\ task = "poll"
  /\ cancels < MaxCancels
  /\ cancels' = cancels + 1
  /\ requested' = TRUE
  /\ IF PollerOver THEN PollHandlerEnd ELSE task' = "poll_handler" /\ UNCHANGED outcome
  /\ UNCHANGED <<mode, allowed, dispatched, submitter, poller, expired, answered, calls>>

ResumePollHandler ==
  /\ task = "poll_handler"
  /\ PollerOver
  /\ PollHandlerEnd
  /\ UNCHANGED <<mode, cancels, allowed, dispatched, submitter, poller, requested, expired, answered, calls>>

CancelPollHandler ==
  /\ task = "poll_handler"
  /\ cancels < MaxCancels
  /\ cancels' = cancels + 1
  /\ End("cancelled")
  /\ UNCHANGED <<mode, allowed, dispatched, submitter, poller, requested, expired, answered, calls>>

-----------------------------------------------------------------------------
(* The dispatch worker. *)

\* Mutant of DispatchEnter: dispatch_allowed is not looked at.
DispatchEnter_Always ==
  /\ submitter = "queued"
  /\ submitter' = "running"
  /\ UNCHANGED <<mode, task, outcome, cancels, allowed, dispatched, poller, requested, expired, answered, calls>>

DispatchEnter ==
  /\ submitter = "queued"
  /\ IF allowed
       THEN dispatched' = TRUE /\ submitter' = "running"
       ELSE submitter' = "suppressed" /\ UNCHANGED dispatched
  /\ UNCHANGED <<mode, task, outcome, cancels, allowed, poller, requested, expired, answered, calls>>

DispatchNative ==
  /\ submitter = "running"
  /\ submitter' \in {"ok", "failed"}
  /\ calls' = Append(calls, "SUBMIT")
  /\ UNCHANGED <<mode, task, outcome, cancels, allowed, dispatched, poller, requested, expired, answered>>

-----------------------------------------------------------------------------
(* The poll worker: _poll_submitted_result_until_deadline inside             *)
(* poll_until_complete.                                                      *)

Poller(from, to) == poller = from /\ poller' = to
restUnchanged == <<mode, task, outcome, cancels, allowed, dispatched, submitter, requested, expired, answered>>

PollCheck == /\ Poller("check", IF requested THEN "finish" ELSE "polling")
             /\ UNCHANGED calls /\ UNCHANGED restUnchanged

\* poll_result returns, would block, or fails.
PollNative ==
  /\ \/ answered /\ Poller("polling", "got")
     \/ Poller("polling", "blocked")
     \/ Poller("polling", "raise_error")
  /\ UNCHANGED calls /\ UNCHANGED restUnchanged

PollGot == /\ Poller("got", IF requested THEN "finish" ELSE "result")
           /\ UNCHANGED calls /\ UNCHANGED restUnchanged

\* Mutant of PollBlocked: the deadline is not looked at.
PollBlocked_NoDeadline ==
  /\ \/ requested /\ Poller("blocked", "finish")
     \/ ~requested /\ mode # "timed_wait" /\ Poller("blocked", "raise_would_block")
     \/ ~requested /\ mode = "timed_wait" /\ Poller("blocked", "check")
  /\ UNCHANGED calls /\ UNCHANGED restUnchanged

\* NativeWouldBlockError: give up, go round again, or cancel on expiry.
PollBlocked ==
  /\ \/ requested /\ Poller("blocked", "finish") /\ UNCHANGED calls
     \/ ~requested /\ mode # "timed_wait" /\ Poller("blocked", "raise_would_block") /\ UNCHANGED calls
     \/ ~requested /\ mode = "timed_wait" /\ ~expired /\ Poller("blocked", "check") /\ UNCHANGED calls
     \/ /\ ~requested /\ mode = "timed_wait" /\ expired
        /\ Poller("blocked", "raise_timeout") \/ Poller("blocked", "raise_error")
        /\ calls' = Append(calls, "CANCEL")
  /\ UNCHANGED restUnchanged

\* except Exception in poll_until_complete.
PollRaise ==
  /\ \/ Poller("raise_error", IF requested THEN "finish" ELSE "error")
     \/ Poller("raise_would_block", IF requested THEN "finish" ELSE "would_block")
     \/ Poller("raise_timeout", IF requested THEN "finish" ELSE "timeout")
  /\ UNCHANGED calls /\ UNCHANGED restUnchanged

\* Mutant of PollFinish: the native cancel is left out.
PollFinish_Silent ==
  /\ Poller("finish", "cancelled")
  /\ UNCHANGED calls /\ UNCHANGED restUnchanged

\* finish_cancellation: cancel natively, whatever that call says.
PollFinish ==
  /\ Poller("finish", "cancelled")
  /\ calls' = Append(calls, "CANCEL")
  /\ UNCHANGED restUnchanged

-----------------------------------------------------------------------------
(* The surroundings. *)
Answer ==
  /\ submitter = "ok" /\ ~answered
  /\ answered' = TRUE
  /\ UNCHANGED <<mode, task, outcome, cancels, allowed, dispatched, submitter, poller, requested, expired, calls>>

Expire ==
  /\ mode \in TimedModes /\ task # "new" /\ ~expired
  /\ expired' = TRUE
  /\ UNCHANGED <<mode, task, outcome, cancels, allowed, dispatched, submitter, poller, requested, answered, calls>>

Task     == Begin \/ ResumeSubmit \/ ResumeHandler \/ ResumePoll \/ ResumePollHandler
Canceller == CancelSubmit \/ CancelHandler \/ CancelPoll \/ CancelPollHandler
Workers  == DispatchEnter \/ DispatchNative
Polling  == PollCheck \/ PollNative \/ PollGot \/ PollBlocked \/ PollRaise \/ PollFinish

SubmitNext == Task \/ Canceller \/ Workers \/ Polling \/ Answer \/ Expire

SubmitSpec == SubmitInit /\ [][SubmitNext]_submitVars

(* The event loop runs ready tasks, the executor its workers, and time passes;
   nobody has to cancel and no result has to come. *)
SubmitFairness ==
  WF_submitVars(Task) /\ WF_submitVars(Workers) /\ WF_submitVars(Polling) /\ WF_submitVars(Expire)

-----------------------------------------------------------------------------
SubmitTypeOK ==
  /\ mode \in Modes
  /\ task \in {"new", "submit", "submit_handler", "poll", "poll_handler", "done"}
  /\ outcome \in {"none", "operation", "result", "timeout", "would_block", "error", "cancelled"}
  /\ cancels \in 0..MaxCancels
  /\ allowed \in BOOLEAN
  /\ dispatched \in BOOLEAN
  /\ requested \in BOOLEAN
  /\ expired \in BOOLEAN
  /\ answered \in BOOLEAN
  /\ submitter \in {"none", "queued", "running", "ok", "failed", "suppressed"}
  /\ poller \in {"none", "check", "polling", "got", "blocked", "finish", "raise_error",
                 "raise_would_block", "raise_timeout", "result", "timeout", "would_block",
                 "error", "cancelled"}
  /\ calls \in Seq({"DEADLINE", "SUBMIT", "CANCEL"})

Made(c) == \E i \in DOMAIN calls : calls[i] = c

(* "Emit no submit or cancellation frame when an async wait is cancelled before
   dispatch": neither when the caller gets CancelledError nor later, when the
   executor reaches the work that was queued; and once the worker was told not
   to start, it never does. *)
QuietBeforeDispatch ==
  ~allowed \/ (outcome = "cancelled" /\ ~dispatched) => ~Made("SUBMIT") /\ ~Made("CANCEL")

\* All work of the call is over.
Quiescent ==
  /\ task = "done"
  /\ submitter \in {"none", "ok", "failed", "suppressed"}
  /\ poller = "none" \/ PollerOver

(* "Convert cancellation after dispatch to asyncio.CancelledError and send native
   cancellation": when a call whose submit went out ends in CancelledError, the
   operation is cancelled natively, or its result was already taken. *)
CancelledIsCancelled ==
  Quiescent /\ outcome = "cancelled" /\ submitter = "ok" => Made("CANCEL") \/ poller = "result"

(* As the handlers are written, the sentence holds of calls that are cancelled
   once. *)
OneCancelIsCancelled == cancels <= 1 => CancelledIsCancelled

(* "Convert wait expiry to Python TimeoutError and send native cancellation
   after dispatch", and no caller is told of a result or a timeout by a poller
   that was asked to cancel and gave way. *)
TimeoutIsCancelled ==
  /\ outcome = "timeout" => Made("CANCEL") /\ expired
  /\ outcome \in {"result", "operation"} => cancels = 0

(* What a caller that gave up may rely on, with the types of the state: an
   operation nobody waits for any more, after a cancellation or a timeout in
   either method, is cancelled natively. *)
GivenUpIsCancelled == SubmitTypeOK /\ OneCancelIsCancelled /\ TimeoutIsCancelled

(* Every call ends: a wait with a deadline does not outlive it, and a cancelled
   call does not hang on the workers it shields. *)
CallEnds == (task # "new") ~> (task = "done")
=============================================================================
