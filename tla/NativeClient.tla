---------------------------- MODULE NativeClient ---------------------------
(***************************************************************************)
(* NativeClientConnection of src/nnrp/client/native.py: the connection a   *)
(* client application shares between threads and tasks.  Sessions are      *)
(* opened and everything is closed by one role thread (_role_executor);    *)
(* callers queue work for it under _close_lock.  Results of operations     *)
(* that were cancelled through the connection are suppressed when they     *)
(* arrive late, from sets that are bounded per session.                    *)
(*                                                                         *)
(* The native runtime is external: it opens and closes sessions, may       *)
(* refuse to, and produces the result of an operation at any time, after a *)
(* cancellation as well.                                                   *)
(***************************************************************************)
EXTENDS EventQueues

CONSTANTS
  Threads,   \* callers: tasks for open_session, threads for the rest
  Sessions,  \* the sessions the native runtime can open, in order: 1..n
  Ops,       \* the operations: records of a session, an id and a frame id
  Cancels,   \* the cancellations callers may ask for: what to cancel and how
  Limit,     \* _MAX_CANCELLED_RESULT_SUPPRESSIONS_PER_SESSION (4096 in the code)
  MaxCancels,\* bound: identities that are remembered
  NoThread

Op == [session : Sessions, id : Nat, frame : Nat]

\* What is remembered of a cancellation, each kind in sets of its own.
Kinds == {"frame", "operation"}

\* cancel_frame remembers the frame id it is given, cancel_runtime_operation the
\* operation id, cancel_operation both of its operation, one after the other.
Cancelling == {<<"frame">>, <<"operation">>, <<"frame", "operation">>}

ASSUME OpsAssumption ==
  /\ Ops \subseteq Op /\ Cancels \subseteq [op : Op, how : Cancelling]
  /\ \A c \in Cancels : Len(c.how) = 2 => c.op \in Ops
ASSUME BoundsAssumption ==
  /\ Limit \in Nat \ {0} /\ MaxCancels \in Nat
  /\ IsFiniteSet(Sessions) /\ Sessions = 1..Cardinality(Sessions)
ASSUME ThreadAssumption == NoThread \notin Threads /\ IsFiniteSet(Threads)

VARIABLES
  closed,     \* _closed
  closeLock,  \* the holder of _close_lock across a close
  queue,      \* jobs the role thread has not begun
  job,        \* the job it runs
  closing,    \* while it closes: the sessions still to close
  sessions,   \* _sessions
  native,     \* the native runtime's view of each session, and of the connection
  sessionClosed, \* the _closed flag of each session object
  frames,     \* _cancelled_frames, per session in insertion order
  operations, \* _cancelled_operations, the same
  result,     \* how far the result of each operation has come
  pc, arg,    \* per thread: where it is, and the operation it is about
  known,      \* the sessions the application has been given
  got,        \* history: operations whose result was returned
  dropped,    \* history: operations whose result was taken and suppressed
  todo,       \* per thread: the kinds it has still to remember, the current one first
  seen,       \* per thread: the size of the set its iterator was made for, then the oldest value
  detached,   \* the threads whose set close has taken out of the mapping
  log,        \* history: every identity that was remembered, in order
  cleared,    \* history: whether close has emptied the sets
  failed      \* history: what could not be closed

vars == <<closed, closeLock, queue, job, closing, sessions, native, sessionClosed, frames,
          operations, result, pc, arg, known, got, dropped, todo, seen, detached, log, cleared, failed>>
roleVars    == <<queue, job, closing, sessions>>
sessionVars == <<native, sessionClosed, known, failed>>
cancelVars  == <<frames, operations, todo, seen, detached, log, cleared>>
resultVars  == <<result, got, dropped>>
threadVars  == <<pc, arg>>

NoOp == [session |-> 1, id |-> 0, frame |-> 0]
NoJob == [kind |-> "none", by |-> NoThread]
Job == [kind : {"open", "close"}, by : Threads \cup {NoThread}]

Init ==
  /\ closed = FALSE /\ closeLock = NoThread
  /\ queue = <<>> /\ job = NoJob /\ closing = <<>> /\ sessions = <<>>
  /\ native = [s \in Sessions \cup {0} |-> IF s = 0 THEN "open" ELSE "none"]
  /\ sessionClosed = [s \in Sessions |-> FALSE]
  /\ frames = [s \in Sessions |-> <<>>] /\ operations = [s \in Sessions |-> <<>>]
  /\ result = [o \in Ops |-> "none"]
  /\ pc = [t \in Threads |-> "idle"] /\ arg = [t \in Threads |-> NoOp]
  /\ todo = [t \in Threads |-> <<>>] /\ seen = [t \in Threads |-> 0] /\ detached = {}
  /\ known = {} /\ got = {} /\ dropped = {} /\ log = <<>> /\ cleared = FALSE /\ failed = {}

Goto(t, to) == pc' = [pc EXCEPT ![t] = to]
Begin(t, o, to) == Goto(t, to) /\ arg' = [arg EXCEPT ![t] = o]
End(t) == Goto(t, "idle") /\ arg' = [arg EXCEPT ![t] = NoOp]

\* The session's _poll_lock is free: no thread is in a native poll on it.
PollLockFree(s) == \A t \in Threads : pc[t] = "polling" => arg[t].session # s
Usable(s) == s \in known /\ ~sessionClosed[s]

-----------------------------------------------------------------------------
(* Opening sessions.  open_session and resume_session queue a job of the    *)
(* same shape; a resumed session is opened from its ticket.                 *)

OpenSession(t) ==
  /\ pc[t] = "idle" /\ closeLock = NoThread /\ ~closed
  /\ queue' = Append(queue, [kind |-> "open", by |-> t])
  /\ Goto(t, "opening")
  /\ UNCHANGED <<closed, closeLock, job, closing, sessions, arg, sessionVars, cancelVars, resultVars>>

\* The awaiting task is cancelled: a job that has not begun is withdrawn, one
\* that runs goes on without anybody waiting for it.
CancelOpen(t) ==
  /\ pc[t] = "opening"
  /\ queue' = At(queue, {i \in DOMAIN queue : queue[i].by # t})
  /\ job' = IF job.by = t THEN [job EXCEPT !.by = NoThread] ELSE job
  /\ End(t)
  /\ UNCHANGED <<closed, closeLock, closing, sessions, sessionVars, cancelVars, resultVars>>

\* The role thread takes its next job.
RoleTake ==
  /\ job = NoJob /\ queue # <<>>
  /\ job' = Head(queue) /\ queue' = Tail(queue)
  /\ closing' = IF Head(queue).kind = "close" THEN sessions ELSE <<>>
  /\ UNCHANGED <<closed, closeLock, sessions, sessionVars, cancelVars, resultVars, threadVars>>

\* Mutant of Opened: only a session somebody waits for is kept.
Opened_Waited(s) == IF job.by = NoThread THEN sessions ELSE Append(sessions, s)
Opened(s) == Append(sessions, s)

\* _open_session and _resume_session on the role thread.  Its _ensure_open cannot
\* fail: a close is queued behind it.
RoleOpen ==
  /\ job.kind = "open"
  /\ \/ \E s \in Sessions :
          /\ native[s] = "none" /\ (s > 1 => native[s - 1] # "none")
          /\ native' = [native EXCEPT ![s] = "open"]
          /\ sessions' = Opened(s)
          /\ known' = IF job.by = NoThread THEN known ELSE known \cup {s}
     \/ UNCHANGED <<native, sessions, known>>
  /\ job' = NoJob
  /\ pc' = [t \in Threads |-> IF t = job.by /\ pc[t] = "opening" THEN "idle" ELSE pc[t]]
  /\ UNCHANGED <<closed, closeLock, queue, closing, sessionClosed, failed, cancelVars, resultVars, arg>>

-----------------------------------------------------------------------------
(* Suppressed results.  _remember_cancelled_result_identity takes no lock: every
   read and write of a set is a step of its own, between those of other threads. *)

IdOf(kind, o) == IF kind = "frame" THEN o.frame ELSE o.id
Values(kind, s) == IF kind = "frame" THEN frames[s] ELSE operations[s]
Elements(values) == {values[i] : i \in DOMAIN values}

\* values[value] = None: a value that is there keeps its place.
Inserted(values, v) == IF v \in Elements(values) THEN values ELSE Append(values, v)

\* Mutant of Popped: popitem, which takes the newest.
Popped_Newest(values, v) == SubSeq(values, 1, Len(values) - 1)

\* values.pop(value)
Popped(values, v) == At(values, {i \in DOMAIN values : values[i] # v})

\* The set that a thread works on, and what it remembers there.
SetOf(t) == Values(Head(todo[t]), arg[t].session)
ValueOf(t) == IdOf(Head(todo[t]), arg[t])
SetBecomes(t, x) ==
  /\ frames' = IF Head(todo[t]) = "frame" THEN [frames EXCEPT ![arg[t].session] = x] ELSE frames
  /\ operations' = IF Head(todo[t]) = "operation" THEN [operations EXCEPT ![arg[t].session] = x] ELSE operations

Trimming == {"trim", "iterate", "oldest", "pop"}

\* Mutant of Suppressed: the session is not looked at.
Suppressed_AnySession(kind, o) == \E s \in Sessions : IdOf(kind, o) \in Elements(Values(kind, s))

\* What _is_cancelled_result asks of each of the two sets.
Suppressed(kind, o) == IdOf(kind, o) \in Elements(Values(kind, o.session))

\* How many identities have been remembered, or are about to be.
Underway ==
  Len(log) + Cardinality({p \in Threads \X {1, 2} :
    p[2] \in DOMAIN todo[p[1]] /\ (p[2] = 1 => pc[p[1]] = "insert")})

\* cancel_operation, cancel_frame and cancel_runtime_operation: the native cancel
\* (under the session's _poll_lock), or the CANCEL frame, is sent first.
CancelSend(t, c) ==
  /\ pc[t] = "idle" /\ ~closed /\ Usable(c.op.session)
  /\ Len(c.how) = 2 => result[c.op] # "none"
  /\ c.how # <<"operation">> => PollLockFree(c.op.session)
  /\ Underway + Len(c.how) <= MaxCancels
  /\ Begin(t, c.op, "insert") /\ todo' = [todo EXCEPT ![t] = c.how]
  /\ UNCHANGED <<closed, closeLock, roleVars, sessionVars, frames, operations, seen, detached, log,
                 cleared, resultVars>>

\* setdefault and the insertion.  Nothing but a close between the two could tell them apart,
\* and it empties the sets either way.
RememberInsert(t) ==
  /\ pc[t] = "insert"
  /\ SetBecomes(t, Inserted(SetOf(t), ValueOf(t)))
  /\ log' = Append(log, [kind |-> Head(todo[t]), session |-> arg[t].session, value |-> ValueOf(t)])
  /\ Goto(t, "trim")
  /\ UNCHANGED <<closed, closeLock, roleVars, sessionVars, arg, todo, seen, detached, cleared, resultVars>>

\* What the steps of the loop leave alone.
LoopUnchanged == UNCHANGED <<closed, closeLock, roleVars, sessionVars, log, cleared, resultVars>>

\* The loop has ended: the next kind, or the call returns.
NextKind(t) ==
  /\ todo' = [todo EXCEPT ![t] = Tail(@)]
  /\ detached' = detached \ {t}
  /\ \/ Len(todo[t]) > 1 /\ Goto(t, "insert") /\ UNCHANGED arg
     \/ Len(todo[t]) = 1 /\ End(t)

\* The loop raises, and so does the call: what is still to do is not remembered.
Raise(t) ==
  /\ End(t)
  /\ todo' = [todo EXCEPT ![t] = <<>>] /\ seen' = [seen EXCEPT ![t] = 0]
  /\ detached' = detached \ {t}

\* len(values) > _MAX_CANCELLED_RESULT_SUPPRESSIONS_PER_SESSION
RememberTrim(t) ==
  /\ pc[t] = "trim" /\ t \notin detached
  /\ \/ Len(SetOf(t)) > Limit /\ Goto(t, "iterate") /\ UNCHANGED <<arg, todo, detached>>
     \/ Len(SetOf(t)) <= Limit /\ NextKind(t)
  /\ LoopUnchanged /\ UNCHANGED <<frames, operations, seen>>

\* iter(values)
RememberIterate(t) ==
  /\ pc[t] = "iterate" /\ t \notin detached
  /\ seen' = [seen EXCEPT ![t] = Len(SetOf(t))]
  /\ Goto(t, "oldest")
  /\ LoopUnchanged /\ UNCHANGED <<frames, operations, arg, todo, detached>>

\* next(...): raises when the size of the set has changed since, or nothing is in it.
RememberOldest(t) ==
  /\ pc[t] = "oldest" /\ t \notin detached
  /\ IF SetOf(t) # <<>> /\ Len(SetOf(t)) = seen[t]
     THEN seen' = [seen EXCEPT ![t] = Head(SetOf(t))] /\ Goto(t, "pop") /\ UNCHANGED <<arg, todo, detached>>
     ELSE Raise(t)
  /\ LoopUnchanged /\ UNCHANGED <<frames, operations>>

\* values.pop(...): raises when another thread has popped the value.
RememberPop(t) ==
  /\ pc[t] = "pop" /\ t \notin detached
  /\ IF seen[t] \in Elements(SetOf(t))
     THEN /\ SetBecomes(t, Popped(SetOf(t), seen[t]))
          /\ seen' = [seen EXCEPT ![t] = 0] /\ Goto(t, "trim") /\ UNCHANGED <<arg, todo, detached>>
     ELSE Raise(t) /\ UNCHANGED <<frames, operations>>
  /\ LoopUnchanged

\* The loop over a set that is no longer in the mapping, which nobody else reads: it
\* ends or raises.
RememberDetached(t) ==
  /\ pc[t] \in Trimming /\ t \in detached
  /\ (NextKind(t) /\ seen' = [seen EXCEPT ![t] = 0]) \/ Raise(t)
  /\ LoopUnchanged /\ UNCHANGED <<frames, operations>>

-----------------------------------------------------------------------------
(* Results. *)

\* The application submits an operation on the session itself.
Submit(o) ==
  /\ Usable(o.session) /\ result[o] = "none"
  /\ result' = [result EXCEPT ![o] = "submitted"]
  /\ UNCHANGED <<closed, closeLock, roleVars, sessionVars, cancelVars, got, dropped, threadVars>>

\* poll_result: the checks before the session is polled, in one step, since they are made
\* again after it.
PollResult(t, o) ==
  /\ pc[t] = "idle" /\ ~closed /\ Usable(o.session)
  /\ result[o] # "none" /\ \A kind \in Kinds : ~Suppressed(kind, o)
  /\ Begin(t, o, "lock")
  /\ UNCHANGED <<closed, closeLock, roleVars, sessionVars, cancelVars, resultVars>>

\* submit_and_poll_result: submits, polls, and checks only afterwards.
SubmitAndPoll(t, o) ==
  /\ pc[t] = "idle" /\ ~closed /\ Usable(o.session)
  /\ result[o] = "none"
  /\ result' = [result EXCEPT ![o] = "submitted"]
  /\ Begin(t, o, "lock")
  /\ UNCHANGED <<closed, closeLock, roleVars, sessionVars, cancelVars, got, dropped>>

PollLock(t) ==
  /\ pc[t] = "lock" /\ PollLockFree(arg[t].session)
  /\ Goto(t, "polling")
  /\ UNCHANGED <<closed, closeLock, roleVars, sessionVars, cancelVars, resultVars, arg>>

\* The native poll of the session returns: with the result, which the runtime may
\* have at any time, or it would block or the session is gone and the call raises.
PollReturn(t) ==
  LET o == arg[t]
  IN /\ pc[t] = "polling"
     /\ \/ /\ result[o] = "submitted" /\ native[o.session] = "open"
           /\ result' = [result EXCEPT ![o] = "taken"] /\ Goto(t, "frame") /\ UNCHANGED arg
        \/ End(t) /\ UNCHANGED result
     /\ UNCHANGED <<closed, closeLock, roleVars, sessionVars, cancelVars, got, dropped>>

\* The check after the poll reads the frames, and then the operations: pc names the set.
\* A suppressed result has been consumed all the same.
PollCheck(t) ==
  LET o == arg[t]
  IN /\ pc[t] \in Kinds
     /\ \/ /\ Suppressed(pc[t], o)
           /\ dropped' = dropped \cup {o} /\ End(t) /\ UNCHANGED got
        \/ /\ ~Suppressed(pc[t], o) /\ pc[t] = "frame"
           /\ Goto(t, "operation") /\ UNCHANGED <<arg, got, dropped>>
        \/ /\ ~Suppressed(pc[t], o) /\ pc[t] = "operation"
           /\ got' = got \cup {o} /\ End(t) /\ UNCHANGED dropped
     /\ UNCHANGED <<closed, closeLock, roleVars, sessionVars, cancelVars, result>>

-----------------------------------------------------------------------------
(* Closing. *)

\* The application closes a session itself.
CloseSession(s) ==
  /\ Usable(s) /\ PollLockFree(s)
  /\ native' = [native EXCEPT ![s] = "closed"]
  /\ sessionClosed' = [sessionClosed EXCEPT ![s] = TRUE]
  /\ UNCHANGED <<closed, closeLock, roleVars, known, failed, cancelVars, resultVars, threadVars>>

\* close: _close_lock is held until the role thread has closed everything.
Close(t) ==
  /\ pc[t] = "idle" /\ closeLock = NoThread /\ ~closed
  /\ closeLock' = t
  /\ queue' = Append(queue, [kind |-> "close", by |-> t])
  /\ Goto(t, "closing")
  /\ UNCHANGED <<closed, job, closing, sessions, arg, sessionVars, cancelVars, resultVars>>

\* The sessions are closed from the newest; the first close that raises ends it.
RoleCloseSession ==
  LET s == closing[Len(closing)]
      rest == SubSeq(closing, 1, Len(closing) - 1)
  IN /\ job.kind = "close" /\ closing # <<>>
     /\ \/ sessionClosed[s] /\ closing' = rest /\ UNCHANGED <<native, sessionClosed, failed>>
        \/ /\ ~sessionClosed[s] /\ PollLockFree(s)
           /\ native' = [native EXCEPT ![s] = "closed"]
           /\ sessionClosed' = [sessionClosed EXCEPT ![s] = TRUE]
           /\ closing' = rest /\ UNCHANGED failed
        \/ /\ ~sessionClosed[s] /\ PollLockFree(s)
           /\ failed' = failed \cup {s}
           /\ closing' = <<>> /\ UNCHANGED <<native, sessionClosed>>
     /\ UNCHANGED <<closed, closeLock, queue, job, sessions, known, cancelVars, resultVars, threadVars>>

\* finally: the native connection is closed, whatever happened to the sessions.
RoleCloseConnection ==
  /\ job.kind = "close" /\ closing = <<>> /\ native[0] = "open" /\ 0 \notin failed
  /\ \/ native' = [native EXCEPT ![0] = "closed"] /\ UNCHANGED failed
     \/ failed' = failed \cup {0} /\ UNCHANGED native
  /\ UNCHANGED <<closed, closeLock, roleVars, sessionClosed, known, cancelVars, resultVars, threadVars>>

\* finally: the sets and the sessions are forgotten; _closed is set last.
RoleClear ==
  /\ job.kind = "close" /\ closing = <<>> /\ (native[0] = "closed" \/ 0 \in failed)
  /\ ~cleared
  /\ frames' = [s \in Sessions |-> <<>>] /\ operations' = [s \in Sessions |-> <<>>]
  /\ detached' = {t \in Threads : pc[t] \in Trimming}
  /\ sessions' = <<>> /\ cleared' = TRUE
  /\ UNCHANGED <<closed, closeLock, queue, job, closing, sessionVars, todo, seen, log, resultVars, threadVars>>

RoleClosed ==
  /\ job.kind = "close" /\ cleared
  /\ closed' = TRUE /\ job' = NoJob
  /\ UNCHANGED <<closeLock, queue, closing, sessions, sessionVars, cancelVars, resultVars, threadVars>>

\* Mutant of CloseReturn: the lock is only released by a close that succeeded.
CloseReturn_Locked(t) ==
  /\ pc[t] = "closing" /\ closed /\ failed = {}
  /\ closeLock' = NoThread /\ End(t)
  /\ UNCHANGED <<closed, roleVars, sessionVars, cancelVars, resultVars>>

\* The future is done, the executor is shut down and the lock released.
CloseReturn(t) ==
  /\ pc[t] = "closing" /\ closed
  /\ closeLock' = NoThread /\ End(t)
  /\ UNCHANGED <<closed, roleVars, sessionVars, cancelVars, resultVars>>

-----------------------------------------------------------------------------
RoleStep == RoleTake \/ RoleOpen \/ RoleCloseSession \/ RoleCloseConnection \/ RoleClear \/ RoleClosed

Remember(t) ==
  \/ RememberInsert(t) \/ RememberTrim(t) \/ RememberIterate(t) \/ RememberOldest(t) \/ RememberPop(t)
  \/ RememberDetached(t)

Begins(t) == OpenSession(t) \/ Close(t) \/ \E c \in Cancels : CancelSend(t, c)

CallerStep(t) ==
  \/ CancelOpen(t) \/ CloseReturn(t)
  \/ Remember(t)
  \/ \E o \in Ops : PollResult(t, o) \/ SubmitAndPoll(t, o)
  \/ PollLock(t) \/ PollReturn(t) \/ PollCheck(t)

Next ==
  \/ RoleStep
  \/ \E t \in Threads : Begins(t) \/ CallerStep(t)
  \/ \E o \in Ops : Submit(o)
  \/ \E s \in Sessions : CloseSession(s)

\* The role thread and a thread in the middle of a call are scheduled, a native
\* poll has a timeout, and a _poll_lock that keeps being released is obtained.
Fairness ==
  /\ WF_vars(RoleStep) /\ SF_vars(RoleCloseSession)
  /\ \A t \in Threads : WF_vars(PollReturn(t)) /\ WF_vars(CloseReturn(t))

Spec == Init /\ [][Next]_vars /\ Fairness

-----------------------------------------------------------------------------
Trims(t, kind, s) ==
  pc[t] \in Trimming /\ t \notin detached /\ Head(todo[t]) = kind /\ arg[t].session = s

\* A set is over its limit only while somebody trims it, whoever has raised.
SetsTrimmed ==
  \A kind \in Kinds, s \in Sessions : Len(Values(kind, s)) > Limit => \E t \in Threads : Trims(t, kind, s)

TypeOK ==
  /\ closed \in BOOLEAN /\ cleared \in BOOLEAN
  /\ closeLock \in Threads \cup {NoThread}
  /\ queue \in Seq(Job) /\ job \in Job \cup {NoJob}
  /\ closing \in Seq(Sessions) /\ sessions \in Seq(Sessions)
  /\ native \in [Sessions \cup {0} -> {"none", "open", "closed"}]
  /\ sessionClosed \in [Sessions -> BOOLEAN]
  /\ frames \in [Sessions -> Seq(Nat)] /\ operations \in [Sessions -> Seq(Nat)]
  /\ SetsTrimmed
  /\ result \in [Ops -> {"none", "submitted", "taken"}]
  /\ pc \in [Threads -> {"idle", "opening", "lock", "polling", "closing", "insert"} \cup Kinds \cup Trimming]
  /\ arg \in [Threads -> Ops \cup {NoOp} \cup {c.op : c \in Cancels}]
  /\ known \subseteq Sessions /\ failed \subseteq Sessions \cup {0}
  /\ got \subseteq Ops /\ dropped \subseteq Ops
  /\ todo \in [Threads -> Cancelling \cup {<<>>}] /\ seen \in [Threads -> Nat]
  /\ detached \subseteq {t \in Threads : pc[t] \in Trimming}
  /\ log \in Seq([kind : Kinds, session : Sessions, value : Nat])

(* close leaves nothing behind: the native connection has been closed, or its
   close has failed; and so has every session, those included whose open_session
   was cancelled while the role thread was opening them or raced the close.  When
   closing a session fails, only that session and older ones are left.  The types of
   the state are checked with it. *)
CloseReleases ==
  /\ TypeOK
  /\ closed =>
       /\ native[0] = "closed" \/ 0 \in failed
       /\ \A s \in Sessions : native[s] = "open" => \E f \in failed \ {0} : s <= f

\* The i-th identity that was remembered, if it is of this kind and session.
Logged(i, kind, session) ==
  IF log[i].kind = kind /\ log[i].session = session THEN {log[i].value} ELSE {}

\* How many later values a remembered one is sure to outlive, one less than Limit for
\* every other thread: it may have found the set too large before somebody trimmed it.
Room == Limit - (Cardinality(Threads) - 1)

\* v was remembered once, and fewer than Room other values have been since.
RememberedRecently(kind, session, v) ==
  \E i \in DOMAIN log :
    /\ v \in Logged(i, kind, session)
    /\ \A j \in 1..i - 1 : v \notin Logged(j, kind, session)
    /\ Cardinality((UNION {Logged(j, kind, session) : j \in i + 1..Len(log)}) \ {v}) < Room

\* t reads a set, does not find there what its result is of, and goes on.
Passes(t) == pc[t] \in Kinds /\ pc'[t] # pc[t] /\ arg[t] \notin dropped'

(* "Result polling suppresses locally canceled operation or frame results so late
   native results do not re-enter the Python client facade after a cancellation
   path": no result, also of a thread that was already polling, passes a set in which
   its operation or frame was remembered, whatever other threads remember and trim
   there, until Room later identities have pushed it out or close has emptied the
   sets.  An identity that is remembered again keeps its old place, and may go with
   it. *)
LateResultSuppressed ==
  [][\A t \in Threads : Passes(t) =>
       cleared \/ ~RememberedRecently(pc[t], arg[t].session, IdOf(pc[t], arg[t]))]_vars

(* A result is only swallowed for an operation that was cancelled on its own
   session, or that uses a frame id cancelled there. *)
OnlyCancelledDropped ==
  \A o \in dropped : \E i \in DOMAIN log :
    \/ o.frame \in Logged(i, "frame", o.session)
    \/ o.id \in Logged(i, "operation", o.session)

(* Every close comes back, also behind sessions being opened, threads polling
   and closes that raise, and so does every open_session. *)
CallsReturn ==
  \A t \in Threads : pc[t] \in {"opening", "closing"} ~> pc[t] \notin {"opening", "closing"}
=============================================================================
