--------------------------- MODULE ServerReplies ---------------------------
(***************************************************************************)
(* NativeRuntimeServerOperation of src/nnrp/native.py: the replies to one  *)
(* accepted operation.  Each reply is an asyncio task that passes          *)
(* _begin_reply and then waits for a worker thread that makes the native   *)
(* call.  A terminal reply (send_result, send_result_drop) waits for its   *)
(* worker even when it is cancelled; an incremental one (send_progress,    *)
(* send_partial_result) leaves its worker behind.                          *)
(***************************************************************************)
EXTENDS Naturals, Sequences, FiniteSets

CONSTANTS
  Tasks,   \* the reply calls the application makes on the operation
  NoTask

ASSUME TasksAssumption == NoTask \notin Tasks

TerminalKinds    == {"result", "drop"}
IncrementalKinds == {"progress", "partial"}

VARIABLES
  closed,   \* _closed of the owning session
  peerClosed, \* the session polled the peer's SESSION_CLOSE
  started,  \* _terminal_reply_started
  bound,    \* the operation is in the session's _operation_frames
  pc,       \* the task: "idle", "waiting" for its worker, "done"
  kind,     \* which reply the task makes
  worker,   \* the worker thread: "none", "queued", "sending", "ok", "failed"
  cancelled,\* the task was asked to cancel
  wire      \* the replies the native runtime accepted, in order

vars == <<closed, peerClosed, started, bound, pc, kind, worker, cancelled, wire>>

Terminal(k) == kind[k] \in TerminalKinds

Init ==
  /\ closed = FALSE
  /\ peerClosed = FALSE
  /\ started = FALSE
  /\ bound = TRUE
  /\ pc = [k \in Tasks |-> "idle"]
  /\ kind \in [Tasks -> TerminalKinds \cup IncrementalKinds]
  /\ worker = [k \in Tasks |-> "none"]
  /\ cancelled = [k \in Tasks |-> FALSE]
  /\ wire = <<>>

\* Mutant of BeginReply: _terminal_reply_started is not looked at.
BeginReply_Unchecked(k) ==
  /\ pc[k] = "idle"
  /\ ~closed
  /\ started' = (started \/ Terminal(k))
  /\ pc' = [pc EXCEPT ![k] = "waiting"]
  /\ worker' = [worker EXCEPT ![k] = "queued"]
  /\ UNCHANGED <<closed, peerClosed, bound, kind, cancelled, wire>>

\* A reply that is refused raises and changes nothing.
BeginReply(k) ==
  /\ pc[k] = "idle"
  /\ ~closed
  /\ ~started
  /\ started' = Terminal(k)
  /\ pc' = [pc EXCEPT ![k] = "waiting"]
  /\ worker' = [worker EXCEPT ![k] = "queued"]
  /\ UNCHANGED <<closed, peerClosed, bound, kind, cancelled, wire>>

\* The worker checks _ensure_open of the session before it sends.
WorkerStart(k) ==
  /\ worker[k] = "queued"
  /\ worker' = [worker EXCEPT ![k] = IF closed THEN "failed" ELSE "sending"]
  /\ UNCHANGED <<closed, peerClosed, started, bound, pc, kind, cancelled, wire>>

\* The native call succeeds, or raises (always so after the native close).
WorkerSend(k) ==
  /\ worker[k] = "sending"
  /\ \/ /\ ~closed
        /\ worker' = [worker EXCEPT ![k] = "ok"]
        /\ wire' = Append(wire, k)
     \/ /\ worker' = [worker EXCEPT ![k] = "failed"]
        /\ UNCHANGED wire
  /\ UNCHANGED <<closed, peerClosed, started, bound, pc, kind, cancelled>>

\* Mutant of CancelTask: a terminal reply does not shield its worker either.
CancelTask_Detaches(k) ==
  /\ pc[k] = "waiting"
  /\ cancelled' = [cancelled EXCEPT ![k] = TRUE]
  /\ pc' = [pc EXCEPT ![k] = "done"]
  /\ UNCHANGED <<closed, peerClosed, started, bound, kind, worker, wire>>

\* Cancellation reaches the task: _send_terminal_reply notes it and goes on
\* waiting, the await of an incremental reply is over.
CancelTask(k) ==
  /\ pc[k] = "waiting"
  /\ cancelled' = [cancelled EXCEPT ![k] = TRUE]
  /\ pc' = [pc EXCEPT ![k] = IF Terminal(k) THEN "waiting" ELSE "done"]
  /\ UNCHANGED <<closed, peerClosed, started, bound, kind, worker, wire>>

\* Mutants of Settle: the flag is reset after success too; the operation is
\* forgotten after failure too; the flag is not reset.
Settle_AlwaysRestores(k) ==
  /\ pc[k] = "waiting"
  /\ worker[k] \in {"ok", "failed"}
  /\ pc' = [pc EXCEPT ![k] = "done"]
  /\ started' = IF Terminal(k) THEN FALSE ELSE started
  /\ bound' = IF Terminal(k) /\ worker[k] = "ok" THEN FALSE ELSE bound
  /\ UNCHANGED <<closed, peerClosed, kind, worker, cancelled, wire>>
Settle_AlwaysForgets(k) ==
  /\ pc[k] = "waiting"
  /\ worker[k] \in {"ok", "failed"}
  /\ pc' = [pc EXCEPT ![k] = "done"]
  /\ started' = IF Terminal(k) /\ worker[k] = "failed" THEN FALSE ELSE started
  /\ bound' = IF Terminal(k) THEN FALSE ELSE bound
  /\ UNCHANGED <<closed, peerClosed, kind, worker, cancelled, wire>>
Settle_NeverRestores(k) ==
  /\ pc[k] = "waiting"
  /\ worker[k] \in {"ok", "failed"}
  /\ pc' = [pc EXCEPT ![k] = "done"]
  /\ bound' = IF Terminal(k) /\ worker[k] = "ok" THEN FALSE ELSE bound
  /\ UNCHANGED <<closed, peerClosed, started, kind, worker, cancelled, wire>>

\* The worker is done and the task resumes: _complete_terminal_reply forgets
\* the operation, _restore_terminal_reply lets the reply be sent again.
Settle(k) ==
  /\ pc[k] = "waiting"
  /\ worker[k] \in {"ok", "failed"}
  /\ pc' = [pc EXCEPT ![k] = "done"]
  /\ started' = IF Terminal(k) /\ worker[k] = "failed" THEN FALSE ELSE started
  /\ bound' = IF Terminal(k) /\ worker[k] = "ok" THEN FALSE ELSE bound
  /\ UNCHANGED <<closed, peerClosed, kind, worker, cancelled, wire>>

\* close of the session clears _operation_frames, and so does the peer's
\* SESSION_CLOSE, after which replies may still be tried.
CloseSession ==
  /\ ~closed
  /\ closed' = TRUE
  /\ bound' = FALSE
  /\ UNCHANGED <<peerClosed, started, pc, kind, worker, cancelled, wire>>

PeerClose ==
  /\ ~closed
  /\ ~peerClosed
  /\ peerClosed' = TRUE
  /\ bound' = FALSE
  /\ UNCHANGED <<closed, started, pc, kind, worker, cancelled, wire>>

Next ==
  \/ \E k \in Tasks :
       \/ BeginReply(k)
       \/ WorkerStart(k)
       \/ WorkerSend(k)
       \/ CancelTask(k)
       \/ Settle(k)
  \/ CloseSession
  \/ PeerClose

Spec == Init /\ [][Next]_vars

(* The executor runs queued work, native calls return, and the event loop
   resumes a task whose worker is done. *)
Fairness == \A k \in Tasks : WF_vars(WorkerStart(k) \/ WorkerSend(k)) /\ WF_vars(Settle(k))

FairSpec == Spec /\ Fairness

-----------------------------------------------------------------------------
TypeOK ==
  /\ closed \in BOOLEAN
  /\ peerClosed \in BOOLEAN
  /\ started \in BOOLEAN
  /\ bound \in BOOLEAN
  /\ pc \in [Tasks -> {"idle", "waiting", "done"}]
  /\ kind \in [Tasks -> TerminalKinds \cup IncrementalKinds]
  /\ worker \in [Tasks -> {"none", "queued", "sending", "ok", "failed"}]
  /\ cancelled \in [Tasks -> BOOLEAN]
  /\ wire \in Seq(Tasks)

\* The places of the terminal replies on the wire.
TerminalsSent == {i \in DOMAIN wire : Terminal(wire[i])}

(* "so the application can still send exactly one terminal result or drop
   reply": however attempts fail, are retried or are cancelled, two terminal
   replies never reach the wire, and after one has, no further reply starts.
   The types of the state are checked with it. *)
OneTerminalReply ==
  /\ TypeOK
  /\ \A i, j \in TerminalsSent : i = j
  /\ TerminalsSent # {} => started

(* "settle in-flight native sends before propagating cancellation": when a
   terminal reply's task is over, cancelled or not, its worker is too. *)
SettledWhenDone ==
  \A k \in Tasks : pc[k] = "done" /\ Terminal(k) => worker[k] \in {"ok", "failed"}

(* "Release Python operation correlation only after one terminal reply succeeds
   or the session closes." *)
CorrelationKept == ~bound => closed \/ peerClosed \/ TerminalsSent # {}

(* A terminal attempt does not block the operation for ever: it is delivered
   and the correlation released, or the operation can be answered again. *)
AttemptEnds == started ~> (~started \/ (TerminalsSent # {} /\ ~bound))

-----------------------------------------------------------------------------
(* The operation implements the abstract promise. *)
Waiting == {k \in Tasks : pc[k] = "waiting" /\ Terminal(k)}
Attempt == IF Waiting = {} THEN NoTask ELSE CHOOSE k \in Waiting : TRUE
Delivered ==
  IF TerminalsSent = {} THEN NoTask ELSE wire[CHOOSE i \in TerminalsSent : TRUE]

Promise == INSTANCE TerminalReply
             WITH Attempts <- Tasks, NoAttempt <- NoTask,
                  attempt <- Attempt, delivered <- Delivered

PromiseKept == Promise!Spec
=============================================================================
