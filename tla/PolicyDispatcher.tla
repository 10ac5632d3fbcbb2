--------------------------- MODULE PolicyDispatcher ------------------------
(***************************************************************************)
(* _NativeServerPolicyDispatcher of src/nnrp/native.py: the native runtime *)
(* asks, on a thread of its own, whether a session may be opened; the      *)
(* question is answered by a pool of workers, each answer is handed to the *)
(* native runtime, and close waits for all of them and raises the first    *)
(* error of any.  There is one dispatcher per bound server.                *)
(***************************************************************************)
EXTENDS Naturals, FiniteSets

CONSTANTS
  Servers,   \* the bound servers, one per transport: 1..n
  Requests   \* the policy requests of the native runtime: records with their server

ASSUME RequestAssumption == \A r \in Requests : r.server \in Servers

VARIABLES
  dispatcherClosed, \* _closed, per dispatcher
  futures,          \* _futures
  firstError,       \* _first_error is set
  worker,           \* the future of a request: "none", "pending", "ok", "error"
  callback,         \* its done callback: "none", "missing", "added", "run"
  refused           \* requests answered with FFI_STATUS_CALLBACK_REJECTED

policyVars == <<dispatcherClosed, futures, firstError, worker, callback, refused>>

PolicyInit ==
  /\ dispatcherClosed = [i \in Servers |-> FALSE]
  /\ futures = [i \in Servers |-> {}]
  /\ firstError = [i \in Servers |-> FALSE]
  /\ worker = [r \in Requests |-> "none"]
  /\ callback = [r \in Requests |-> "none"]
  /\ refused = {}

Done(r) == worker[r] \in {"ok", "error"}

\* _begin, under _lock: refused once closed, else submitted and counted.
PolicyBegin(r) ==
  /\ worker[r] = "none" /\ r \notin refused
  /\ \/ /\ dispatcherClosed[r.server]
        /\ refused' = refused \cup {r}
        /\ UNCHANGED <<worker, callback, futures>>
     \/ /\ ~dispatcherClosed[r.server]
        /\ worker' = [worker EXCEPT ![r] = "pending"]
        /\ callback' = [callback EXCEPT ![r] = "missing"]
        /\ futures' = [futures EXCEPT ![r.server] = @ \cup {r}]
        /\ UNCHANGED refused
  /\ UNCHANGED <<dispatcherClosed, firstError>>

\* _evaluate_and_complete: an application policy that raises is a refusal; the
\* future only fails when the native runtime does not take the answer.
PolicyEvaluate(r) ==
  /\ worker[r] = "pending"
  /\ \E outcome \in {"ok", "error"} : worker' = [worker EXCEPT ![r] = outcome]
  /\ UNCHANGED <<dispatcherClosed, futures, firstError, callback, refused>>

\* _on_complete, under _lock.
OnComplete(r) ==
  /\ callback' = [callback EXCEPT ![r] = "run"]
  /\ futures' = [futures EXCEPT ![r.server] = @ \ {r}]
  /\ firstError' = [firstError EXCEPT ![r.server] = @ \/ worker[r] = "error"]

\* future.add_done_callback, after the lock: runs it at once on a future that is done.
PolicyAddCallback(r) ==
  /\ callback[r] = "missing"
  /\ \/ Done(r) /\ OnComplete(r)
     \/ /\ ~Done(r) /\ callback' = [callback EXCEPT ![r] = "added"]
        /\ UNCHANGED <<futures, firstError>>
  /\ UNCHANGED <<dispatcherClosed, worker, refused>>

\* The worker runs the callback before it is free.
PolicyCallback(r) ==
  /\ callback[r] = "added" /\ Done(r)
  /\ OnComplete(r)
  /\ UNCHANGED <<dispatcherClosed, worker, refused>>

PolicyStep(r) == PolicyEvaluate(r) \/ PolicyAddCallback(r) \/ PolicyCallback(r)

-----------------------------------------------------------------------------
(* close, in the steps its caller takes. *)

\* Under _lock: closed, and the futures not finished yet.
DispatcherMark(i) ==
  /\ dispatcherClosed' = [dispatcherClosed EXCEPT ![i] = TRUE]
  /\ UNCHANGED <<futures, firstError, worker, callback, refused>>

\* _executor.shutdown(wait=True): every worker is done with its future.
WorkersIdle(i) ==
  \A r \in Requests : r.server = i /\ worker[r] # "none" => Done(r) /\ callback[r] # "added"

\* Mutant of FinalError: only what the callbacks have recorded.
FinalError_Recorded(i, snapshot) == firstError[i]

\* The error close raises, from the callbacks and from the futures it saw.
FinalError(i, snapshot) == firstError[i] \/ \E r \in snapshot : worker[r] = "error"

PolicyTypeOK ==
  /\ dispatcherClosed \in [Servers -> BOOLEAN] /\ firstError \in [Servers -> BOOLEAN]
  /\ futures \in [Servers -> SUBSET Requests]
  /\ worker \in [Requests -> {"none", "pending", "ok", "error"}]
  /\ callback \in [Requests -> {"none", "missing", "added", "run"}]
  /\ refused \subseteq Requests
=============================================================================
