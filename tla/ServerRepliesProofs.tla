------------------------ MODULE ServerRepliesProofs ------------------------
(***************************************************************************)
(* Proofs about ServerReplies for any set of reply tasks: the type         *)
(* invariant, OneTerminalReply, SettledWhenDone, CorrelationKept, and that *)
(* the operation implements the promise of TerminalReply.                  *)
(***************************************************************************)
EXTENDS ServerReplies, TLAPS

\* A terminal reply under way: _begin_reply passed, the worker not settled.
Active(k) == pc[k] = "waiting" /\ Terminal(k)

\* A worker exists exactly for the tasks that passed _begin_reply.
WorkerOfTask == \A k \in Tasks : pc[k] = "idle" <=> worker[k] = "none"

\* The flag admits one terminal reply at a time.
OneActive ==
  /\ \A k \in Tasks : Active(k) => started
  /\ \A j, k \in Tasks : Active(j) /\ Active(k) => j = k

\* A terminal reply on the wire: its worker succeeded, the flag stays up, and
\* no other terminal reply is under way.
SentMeansOk ==
  \A i \in TerminalsSent :
    /\ started
    /\ worker[wire[i]] = "ok"
    /\ \A k \in Tasks : Active(k) => k = wire[i]

\* A terminal reply whose worker succeeded is on the wire.
OkMeansSent ==
  \A k \in Tasks : Terminal(k) /\ worker[k] = "ok" => \E i \in DOMAIN wire : wire[i] = k

SingleTerminal == \A i, j \in TerminalsSent : i = j

IInv ==
  /\ TypeOK
  /\ WorkerOfTask
  /\ OneActive
  /\ SentMeansOk
  /\ OkMeansSent
  /\ SingleTerminal
  /\ SettledWhenDone
  /\ CorrelationKept

-----------------------------------------------------------------------------
(* A fresh operation: nothing was started and nothing is on the wire. *)
LEMMA InitIInv == Init => IInv
<1> SUFFICES ASSUME Init PROVE IInv
  OBVIOUS
<1>1. TypeOK
  <2>1. wire \in Seq(Tasks)
    BY DEF Init
  <2> QED
    BY <2>1 DEF Init, TypeOK
<1>2. TerminalsSent = {}
  BY DEF Init, TerminalsSent
<1>3. \A k \in Tasks : pc[k] = "idle" /\ worker[k] = "none"
  BY DEF Init
<1>4. bound
  BY DEF Init
<1> QED
  BY <1>1, <1>2, <1>3, <1>4 DEF IInv, WorkerOfTask, OneActive, SentMeansOk, OkMeansSent,
     SingleTerminal, SettledWhenDone, CorrelationKept, Active

(* Every handler keeps the types of the reply's state. *)
LEMMA TypeStep ==
  ASSUME TypeOK, [Next]_vars
  PROVE  TypeOK'
<1>1. ASSUME NEW k \in Tasks, BeginReply(k) PROVE TypeOK'
  BY <1>1 DEF BeginReply, TypeOK, Terminal
<1>2. ASSUME NEW k \in Tasks, WorkerStart(k) PROVE TypeOK'
  BY <1>2 DEF WorkerStart, TypeOK
<1>3. ASSUME NEW k \in Tasks, WorkerSend(k) PROVE TypeOK'
  <2>1. wire' \in Seq(Tasks)
    BY <1>3, SMTT(30) DEF WorkerSend, TypeOK
  <2>2. worker' \in [Tasks -> {"none", "queued", "sending", "ok", "failed"}]
    BY <1>3 DEF WorkerSend, TypeOK
  <2> QED
    BY <1>3, <2>1, <2>2 DEF WorkerSend, TypeOK
<1>4. ASSUME NEW k \in Tasks, CancelTask(k) PROVE TypeOK'
  BY <1>4 DEF CancelTask, TypeOK
<1>5. ASSUME NEW k \in Tasks, Settle(k) PROVE TypeOK'
  BY <1>5 DEF Settle, TypeOK
<1>6. CASE CloseSession
  BY <1>6 DEF CloseSession, TypeOK
<1>7. CASE PeerClose
  BY <1>7 DEF PeerClose, TypeOK
<1>8. CASE UNCHANGED vars
  BY <1>8 DEF vars, TypeOK
<1> QED
  BY <1>1, <1>2, <1>3, <1>4, <1>5, <1>6, <1>7, <1>8 DEF Next

(* What a step that leaves kind and wire alone leaves alone besides. *)
LEMMA SameWire ==
  ASSUME kind' = kind, wire' = wire
  PROVE  /\ TerminalsSent' = TerminalsSent
         /\ \A k : Terminal(k)' = Terminal(k)
  BY DEF TerminalsSent, Terminal

(* No terminal reply is on the wire while the flag is down. *)
LEMMA NothingSent ==
  ASSUME SentMeansOk, ~started
  PROVE  TerminalsSent = {}
  BY DEF SentMeansOk

(* A terminal reply whose worker has not finished is still under way: its task
   never leaves before it. *)
LEMMA UnsettledIsActive ==
  ASSUME TypeOK, WorkerOfTask, SettledWhenDone,
         NEW k \in Tasks, Terminal(k), worker[k] \in {"queued", "sending"}
  PROVE  Active(k)
  BY DEF TypeOK, WorkerOfTask, SettledWhenDone, Active

(* _begin_reply admits a terminal reply only when none is under way or sent. *)
LEMMA BeginReplyStep ==
  ASSUME IInv, TypeOK', NEW k \in Tasks, BeginReply(k)
  PROVE  IInv'
<1>1. TerminalsSent = {}
  BY NothingSent DEF IInv, BeginReply
<1>2. /\ TerminalsSent' = TerminalsSent
      /\ \A j : Terminal(j)' = Terminal(j)
  BY SameWire DEF BeginReply
<1>3. \A j \in Tasks : ~Active(j)
  BY DEF IInv, OneActive, BeginReply
<1>4. \A j \in Tasks : Active(j)' => j = k
  BY <1>2, <1>3 DEF IInv, TypeOK, BeginReply, Active
<1>5. \A j \in Tasks : Active(j)' => started'
  BY <1>2, <1>4 DEF BeginReply, Active
<1>6. WorkerOfTask'
  BY DEF IInv, TypeOK, WorkerOfTask, BeginReply
<1>7. OkMeansSent'
  BY <1>2 DEF IInv, TypeOK, OkMeansSent, BeginReply
<1>8. SettledWhenDone'
  BY <1>2 DEF IInv, TypeOK, SettledWhenDone, BeginReply
<1>9. CorrelationKept'
  BY <1>2 DEF IInv, CorrelationKept, BeginReply
<1> QED
  BY <1>1, <1>2, <1>4, <1>5, <1>6, <1>7, <1>8, <1>9
     DEF IInv, OneActive, SentMeansOk, SingleTerminal

(* The worker's _ensure_open: a reply that had no worker result yet gets none. *)
LEMMA WorkerStartStep ==
  ASSUME IInv, TypeOK', NEW k \in Tasks, WorkerStart(k)
  PROVE  IInv'
<1>1. /\ TerminalsSent' = TerminalsSent
      /\ \A j : Terminal(j)' = Terminal(j)
  BY SameWire DEF WorkerStart
<1>2. \A j \in Tasks : Active(j)' = Active(j)
  BY <1>1 DEF WorkerStart, Active
<1>3. WorkerOfTask'
  BY DEF IInv, TypeOK, WorkerOfTask, WorkerStart
<1>4. OneActive'
  BY <1>2 DEF IInv, OneActive, WorkerStart
<1>5. SentMeansOk'
  <2> SUFFICES ASSUME NEW i \in TerminalsSent'
               PROVE  /\ started'
                      /\ worker'[wire'[i]] = "ok"
                      /\ \A j \in Tasks : Active(j)' => j = wire'[i]
    BY DEF SentMeansOk
  <2>1. /\ started /\ worker[wire[i]] = "ok"
        /\ \A j \in Tasks : Active(j) => j = wire[i]
    BY <1>1 DEF IInv, SentMeansOk
  <2> QED
    BY <2>1, <1>2 DEF IInv, TypeOK, WorkerStart
<1>6. OkMeansSent'
  BY <1>1 DEF IInv, TypeOK, OkMeansSent, WorkerStart
<1>7. SettledWhenDone'
  BY <1>1 DEF IInv, TypeOK, SettledWhenDone, WorkerStart
<1>8. CorrelationKept'
  BY <1>1 DEF IInv, CorrelationKept, WorkerStart
<1> QED
  BY <1>1, <1>3, <1>4, <1>5, <1>6, <1>7, <1>8 DEF IInv, SingleTerminal

(* What an append leaves of the wire. *)
LEMMA AppendedWire ==
  ASSUME TypeOK, NEW k \in Tasks, kind' = kind, wire' = Append(wire, k)
  PROVE  /\ \A j : Terminal(j)' = Terminal(j)
         /\ DOMAIN wire' = DOMAIN wire \cup {Len(wire) + 1}
         /\ Len(wire) + 1 \notin DOMAIN wire
         /\ \A i \in DOMAIN wire : wire'[i] = wire[i]
         /\ wire'[Len(wire) + 1] = k
         /\ TerminalsSent' =
              TerminalsSent \cup (IF Terminal(k) THEN {Len(wire) + 1} ELSE {})
<1>1. \A j : Terminal(j)' = Terminal(j)
  BY DEF Terminal
<1>2. /\ DOMAIN wire' = DOMAIN wire \cup {Len(wire) + 1}
      /\ Len(wire) + 1 \notin DOMAIN wire
      /\ \A i \in DOMAIN wire : wire'[i] = wire[i]
      /\ wire'[Len(wire) + 1] = k
  BY DEF TypeOK
<1>3. TerminalsSent' = {i \in DOMAIN wire' : kind[wire'[i]] \in TerminalKinds}
  BY DEF TerminalsSent, Terminal
<1> QED
  BY <1>1, <1>2, <1>3 DEF TerminalsSent, Terminal

(* The native call: a terminal reply that gets through finds the wire without
   one, because a second one would have to be under way at the same time. *)
LEMMA WorkerSendStep ==
  ASSUME IInv, TypeOK', NEW k \in Tasks, WorkerSend(k)
  PROVE  IInv'
<1>a. \A j : Terminal(j)' = Terminal(j)
  BY DEF WorkerSend, Terminal
<1>b. \A j \in Tasks : Active(j)' = Active(j)
  BY <1>a DEF WorkerSend, Active
<1>1. WorkerOfTask'
  BY DEF IInv, TypeOK, WorkerOfTask, WorkerSend
<1>2. OneActive'
  BY <1>b DEF IInv, OneActive, WorkerSend
<1>3. SettledWhenDone'
  BY <1>a DEF IInv, TypeOK, SettledWhenDone, WorkerSend
<1>4. CASE wire' = wire
  <2>1. TerminalsSent' = TerminalsSent
    BY <1>4, SameWire DEF WorkerSend
  <2>2. worker' = [worker EXCEPT ![k] = "failed"]
    <3> SUFFICES wire # Append(wire, k)
      BY <1>4 DEF WorkerSend
    <3> QED
      BY DEF IInv, TypeOK
  <2>3. SentMeansOk'
    BY <1>4, <1>b, <2>1, <2>2 DEF IInv, TypeOK, SentMeansOk, WorkerSend, TerminalsSent
  <2>4. OkMeansSent'
    BY <1>4, <1>a, <2>2 DEF IInv, TypeOK, OkMeansSent
  <2>5. CorrelationKept'
    BY <2>1 DEF IInv, CorrelationKept, WorkerSend
  <2> QED
    BY <1>1, <1>2, <1>3, <2>1, <2>3, <2>4, <2>5 DEF IInv, SingleTerminal
<1>5. CASE wire' = Append(wire, k) /\ worker' = [worker EXCEPT ![k] = "ok"]
  <2>1. /\ DOMAIN wire' = DOMAIN wire \cup {Len(wire) + 1}
        /\ \A i \in DOMAIN wire : wire'[i] = wire[i]
        /\ wire'[Len(wire) + 1] = k
        /\ TerminalsSent' = TerminalsSent \cup (IF Terminal(k) THEN {Len(wire) + 1} ELSE {})
    BY <1>5, AppendedWire DEF IInv, WorkerSend
  <2>2. OkMeansSent'
    BY <1>5, <1>a, <2>1 DEF IInv, TypeOK, OkMeansSent
  <2>3. CorrelationKept'
    BY <2>1 DEF IInv, CorrelationKept, WorkerSend
  <2>4. CASE ~Terminal(k)
    <3>1. TerminalsSent' = TerminalsSent
      BY <2>1, <2>4
    <3>2. \A i \in TerminalsSent : i \in DOMAIN wire /\ wire[i] \in Tasks /\ wire[i] # k
      BY <2>4 DEF TerminalsSent, IInv, TypeOK
    <3>3. SentMeansOk'
      BY <1>5, <1>b, <2>1, <3>1, <3>2 DEF IInv, TypeOK, SentMeansOk, WorkerSend
    <3> QED
      BY <1>1, <1>2, <1>3, <2>2, <2>3, <3>1, <3>3 DEF IInv, SingleTerminal
  <2>5. CASE Terminal(k)
    <3>1. Active(k)
      BY <2>5, UnsettledIsActive DEF IInv, WorkerSend
    <3>2. TerminalsSent = {}
      BY <3>1 DEF IInv, SentMeansOk, WorkerSend
    <3>3. TerminalsSent' = {Len(wire) + 1}
      BY <2>1, <2>5, <3>2
    <3>4. SentMeansOk'
      BY <1>5, <1>b, <2>1, <3>1, <3>3 DEF IInv, TypeOK, OneActive, SentMeansOk, WorkerSend
    <3> QED
      BY <1>1, <1>2, <1>3, <2>2, <2>3, <3>3, <3>4 DEF IInv, SingleTerminal
  <2> QED
    BY <2>4, <2>5
<1> QED
  BY <1>4, <1>5 DEF WorkerSend

(* Cancellation does not end a terminal reply, and an incremental one is not
   counted. *)
LEMMA CancelTaskStep ==
  ASSUME IInv, TypeOK', NEW k \in Tasks, CancelTask(k)
  PROVE  IInv'
<1>1. /\ TerminalsSent' = TerminalsSent
      /\ \A j : Terminal(j)' = Terminal(j)
  BY SameWire DEF CancelTask
<1>2. \A j \in Tasks : Active(j)' = Active(j)
  BY <1>1 DEF IInv, TypeOK, CancelTask, Active
<1>3. WorkerOfTask'
  BY DEF IInv, TypeOK, WorkerOfTask, CancelTask
<1>4. OneActive'
  BY <1>2 DEF IInv, OneActive, CancelTask
<1>5. SentMeansOk'
  BY <1>1, <1>2 DEF IInv, SentMeansOk, CancelTask
<1>6. OkMeansSent'
  BY <1>1 DEF IInv, OkMeansSent, CancelTask
<1>7. SettledWhenDone'
  BY <1>1 DEF IInv, TypeOK, SettledWhenDone, CancelTask
<1>8. CorrelationKept'
  BY <1>1 DEF IInv, CorrelationKept, CancelTask
<1> QED
  BY <1>1, <1>3, <1>4, <1>5, <1>6, <1>7, <1>8 DEF IInv, SingleTerminal

(* The task resumes: the flag comes down only when this reply's worker failed,
   and then no terminal reply is on the wire; the binding goes only when it
   succeeded, and then one is. *)
LEMMA SettleStep ==
  ASSUME IInv, TypeOK', NEW k \in Tasks, Settle(k)
  PROVE  IInv'
<1>1. /\ TerminalsSent' = TerminalsSent
      /\ \A j : Terminal(j)' = Terminal(j)
  BY SameWire DEF Settle
<1>2. \A j \in Tasks : Active(j)' <=> Active(j) /\ j # k
  BY <1>1 DEF IInv, TypeOK, Settle, Active
<1>3. Terminal(k) /\ worker[k] = "failed" => TerminalsSent = {}
  <2> SUFFICES ASSUME Terminal(k), worker[k] = "failed", NEW i \in TerminalsSent
               PROVE  FALSE
    OBVIOUS
  <2>1. Active(k)
    BY DEF Settle, Active
  <2>2. worker[wire[i]] = "ok" /\ k = wire[i]
    BY <2>1 DEF IInv, SentMeansOk
  <2> QED
    BY <2>2
<1>4. Terminal(k) /\ worker[k] = "ok" => TerminalsSent # {}
  BY DEF IInv, OkMeansSent, TerminalsSent
<1>5. WorkerOfTask'
  BY DEF IInv, TypeOK, WorkerOfTask, Settle
<1>6. OneActive'
  BY <1>2 DEF IInv, OneActive, Settle, Active
<1>7. SentMeansOk'
  BY <1>1, <1>2, <1>3 DEF IInv, SentMeansOk, Settle
<1>8. OkMeansSent'
  BY <1>1 DEF IInv, OkMeansSent, Settle
<1>9. SettledWhenDone'
  BY <1>1 DEF IInv, TypeOK, SettledWhenDone, Settle
<1>10. CorrelationKept'
  BY <1>1, <1>4 DEF IInv, CorrelationKept, Settle
<1> QED
  BY <1>1, <1>5, <1>6, <1>7, <1>8, <1>9, <1>10 DEF IInv, SingleTerminal

(* A close, from either side, releases the correlation and touches no reply. *)
LEMMA CloseStep ==
  ASSUME IInv, TypeOK', CloseSession \/ PeerClose \/ UNCHANGED vars
  PROVE  IInv'
<1>1. UNCHANGED <<started, pc, kind, worker, wire>>
  BY DEF CloseSession, PeerClose, vars
<1>2. /\ TerminalsSent' = TerminalsSent
      /\ \A j : Terminal(j)' = Terminal(j)
  BY <1>1, SameWire
<1>3. \A j \in Tasks : Active(j)' = Active(j)
  BY <1>1, <1>2 DEF Active
<1>4. CorrelationKept'
  BY <1>2 DEF IInv, CorrelationKept, CloseSession, PeerClose, vars
<1>5. WorkerOfTask' /\ OkMeansSent' /\ SettledWhenDone'
  BY <1>1, <1>2 DEF IInv, WorkerOfTask, OkMeansSent, SettledWhenDone
<1>6. OneActive' /\ SentMeansOk' /\ SingleTerminal'
  BY <1>1, <1>2, <1>3 DEF IInv, OneActive, SentMeansOk, SingleTerminal
<1> QED
  BY <1>4, <1>5, <1>6 DEF IInv

(* The invariant is inductive. *)
LEMMA NextIInv == IInv /\ [Next]_vars => IInv'
<1> SUFFICES ASSUME IInv, [Next]_vars PROVE IInv'
  OBVIOUS
<1>1. TypeOK'
  BY TypeStep DEF IInv
<1>2. CASE \E k \in Tasks : BeginReply(k) \/ WorkerStart(k) \/ WorkerSend(k)
                             \/ CancelTask(k) \/ Settle(k)
  BY <1>1, <1>2, BeginReplyStep, WorkerStartStep, WorkerSendStep, CancelTaskStep, SettleStep
<1>3. CASE CloseSession \/ PeerClose \/ UNCHANGED vars
  BY <1>1, <1>3, CloseStep
<1> QED
  BY <1>2, <1>3 DEF Next

-----------------------------------------------------------------------------
(* The strengthened invariant holds in every reachable state. *)
THEOREM Invariance == Spec => []IInv
  BY InitIInv, NextIInv, PTL DEF Spec

(* The state of an operation and its replies keeps its types. *)
THEOREM TypeCorrect == Spec => []TypeOK
<1>1. IInv => TypeOK
  BY DEF IInv
<1> QED
  BY Invariance, <1>1, PTL

(* However many replies are tried, fail, are retried or are cancelled, at most
   one terminal reply reaches the wire, and it closes the operation to others
   (_begin_reply, _send_terminal_reply). *)
THEOREM ExactlyOneTerminal == Spec => []OneTerminalReply
<1>1. IInv => OneTerminalReply
  BY DEF IInv, OneTerminalReply, SingleTerminal, SentMeansOk
<1> QED
  BY Invariance, <1>1, PTL

(* A terminal reply's call never returns before its native send is over. *)
THEOREM CancellationSettles == Spec => []SettledWhenDone
<1>1. IInv => SettledWhenDone
  BY DEF IInv
<1> QED
  BY Invariance, <1>1, PTL

(* _complete_terminal_reply runs only after the reply got through. *)
THEOREM CorrelationSafe == Spec => []CorrelationKept
<1>1. IInv => CorrelationKept
  BY DEF IInv
<1> QED
  BY Invariance, <1>1, PTL

-----------------------------------------------------------------------------
(* The refinement mapping, read off the invariant: the attempt is the one
   terminal reply under way, what is delivered is the one on the wire. *)
LEMMA AttemptIs ==
  ASSUME OneActive
  PROVE  /\ \A k \in Tasks : Active(k) => Attempt = k
         /\ (\A k \in Tasks : ~Active(k)) => Attempt = NoTask
<1>1. Waiting = {k \in Tasks : Active(k)}
  BY DEF Waiting, Active
<1>2. ASSUME NEW k \in Tasks, Active(k) PROVE Attempt = k
  <2>1. Waiting = {k}
    BY <1>1, <1>2 DEF OneActive
  <2> QED
    BY <2>1 DEF Attempt
<1> QED
  BY <1>1, <1>2 DEF Attempt

\* What is delivered is the one terminal reply on the wire, if there is one.
LEMMA DeliveredIs ==
  ASSUME SingleTerminal
  PROVE  /\ \A i \in TerminalsSent : Delivered = wire[i]
         /\ TerminalsSent = {} => Delivered = NoTask
<1>1. ASSUME NEW i \in TerminalsSent PROVE Delivered = wire[i]
  <2>1. (CHOOSE j \in TerminalsSent : TRUE) = i
    BY <1>1 DEF SingleTerminal
  <2> QED
    BY <1>1, <2>1 DEF Delivered
<1> QED
  BY <1>1 DEF Delivered

\* The step of the abstract promise that each concrete step is.
PromiseStep == Promise!Next \/ UNCHANGED <<Attempt, Delivered>>

(* A step that changes neither the terminal replies under way nor the wire is
   no step of the promise. *)
LEMMA StutterStep ==
  ASSUME UNCHANGED <<kind, wire>>, \A j \in Tasks : Active(j)' = Active(j)
  PROVE  PromiseStep
<1>1. Waiting' = Waiting
  BY DEF Waiting, Active
<1>2. TerminalsSent' = TerminalsSent
  BY SameWire
<1> QED
  BY <1>1, <1>2 DEF PromiseStep, Attempt, Delivered

(* _begin_reply of a terminal reply starts an attempt. *)
LEMMA BeginReplyMaps ==
  ASSUME IInv, NEW k \in Tasks, BeginReply(k)
  PROVE  PromiseStep
<1>1. \A j : Terminal(j)' = Terminal(j)
  BY DEF BeginReply, Terminal
<1>2. \A j \in Tasks : ~Active(j)
  BY DEF IInv, OneActive, BeginReply
<1>3. CASE ~Terminal(k)
  <2>1. \A j \in Tasks : Active(j)' = Active(j)
    BY <1>1, <1>3 DEF IInv, TypeOK, BeginReply, Active
  <2> QED
    BY <2>1, StutterStep DEF BeginReply
<1>4. CASE Terminal(k)
  <2>1. Waiting' = {k}
    BY <1>1, <1>2, <1>4 DEF IInv, TypeOK, BeginReply, Active, Waiting
  <2>2. Attempt' = k
    BY <2>1 DEF Attempt
  <2>3. Attempt = NoTask
    BY <1>2, AttemptIs DEF IInv
  <2>4. TerminalsSent = {} /\ TerminalsSent' = {}
    BY NothingSent, SameWire DEF IInv, BeginReply
  <2>5. Delivered = NoTask /\ Delivered' = NoTask
    BY <2>4 DEF Delivered
  <2> QED
    BY <2>2, <2>3, <2>5 DEF PromiseStep, Promise!Next, Promise!Start
<1> QED
  BY <1>3, <1>4

(* A terminal reply that gets through delivers the attempt under way. *)
LEMMA WorkerSendMaps ==
  ASSUME IInv, NEW k \in Tasks, WorkerSend(k)
  PROVE  PromiseStep
<1>1. \A j \in Tasks : Active(j)' = Active(j)
  BY DEF WorkerSend, Active, Terminal
<1>2. CASE wire' = wire
  BY <1>1, <1>2, StutterStep DEF WorkerSend
<1>3. CASE wire' = Append(wire, k)
  <2>1. /\ wire'[Len(wire) + 1] = k
        /\ \A i \in DOMAIN wire : wire'[i] = wire[i]
        /\ TerminalsSent' = TerminalsSent \cup (IF Terminal(k) THEN {Len(wire) + 1} ELSE {})
    BY <1>3, AppendedWire DEF IInv, WorkerSend
  <2>2. Attempt' = Attempt
    <3>1. Waiting' = Waiting
      BY <1>1 DEF Waiting, Active
    <3> QED
      BY <3>1 DEF Attempt
  <2>3. CASE ~Terminal(k)
    <3>1. TerminalsSent' = TerminalsSent /\ TerminalsSent \subseteq DOMAIN wire
      BY <2>1, <2>3 DEF TerminalsSent
    <3>2. Delivered' = Delivered
      BY <2>1, <3>1 DEF Delivered
    <3> QED
      BY <2>2, <3>2 DEF PromiseStep
  <2>4. CASE Terminal(k)
    <3>1. Active(k)
      BY <2>4, UnsettledIsActive DEF IInv, WorkerSend
    <3>2. TerminalsSent = {}
      BY <3>1 DEF IInv, SentMeansOk, WorkerSend
    <3>3. TerminalsSent' = {Len(wire) + 1}
      BY <2>1, <2>4, <3>2
    <3>4. Delivered = NoTask /\ Delivered' = k
      BY <2>1, <3>2, <3>3 DEF Delivered
    <3>5. Attempt = k /\ k # NoTask
      BY <3>1, AttemptIs, TasksAssumption DEF IInv
    <3> QED
      BY <2>2, <3>4, <3>5 DEF PromiseStep, Promise!Next, Promise!Deliver
  <2> QED
    BY <2>3, <2>4
<1> QED
  BY <1>2, <1>3 DEF WorkerSend

(* A terminal reply that settles ends its attempt. *)
LEMMA SettleMaps ==
  ASSUME IInv, NEW k \in Tasks, Settle(k)
  PROVE  PromiseStep
<1>1. \A j : Terminal(j)' = Terminal(j)
  BY DEF Settle, Terminal
<1>2. CASE ~Terminal(k)
  <2>1. \A j \in Tasks : Active(j)' = Active(j)
    BY <1>1, <1>2 DEF IInv, TypeOK, Settle, Active
  <2> QED
    BY <2>1, StutterStep DEF Settle
<1>3. CASE Terminal(k)
  <2>1. Active(k)
    BY <1>3 DEF Settle, Active
  <2>2. Attempt = k /\ k # NoTask
    BY <2>1, AttemptIs, TasksAssumption DEF IInv
  <2>3. Waiting' = {}
    BY <1>1, <2>1 DEF IInv, TypeOK, OneActive, Active, Settle, Waiting
  <2>4. Attempt' = NoTask
    BY <2>3 DEF Attempt
  <2>5. Delivered' = Delivered
    BY SameWire DEF Settle, Delivered
  <2> QED
    BY <2>2, <2>4, <2>5 DEF PromiseStep, Promise!Next, Promise!Stop
<1> QED
  BY <1>2, <1>3

(* Every step of the operation is a step of the promise or leaves it alone. *)
LEMMA NextMaps ==
  ASSUME IInv, [Next]_vars
  PROVE  PromiseStep
<1>1. ASSUME NEW k \in Tasks, WorkerStart(k) PROVE PromiseStep
  <2>1. \A j \in Tasks : Active(j)' = Active(j)
    BY <1>1 DEF WorkerStart, Active, Terminal
  <2> QED
    BY <1>1, <2>1, StutterStep DEF WorkerStart
<1>2. ASSUME NEW k \in Tasks, CancelTask(k) PROVE PromiseStep
  <2>1. \A j \in Tasks : Active(j)' = Active(j)
    BY <1>2 DEF IInv, TypeOK, CancelTask, Active, Terminal
  <2> QED
    BY <1>2, <2>1, StutterStep DEF CancelTask
<1>3. CASE CloseSession \/ PeerClose \/ UNCHANGED vars
  <2>1. UNCHANGED <<pc, kind, wire>>
    BY <1>3 DEF CloseSession, PeerClose, vars
  <2>2. \A j \in Tasks : Active(j)' = Active(j)
    BY <2>1 DEF Active, Terminal
  <2> QED
    BY <2>1, <2>2, StutterStep
<1> QED
  BY <1>1, <1>2, <1>3, BeginReplyMaps, WorkerSendMaps, SettleMaps DEF Next

(* NativeRuntimeServerOperation implements the promise of module TerminalReply:
   attempts do not overlap, and at most one terminal reply is delivered. *)
THEOREM Refinement == Spec => PromiseKept
<1>1. Init => Promise!Init
  <2> SUFFICES ASSUME Init PROVE Promise!Init
    OBVIOUS
  <2>1. Waiting = {} /\ TerminalsSent = {}
    BY DEF Init, Waiting, TerminalsSent
  <2> QED
    BY <2>1 DEF Promise!Init, Attempt, Delivered
<1>2. IInv /\ [Next]_vars => [Promise!Next]_<<Attempt, Delivered>>
  BY NextMaps DEF PromiseStep
<1> QED
  BY <1>1, <1>2, Invariance, PTL DEF Spec, PromiseKept, Promise!Spec
=============================================================================
