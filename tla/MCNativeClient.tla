-------------------------- MODULE MCNativeClient ---------------------------
(* A small connection for TLC. *)
EXTENDS NativeClient

\* Two sessions that use the same ids.
MCOps == {[session |-> 1, id |-> 1, frame |-> 7], [session |-> 2, id |-> 1, frame |-> 7]}

\* The first operation is cancelled, as a whole or by its id, and other frame ids of its
\* session, which push it out.
MCCancels == {[op |-> [session |-> 1, id |-> 1, frame |-> 7], how |-> <<"frame", "operation">>],
              [op |-> [session |-> 1, id |-> 1, frame |-> 0], how |-> <<"operation">>]} \cup
             {[op |-> [session |-> 1, id |-> 0, frame |-> f], how |-> <<"frame">>] : f \in 8..10}

Cancelled(f) ==
  (\E i \in DOMAIN log : log[i].value = f) \/ (\E t \in Threads : pc[t] = "insert" /\ arg[t].frame = f)

\* Bounds on what begins: two identities are remembered while sessions come and go, and
\* more of them, up to MaxCancels, on the first session alone, in a connection that stays
\* open; the other frame ids are used in order, since nothing tells them apart.
Bounded ==
  /\ Underway > 2 => sessions = <<1>> /\ queue = <<>> /\ job = NoJob /\ closeLock = NoThread
  /\ \A f \in 9..10 : Cancelled(f) => Cancelled(f - 1)

MCNext ==
  \/ RoleStep
  \/ \E t \in Threads : (Begins(t) /\ Bounded') \/ CallerStep(t)
  \/ \E o \in Ops : Submit(o)
  \/ \E s \in Sessions : CloseSession(s)

MCSpec == Init /\ [][MCNext]_vars /\ Fairness
=============================================================================
