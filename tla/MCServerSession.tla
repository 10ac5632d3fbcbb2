-------------------------- MODULE MCServerSession --------------------------
(* Small instances of ServerSession for TLC. *)
EXTENDS ServerSession

CONSTANTS t1, t2, o1, o2

\* Every receiving call, with a deadline.
TimedCalls ==
  {[fn |-> f, max |-> 1, timed |-> TRUE] : f \in {"next", "receive_submit", "frames"}}
  \cup {[fn |-> "poll", max |-> 2, timed |-> TRUE]}

SubmitCalls == {[fn |-> "receive_submit", max |-> 1, timed |-> TRUE]}
=============================================================================
