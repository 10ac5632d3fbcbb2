--------------------------- MODULE TerminalReply ---------------------------
(***************************************************************************)
(* What a server operation promises about its terminal reply: attempts do  *)
(* not overlap, a failed attempt may be repeated, and at most one result   *)
(* or drop is ever delivered.                                              *)
(***************************************************************************)
CONSTANTS Attempts, NoAttempt

VARIABLES
  attempt,   \* the attempt under way
  delivered  \* the attempt whose reply was delivered

Init == attempt = NoAttempt /\ delivered = NoAttempt

Start(a) ==
  /\ attempt = NoAttempt
  /\ delivered = NoAttempt
  /\ attempt' = a
  /\ UNCHANGED delivered

Deliver ==
  /\ attempt # NoAttempt
  /\ delivered = NoAttempt
  /\ delivered' = attempt
  /\ UNCHANGED attempt

\* Over, delivered or not.
Stop ==
  /\ attempt # NoAttempt
  /\ attempt' = NoAttempt
  /\ UNCHANGED delivered

Next == (\E a \in Attempts : Start(a)) \/ Deliver \/ Stop

Spec == Init /\ [][Next]_<<attempt, delivered>>
=============================================================================
