---------------------------- MODULE MCAsyncCalls ----------------------------
(***************************************************************************)
(* Small instances, for TLC, of the two kinds of calls that leave an       *)
(* asyncio task and an executor's worker running side by side: the replies *)
(* to one server operation, and one async submit of the client.  They      *)
(* share nothing, so that a behaviour is one of either.                    *)
(***************************************************************************)
EXTENDS ServerReplies, AsyncSubmit

CONSTANTS k1, k2, k3

VARIABLE checked \* which of the two the behaviour is of

AllOf == <<vars, submitVars, checked>>

CallsInit ==
  /\ Init
  /\ SubmitInit
  /\ checked \in {"replies", "submit"}
  /\ checked = "replies" => mode = "submit"
  /\ checked = "submit" => kind = [k \in Tasks |-> "result"]

CallsNext ==
  \/ checked = "replies" /\ Next /\ UNCHANGED <<submitVars, checked>>
  \/ checked = "submit" /\ SubmitNext /\ UNCHANGED <<vars, checked>>

CallsSpec ==
  /\ CallsInit
  /\ [][CallsNext]_AllOf
  /\ checked = "replies" => Fairness
  /\ checked = "submit" => SubmitFairness
=============================================================================
