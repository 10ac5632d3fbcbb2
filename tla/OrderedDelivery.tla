-------------------------- MODULE OrderedDelivery --------------------------
(***************************************************************************)
(* What a queue per key promises: what is consumed under a key is what was *)
(* produced under it, in order, each item at most once.  Production may    *)
(* stop, and consumption may stay behind it for ever.                      *)
(***************************************************************************)
EXTENDS Naturals, Sequences

CONSTANTS Keys, Items

VARIABLES
  produced,  \* per key, the items produced, in order
  consumed   \* per key, the items consumed, in order

Init == produced = [k \in Keys |-> <<>>] /\ consumed = [k \in Keys |-> <<>>]

Produce(k, x) ==
  /\ produced' = [produced EXCEPT ![k] = Append(@, x)]
  /\ UNCHANGED consumed

Consume(k) ==
  /\ Len(consumed[k]) < Len(produced[k])
  /\ consumed' = [consumed EXCEPT ![k] = Append(@, produced[k][Len(@) + 1])]
  /\ UNCHANGED produced

Next == \E k \in Keys : Consume(k) \/ \E x \in Items : Produce(k, x)

Spec == Init /\ [][Next]_<<produced, consumed>>
=============================================================================
