---------------------------- MODULE EventQueues ----------------------------
(***************************************************************************)
(* The list handling that the client and the server sessions of native.py  *)
(* share: one pass over the retained events that splits them, in order,    *)
(* into the ones a call takes and the ones it leaves behind, with a limit  *)
(* on how many it takes.  The two halves are described by index sets, so   *)
(* that the definitions are not recursive.                                 *)
(***************************************************************************)
EXTENDS Naturals, Sequences, FiniteSets

(* How many of the indices in I are at most i: the rank of i in I. *)
Rank(I, i) == Cardinality({j \in I : j <= i})

(* The elements of s at the indices in I, in the order of s. *)
At(s, I) == [k \in 1..Cardinality(I) |-> s[CHOOSE i \in I : Rank(I, i) = k]]

(* The first room indices of the set W: `len(selected) < max_events and
   wanted` in the loops over _pending_events. *)
FirstOf(W, room) == {i \in W : Rank(W, i) <= room}

Ids(s) == {s[i].id : i \in DOMAIN s}

\* Where in s the event i is.
Copies(s, i) == {k \in DOMAIN s : s[k].id = i}

\* Positions k named by the thread and the list they are in, for counting over
\* several lists: one, or the lists x[t] of all threads t.
Placed(t, where, ks) == {<<t, where, k>> : k \in ks}
PlacedAll(T, where, x, i) == UNION {Placed(t, where, Copies(x[t], i)) : t \in T}
=============================================================================
