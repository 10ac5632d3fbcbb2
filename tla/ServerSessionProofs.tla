------------------------ MODULE ServerSessionProofs ------------------------
(***************************************************************************)
(* Proofs about the receiving side of the server session: every event is   *)
(* kept once and in order, an accepted submit stays bound, and a call that *)
(* waits removes nothing but what it returns, for any number of threads,   *)
(* calls, operations and events.                                           *)
(***************************************************************************)
EXTENDS ServerSession, EventQueuesProofs

\* What each thread has been given, and holds.
Hands == [t \in Threads |-> seen[t] \o acc[t]]

Accounted == Kept(pendingEvents \o native, Hands, lost, Len(log))

\* A call keeps _poll_lock for as long as it is in the native runtime.
LockHeld == \A t \in Threads : pc[t] = "native" => pollLock = t

\* Only a poll holds events while it is in the native runtime.
OnlyPollsHold == \A t \in Threads : acc[t] # <<>> => pc[t] = "native" /\ ~Waits(call[t])

\* What is still to be received was sent, and every submit names its operation.
QueuedWasSent ==
  /\ Elems(native) \subseteq Elems(log)
  /\ \A e \in Elems(log) : e.kind = "submit" => e.op \in Ops

Settled(o) ==
  \/ o \in bound
  \/ o \in replied
  \/ closed
  \/ \E e \in Elems(log) : e.kind = "session_close"

\* Every submit that left the native queue undisturbed is bound, whether the
\* application has it yet or not.
ConvertedStaysBound ==
  /\ \A e \in Elems(pendingEvents) : e.kind = "submit" => Settled(e.op)
  /\ \A t \in Threads : \A e \in Elems(Hands[t]) : e.kind = "submit" => Settled(e.op)

IInv ==
  /\ TypeOK
  /\ Accounted
  /\ LockHeld
  /\ OnlyPollsHold
  /\ QueuedWasSent
  /\ ConvertedStaysBound

-----------------------------------------------------------------------------
(* The bounds and ids are numbers. *)
LEMMA EventIds ==
  /\ MaxEvents \in Nat /\ MaxCalls \in Nat
  /\ \A e \in Event : e.id \in Nat /\ e.id \in 1 .. MaxEvents
  /\ \A s \in Seq(Event) : Ids(s) \subseteq 1 .. MaxEvents /\ Elems(s) \subseteq Event
<1>1. MaxEvents \in Nat /\ MaxCalls \in Nat
  BY BoundAssumption
<1>2. \A e \in Event : e.id \in Nat /\ e.id \in 1 .. MaxEvents
  BY <1>1 DEF Event
<1>3. ASSUME NEW s \in Seq(Event)
      PROVE  Ids(s) \subseteq 1 .. MaxEvents /\ Elems(s) \subseteq Event
  <2>1. \A j \in DOMAIN s : s[j] \in Event
    BY LenProperties
  <2> QED
    BY <1>2, <2>1 DEF Ids, Elems
<1> QED
  BY <1>1, <1>2, <1>3

(* The pass over a list splits it into what a call takes and what it leaves. *)
LEMMA PassParts ==
  ASSUME NEW s \in Seq(Event), NEW c, NEW n
  PROVE  /\ Taken(s, c, n) \in Seq(Event) /\ Retained(s, c, n) \in Seq(Event)
         /\ Elems(s) = Elems(Taken(s, c, n)) \cup Elems(Retained(s, c, n))
         /\ Ids(s) = Ids(Taken(s, c, n)) \cup Ids(Retained(s, c, n))
         /\ Ordered(s) => /\ Ids(Taken(s, c, n)) \cap Ids(Retained(s, c, n)) = {}
                          /\ Once(Taken(s, c, n)) /\ Ordered(Retained(s, c, n))
<1>1. TakeIdx(s, c, n) \in SUBSET (DOMAIN s)
  BY DEF TakeIdx, FirstOf
<1>2. Ordered(s) => Once(s)
  BY EventIds, OrderedOnce
<1> QED
  BY <1>1, <1>2, PartsOf DEF Taken, Retained

(* The first n events of the native queue and the rest. *)
LEMMA BatchParts ==
  ASSUME TypeOK, NEW n \in 0 .. Len(native)
  PROVE  /\ SubSeq(native, 1, n) \in Seq(Event)
         /\ SubSeq(native, n + 1, Len(native)) \in Seq(Event)
         /\ pendingEvents \o native
              = (pendingEvents \o SubSeq(native, 1, n)) \o SubSeq(native, n + 1, Len(native))
         /\ Elems(native) = Elems(SubSeq(native, 1, n)) \cup Elems(SubSeq(native, n + 1, Len(native)))
<1> DEFINE b == SubSeq(native, 1, n)
           r == SubSeq(native, n + 1, Len(native))
<1>1. pendingEvents \in Seq(Event) /\ native \in Seq(Event)
  BY DEF TypeOK
<1>2. b \in Seq(Event) /\ r \in Seq(Event) /\ native = b \o r
  BY <1>1, SplitAt
<1> HIDE DEF b, r
<1>3. pendingEvents \o (b \o r) = (pendingEvents \o b) \o r
  BY <1>1, <1>2, ConcatAssociative, SMTT(30)
<1>4. Elems(b \o r) = Elems(b) \cup Elems(r)
  BY <1>2, ConcatContents
<1> QED
  BY <1>2, <1>3, <1>4 DEF b, r

(* The part of a bad batch that is converted is part of the batch. *)
LEMMA ConvertedPart ==
  ASSUME NEW batch \in Seq(Event), ~Decodable(batch)
  PROVE  ConvertedBefore(batch) \in Seq(Event) /\ Elems(ConvertedBefore(batch)) \subseteq Elems(batch)
<1> DEFINE malformed == {i \in DOMAIN batch : batch[i].kind = "malformed"}
           bad       == {i \in DOMAIN batch : batch[i].kind \in BadKinds}
           first     == CHOOSE i \in bad : \A j \in bad : i <= j
<1>1. CASE malformed # {}
  <2>1. ConvertedBefore(batch) = <<>>
    BY <1>1 DEF ConvertedBefore
  <2> QED
    BY <2>1, EmptyList
<1>2. CASE malformed = {}
  <2>1. ConvertedBefore(batch) = SubSeq(batch, 1, first - 1)
    BY <1>2 DEF ConvertedBefore
  <2>2. bad \in SUBSET (DOMAIN batch) /\ bad # {}
    BY DEF Decodable
  <2>3. bad \in SUBSET Nat /\ IsFiniteSet(bad)
    BY <2>2, IndexSet
  <2>4. \E i \in bad : \A j \in bad : i <= j
    <3> HIDE DEF bad
    <3> QED
      BY <2>2, <2>3, LeastOf
  <2>5. first \in bad
    <3> HIDE DEF bad
    <3> QED
      BY <2>4
  <2>6. first \in 1 .. Len(batch) /\ Len(batch) \in Nat
    BY <2>2, <2>5, LenProperties
  <2> HIDE DEF first
  <2>7. first - 1 \in 0 .. Len(batch)
    BY <2>6
  <2> DEFINE a == SubSeq(batch, 1, first - 1)
             r == SubSeq(batch, (first - 1) + 1, Len(batch))
  <2>8. a \in Seq(Event) /\ r \in Seq(Event) /\ batch = a \o r
    BY <2>7, SplitAt
  <2> HIDE DEF a, r
  <2>9. Elems(a \o r) = Elems(a) \cup Elems(r)
    BY <2>8, ConcatContents
  <2> QED
    BY <2>1, <2>8, <2>9 DEF a
<1> QED
  BY <1>1, <1>2

(* Converting a batch of the native queue binds its submits and, unless the peer
   closed the session, keeps every other binding. *)
LEMMA BindKeeps ==
  ASSUME TypeOK, QueuedWasSent, NEW batch \in Seq(Event), Elems(batch) \subseteq Elems(native)
  PROVE  /\ BindAfter(batch) \subseteq Ops
         /\ \/ \E e \in Elems(log) : e.kind = "session_close"
            \/ /\ bound \subseteq BindAfter(batch)
               /\ \A e \in Elems(batch) : e.kind = "submit" => e.op \in BindAfter(batch)
<1> DEFINE closes == {i \in DOMAIN batch : batch[i].kind = "session_close"}
<1>1. \A i \in DOMAIN batch : batch[i] \in Elems(log)
  BY DEF QueuedWasSent, Elems
<1>2. bound \subseteq Ops
  BY DEF TypeOK
<1>3. BindAfter(batch) \subseteq Ops
  BY <1>1, <1>2 DEF BindAfter, QueuedWasSent
<1>4. CASE closes # {}
  BY <1>1, <1>3, <1>4
<1>5. CASE closes = {}
  <2>1. bound \subseteq BindAfter(batch)
    BY <1>5 DEF BindAfter
  <2>2. \A i \in DOMAIN batch : batch[i].kind = "submit" => batch[i].op \in BindAfter(batch)
    BY <1>5 DEF BindAfter
  <2> QED
    BY <1>3, <2>1, <2>2 DEF Elems
<1> QED
  BY <1>4, <1>5

-----------------------------------------------------------------------------
(* What a thread has and holds. *)
LEMMA HandParts ==
  ASSUME TypeOK, NEW t \in Threads
  PROVE  /\ seen[t] \in Seq(Event) /\ acc[t] \in Seq(Event)
         /\ Hands[t] = seen[t] \o acc[t] /\ Hands[t] \in Seq(Event)
         /\ Elems(Hands[t]) = Elems(seen[t]) \cup Elems(acc[t])
         /\ Ids(Hands[t]) = Ids(seen[t]) \cup Ids(acc[t])
         /\ acc[t] = <<>> => Hands[t] = seen[t]
<1>1. seen[t] \in Seq(Event) /\ acc[t] \in Seq(Event) /\ Hands[t] = seen[t] \o acc[t]
  BY DEF TypeOK, Hands
<1>2. seen[t] \o acc[t] \in Seq(Event)
  BY <1>1, ConcatShape
<1>3. /\ Elems(seen[t] \o acc[t]) = Elems(seen[t]) \cup Elems(acc[t])
      /\ Ids(seen[t] \o acc[t]) = Ids(seen[t]) \cup Ids(acc[t])
  BY <1>1, ConcatContents
<1>4. seen[t] \o <<>> = seen[t]
  BY <1>1, EmptyList
<1> QED
  BY <1>1, <1>2, <1>3, <1>4

(* The end of a call: the thread has what the call returns, and the lock is free. *)
LEMMA FinishEffect ==
  ASSUME TypeOK, LockHeld, OnlyPollsHold, NEW t \in Threads,
         NEW returns \in Seq(Event), NEW loses \in SUBSET (1 .. MaxEvents),
         Finish(t, returns, loses), pollLock = NoThread \/ pc[t] = "native"
  PROVE  /\ pollLock' \in Threads \cup {NoThread}
         /\ pc' \in [Threads -> {"idle", "lock", "native", "closing"}]
         /\ call' \in [Threads -> Call]
         /\ acc' \in [Threads -> Seq(Event)]
         /\ seen' \in [Threads -> Seq(Event)]
         /\ lost' \subseteq 1 .. MaxEvents
         /\ LockHeld' /\ OnlyPollsHold'
         /\ DOMAIN Hands' = Threads
         /\ Hands'[t] = seen[t] \o returns
         /\ \A u \in Threads \ {t} : Hands'[u] = Hands[u]
<1>1. /\ pc' = [pc EXCEPT ![t] = "idle"] /\ call' = [call EXCEPT ![t] = NoCall]
      /\ acc' = [acc EXCEPT ![t] = <<>>] /\ pollLock' = NoThread
      /\ seen' = [seen EXCEPT ![t] = seen[t] \o returns] /\ lost' = lost \cup loses
  BY DEF Finish
<1>2. seen[t] \in Seq(Event) /\ seen[t] \o returns \in Seq(Event)
  BY HandParts, ConcatShape
<1>3. <<>> \in Seq(Event) /\ (seen[t] \o returns) \o <<>> = seen[t] \o returns
  BY <1>2, EmptyList
<1>4. NoCall \in Call
  BY DEF NoCall, Call, Fns
<1>5. acc' \in [Threads -> Seq(Event)] /\ seen' \in [Threads -> Seq(Event)]
  BY <1>1, <1>2, <1>3 DEF TypeOK
<1>6. pc' \in [Threads -> {"idle", "lock", "native", "closing"}] /\ call' \in [Threads -> Call]
  BY <1>1, <1>4 DEF TypeOK
<1>7. pollLock' \in Threads \cup {NoThread} /\ lost' \subseteq 1 .. MaxEvents
  BY <1>1 DEF TypeOK
<1>8. \A u \in Threads \ {t} : pc'[u] = pc[u] /\ acc'[u] = acc[u] /\ seen'[u] = seen[u] /\ call'[u] = call[u]
  BY <1>1 DEF TypeOK
<1>9. pc'[t] = "idle" /\ acc'[t] = <<>> /\ seen'[t] = seen[t] \o returns
  BY <1>1 DEF TypeOK
<1>10. \A u \in Threads : pc'[u] # "native"
  <2> SUFFICES ASSUME NEW u \in Threads PROVE pc'[u] # "native"
    OBVIOUS
  <2>1. CASE u = t
    BY <1>9, <2>1
  <2>2. CASE u # t
    BY <1>8, <2>2, ThreadsAssumption DEF LockHeld
  <2> QED
    BY <2>1, <2>2
<1>11. LockHeld'
  BY <1>10 DEF LockHeld
<1>12. OnlyPollsHold'
  <2> SUFFICES ASSUME NEW u \in Threads, acc'[u] # <<>> PROVE pc'[u] = "native" /\ ~Waits(call'[u])
    BY DEF OnlyPollsHold
  <2> QED
    BY <1>8, <1>9 DEF OnlyPollsHold
<1>13. DOMAIN Hands' = Threads /\ \A u \in Threads : Hands'[u] = seen'[u] \o acc'[u]
  BY DEF Hands
<1>14. Hands'[t] = seen[t] \o returns
  BY <1>3, <1>9, <1>13
<1>15. \A u \in Threads \ {t} : Hands'[u] = Hands[u]
  BY <1>8, <1>13 DEF Hands
<1> QED
  BY <1>5, <1>6, <1>7, <1>11, <1>12, <1>13, <1>14, <1>15

(* Submits stay bound when bindings are kept and what was converted is bound. *)
LEMMA StaysSettled ==
  ASSUME ConvertedStaysBound, NEW B,
         \A o : Settled(o) => Settled(o)',
         \A e \in B : e.kind = "submit" => Settled(e.op)',
         Elems(pendingEvents)' \subseteq Elems(pendingEvents) \cup B,
         \A u \in Threads : Elems(Hands'[u]) \subseteq Elems(Hands[u]) \cup Elems(pendingEvents) \cup B
  PROVE  ConvertedStaysBound'
<1>1. \A e \in Elems(pendingEvents) : e.kind = "submit" => Settled(e.op)'
  BY DEF ConvertedStaysBound
<1>2. \A u \in Threads : \A e \in Elems(Hands[u]) : e.kind = "submit" => Settled(e.op)'
  BY DEF ConvertedStaysBound
<1>3. \A e \in Elems(pendingEvents)' : e.kind = "submit" => Settled(e.op)'
  BY <1>1
<1>4. \A u \in Threads : \A e \in Elems(Hands'[u]) : e.kind = "submit" => Settled(e.op)'
  BY <1>1, <1>2
<1> QED
  BY <1>3, <1>4 DEF ConvertedStaysBound

(* What converting a batch means for that. *)
LEMMA BatchSettles ==
  ASSUME TypeOK, QueuedWasSent, NEW batch \in Seq(Event), Elems(batch) \subseteq Elems(native),
         bound' = BindAfter(batch), log' = log, replied' = replied, closed' = closed
  PROVE  /\ bound' \subseteq Ops
         /\ \A o : Settled(o) => Settled(o)'
         /\ \A e \in Elems(batch) : e.kind = "submit" => Settled(e.op)'
<1>1. /\ bound' \subseteq Ops
      /\ \/ \E e \in Elems(log) : e.kind = "session_close"
         \/ /\ bound \subseteq bound'
            /\ \A e \in Elems(batch) : e.kind = "submit" => e.op \in bound'
  BY BindKeeps
<1>2. CASE \E e \in Elems(log) : e.kind = "session_close"
  <2>1. \A o : Settled(o)'
    BY <1>2 DEF Settled
  <2> QED
    BY <1>1, <2>1
<1>3. CASE /\ bound \subseteq bound'
           /\ \A e \in Elems(batch) : e.kind = "submit" => e.op \in bound'
  <2>1. \A o : Settled(o) => Settled(o)'
    BY <1>3 DEF Settled
  <2>2. \A e \in Elems(batch) : e.kind = "submit" => Settled(e.op)'
    BY <1>3 DEF Settled
  <2> QED
    BY <1>1, <2>1, <2>2
<1> QED
  BY <1>1, <1>2, <1>3

(* ShiftKeeps for the session's own queues: thread t's call takes the events s
   from between a and b and leaves k of them there. *)
LEMMA SessionShift ==
  ASSUME TypeOK, Accounted, NEW t \in Threads,
         NEW a \in Seq(Event), NEW s \in Seq(Event), NEW b \in Seq(Event), NEW k \in Seq(Event),
         pendingEvents \o native = (a \o s) \o b,
         pendingEvents' \o native' = (a \o k) \o b,
         log' = log, DOMAIN Hands' = Threads, \A u \in Threads \ {t} : Hands'[u] = Hands[u],
         Ordered(k), Ids(k) \subseteq Ids(s),
         Once(Hands'[t]), Ids(Hands'[t]) \subseteq Ids(Hands[t]) \cup Ids(s),
         Ids(Hands'[t]) \cap Ids(k) = {},
         lost' = lost \cup ((Ids(s) \cup Ids(Hands[t])) \ (Ids(k) \cup Ids(Hands'[t])))
  PROVE  Accounted'
<1> DEFINE h2 == Hands'
           l2 == lost'
<1>1. DOMAIN Hands = Threads /\ \A e \in Event : e.id \in Nat
  BY EventIds DEF Hands
<1>2. Kept((a \o s) \o b, Hands, lost, Len(log))
  BY DEF Accounted
<1>3. Shift(Threads, t, Event, a, s, b, k, Hands, h2, lost, l2)
  BY <1>1 DEF Shift
<1> HIDE DEF h2, l2
<1>4. Kept((a \o k) \o b, h2, l2, Len(log))
  BY <1>2, <1>3, ShiftKeeps
<1> QED
  BY <1>4 DEF Accounted, h2, l2

(* What a thread has been given is never in the queue. *)
LEMMA HandsApart ==
  ASSUME TypeOK, Accounted, NEW t \in Threads
  PROVE  /\ Once(seen[t]) /\ Once(acc[t]) /\ Ids(seen[t]) \cap Ids(acc[t]) = {}
         /\ Ids(Hands[t]) \cap Ids(pendingEvents \o native) = {}
         /\ Ordered(pendingEvents \o native) /\ Ordered(pendingEvents) /\ Ordered(native)
         /\ Ids(pendingEvents \o native) = Ids(pendingEvents) \cup Ids(native)
<1>1. Once(Hands[t]) /\ Ids(Hands[t]) \cap Ids(pendingEvents \o native) = {} /\ Ordered(pendingEvents \o native)
  BY DEF Accounted, Kept, Hands
<1>2. seen[t] \in Seq(Event) /\ acc[t] \in Seq(Event) /\ Hands[t] = seen[t] \o acc[t]
  BY HandParts
<1>3. Once(seen[t]) /\ Once(acc[t]) /\ Ids(seen[t]) \cap Ids(acc[t]) = {}
  BY <1>1, <1>2, ConcatContents
<1>4. pendingEvents \in Seq(Event) /\ native \in Seq(Event)
  BY DEF TypeOK
<1>5. Ordered(pendingEvents) /\ Ordered(native) /\ Ids(pendingEvents \o native) = Ids(pendingEvents) \cup Ids(native)
  BY <1>1, <1>4, ConcatContents
<1> QED
  BY <1>1, <1>3, <1>5

(* A call that takes the retained events it wants, and has enough or goes on to
   the native runtime. *)
LEMMA TakeStep ==
  ASSUME IInv, NEW t \in Threads, Take(t)
  PROVE  IInv'
<1> USE DEF IInv
<1> DEFINE c    == call[t]
           took == Taken(pendingEvents, c, 0)
           kept == Retained(pendingEvents, c, 0)
<1>1. /\ pc[t] = "lock" /\ pollLock = NoThread /\ pendingEvents' = kept
      /\ closed' = closed /\ bound' = bound /\ native' = native /\ calls' = calls
      /\ log' = log /\ replied' = replied
  BY DEF Take
<1>2. \/ Finish(t, took, {})
      \/ /\ pc' = [pc EXCEPT ![t] = "native"] /\ acc' = [acc EXCEPT ![t] = took]
         /\ pollLock' = t /\ call' = call /\ seen' = seen /\ lost' = lost
         /\ Len(took) # Room(c, 0)
  BY DEF Take
<1>3. pendingEvents \in Seq(Event) /\ native \in Seq(Event)
  BY DEF TypeOK
<1>4. /\ took \in Seq(Event) /\ kept \in Seq(Event)
      /\ Elems(pendingEvents) = Elems(took) \cup Elems(kept)
      /\ Ids(pendingEvents) = Ids(took) \cup Ids(kept)
      /\ Ids(took) \cap Ids(kept) = {} /\ Once(took) /\ Ordered(kept)
  BY <1>3, PassParts, HandsApart
<1>5. acc[t] = <<>> /\ Hands[t] = seen[t] /\ seen[t] \in Seq(Event)
  BY <1>1, HandParts DEF OnlyPollsHold
<1>6. Waits(c) => took = <<>> \/ Len(took) = Room(c, 0)
  <2>1. SUFFICES ASSUME Waits(c) PROVE took = <<>> \/ Len(took) = 1
    BY DEF Room
  <2> DEFINE W == {i \in DOMAIN pendingEvents : Wanted(c, pendingEvents[i])}
  <2>2. W \in SUBSET (DOMAIN pendingEvents) /\ Room(c, 0) = 1
    BY <2>1 DEF Room
  <2>3. W \in SUBSET Nat /\ IsFiniteSet(W)
    BY <1>3, <2>2, IndexSet
  <2> HIDE DEF W
  <2>4. TakeIdx(pendingEvents, c, 0) = FirstOf(W, 1)
    BY <2>2 DEF TakeIdx, W
  <2>5. took = At(pendingEvents, FirstOf(W, 1)) /\ FirstOf(W, 1) \in SUBSET (DOMAIN pendingEvents)
    BY <2>2, <2>4 DEF Taken, FirstOf
  <2>6. Len(took) = Cardinality(FirstOf(W, 1))
    BY <1>3, <2>5, AtProperties
  <2>7. CASE W = {}
    <3>1. FirstOf(W, 1) = {}
      BY <2>7 DEF FirstOf
    <3>2. Len(took) = 0
      BY <2>6, <3>1, FS_EmptySet
    <3> QED
      BY <1>4, <3>2, EmptySeq
  <2>8. CASE W # {}
    <3>1. PICK i \in W : FirstOf(W, 1) = {i}
      BY <2>3, <2>8, FirstOfOne
    <3>2. Len(took) = 1
      BY <2>6, <3>1, FS_Singleton
    <3> QED
      BY <3>2
  <2> QED
    BY <2>7, <2>8
<1> HIDE DEF c, took, kept
<1>7. /\ pollLock' \in Threads \cup {NoThread}
      /\ pc' \in [Threads -> {"idle", "lock", "native", "closing"}]
      /\ call' \in [Threads -> Call]
      /\ acc' \in [Threads -> Seq(Event)]
      /\ seen' \in [Threads -> Seq(Event)]
      /\ lost' \subseteq 1 .. MaxEvents
      /\ LockHeld' /\ OnlyPollsHold'
      /\ DOMAIN Hands' = Threads
      /\ Hands'[t] = seen[t] \o took
      /\ \A u \in Threads \ {t} : Hands'[u] = Hands[u]
      /\ lost' = lost
  <2>1. CASE Finish(t, took, {})
    <3>1. lost' = lost
      BY <2>1 DEF Finish
    <3> QED
      BY <1>1, <1>4, <2>1, <3>1, FinishEffect
  <2>2. CASE /\ pc' = [pc EXCEPT ![t] = "native"] /\ acc' = [acc EXCEPT ![t] = took]
             /\ pollLock' = t /\ call' = call /\ seen' = seen /\ lost' = lost
             /\ Len(took) # Room(c, 0)
    <3>1. /\ pollLock' \in Threads \cup {NoThread}
          /\ pc' \in [Threads -> {"idle", "lock", "native", "closing"}]
          /\ call' \in [Threads -> Call]
          /\ seen' \in [Threads -> Seq(Event)]
          /\ lost' \subseteq 1 .. MaxEvents
      BY <2>2 DEF TypeOK
    <3>2. acc' \in [Threads -> Seq(Event)]
      BY <1>4, <2>2 DEF TypeOK
    <3>3. /\ pc'[t] = "native" /\ acc'[t] = took
          /\ \A u \in Threads \ {t} : pc'[u] = pc[u] /\ acc'[u] = acc[u]
      BY <2>2 DEF TypeOK
    <3>4. LockHeld'
      BY <1>1, <2>2, <3>3, ThreadsAssumption DEF LockHeld
    <3>5. OnlyPollsHold'
      <4> SUFFICES ASSUME NEW u \in Threads, acc'[u] # <<>>
                   PROVE  pc'[u] = "native" /\ ~Waits(call'[u])
        BY DEF OnlyPollsHold
      <4>1. CASE u = t
        BY <1>6, <2>2, <3>3, <4>1 DEF c
      <4>2. CASE u # t
        BY <2>2, <3>3, <4>2 DEF OnlyPollsHold
      <4> QED
        BY <4>1, <4>2
    <3>6. DOMAIN Hands' = Threads /\ \A u \in Threads : Hands'[u] = seen'[u] \o acc'[u]
      BY DEF Hands
    <3>7. Hands'[t] = seen[t] \o took /\ \A u \in Threads \ {t} : Hands'[u] = Hands[u]
      <4>1. seen'[t] = seen[t] /\ \A u \in Threads \ {t} : seen'[u] = seen[u] /\ acc'[u] = acc[u]
        BY <2>2, <3>3
      <4>2. \A u \in Threads : Hands[u] = seen[u] \o acc[u]
        BY DEF Hands
      <4>3. Hands'[t] = seen[t] \o took
        BY <3>3, <3>6, <4>1
      <4>4. \A u \in Threads \ {t} : Hands'[u] = Hands[u]
        BY <3>6, <4>1, <4>2, ZenonT(30)
      <4> QED
        BY <4>3, <4>4
    <3> QED
      BY <2>2, <3>1, <3>2, <3>4, <3>5, <3>6, <3>7
  <2> QED
    BY <1>2, <2>1, <2>2
<1>8. /\ Elems(Hands'[t]) = Elems(seen[t]) \cup Elems(took)
      /\ Ids(Hands'[t]) = Ids(seen[t]) \cup Ids(took)
      /\ Once(Hands'[t])
  <2>1. Once(seen[t]) /\ Ids(seen[t]) \cap Ids(pendingEvents) = {}
    BY <1>5, HandsApart
  <2>2. Ids(seen[t]) \cap Ids(took) = {}
    BY <1>4, <2>1
  <2> QED
    BY <1>4, <1>5, <1>7, <2>1, <2>2, ConcatContents
<1>9. Accounted'
  <2>1. <<>> \in Seq(Event) /\ <<>> \o pendingEvents = pendingEvents /\ <<>> \o kept = kept
    BY <1>3, <1>4, EmptyList
  <2>2. /\ pendingEvents \o native = (<<>> \o pendingEvents) \o native
        /\ pendingEvents' \o native' = (<<>> \o kept) \o native
    BY <1>1, <2>1 DEF kept
  <2>3. Ids(kept) \subseteq Ids(pendingEvents) /\ Ids(Hands'[t]) \subseteq Ids(Hands[t]) \cup Ids(pendingEvents)
    BY <1>4, <1>5, <1>8
  <2>4. Ids(Hands'[t]) \cap Ids(kept) = {}
    <3>1. Ids(seen[t]) \cap Ids(pendingEvents) = {}
      BY <1>5, HandsApart
    <3> QED
      BY <1>4, <1>8, <3>1
  <2>5. lost' = lost \cup ((Ids(pendingEvents) \cup Ids(Hands[t])) \ (Ids(kept) \cup Ids(Hands'[t])))
    BY <1>4, <1>5, <1>7, <1>8
  <2> QED
    BY <1>1, <1>3, <1>4, <1>7, <1>8, <2>1, <2>2, <2>3, <2>4, <2>5, SessionShift
<1>10. TypeOK'
  BY <1>1, <1>4, <1>7 DEF TypeOK
<1>11. QueuedWasSent'
  BY <1>1 DEF QueuedWasSent
<1>12. ConvertedStaysBound'
  <2>1. \A o : Settled(o) => Settled(o)'
    BY <1>1 DEF Settled
  <2> DEFINE B == {}
  <2>2. \A e \in B : e.kind = "submit" => Settled(e.op)'
    OBVIOUS
  <2>3. Elems(pendingEvents)' \subseteq Elems(pendingEvents) \cup B
    BY <1>1, <1>4
  <2>4. \A u \in Threads : Elems(Hands'[u]) \subseteq Elems(Hands[u]) \cup Elems(pendingEvents) \cup B
    BY <1>4, <1>5, <1>7, <1>8
  <2> HIDE DEF B
  <2> QED
    BY <2>1, <2>2, <2>3, <2>4, StaysSettled
<1> QED
  BY <1>7, <1>9, <1>10, <1>11, <1>12

(* A native call returns to a call that waits. *)
LEMMA WaitReturnStep ==
  ASSUME IInv, NEW t \in Threads, WaitReturn(t)
  PROVE  IInv'
<1> USE DEF IInv
<1> DEFINE c        == call[t]
           batch(n) == SubSeq(native, 1, n)
           rest(n)  == SubSeq(native, n + 1, Len(native))
           queue(n) == pendingEvents \o batch(n)
           took(n)  == Taken(queue(n), c, 0)
           kept(n)  == Retained(queue(n), c, 0)
<1>1. PICK n \in 0 .. Len(native) :
        /\ pc[t] = "native" /\ Waits(c)
        /\ native' = rest(n) /\ bound' = BindAfter(batch(n))
        /\ \/ pendingEvents' = kept(n) /\ Finish(t, took(n), {})
           \/ /\ pendingEvents' = queue(n)
              /\ UNCHANGED <<pc, call, acc, pollLock, seen, lost>>
        /\ closed' = closed /\ calls' = calls /\ log' = log /\ replied' = replied
  BY DEF WaitReturn
<1> DEFINE B == batch(n)
           R == rest(n)
           Q == pendingEvents \o B
           A == Taken(Q, c, 0)
           K == Retained(Q, c, 0)
<1>2. /\ pc[t] = "native" /\ Waits(c) /\ native' = R /\ bound' = BindAfter(B)
      /\ closed' = closed /\ calls' = calls /\ log' = log /\ replied' = replied
  BY <1>1
<1>3. \/ pendingEvents' = K /\ Finish(t, A, {})
      \/ pendingEvents' = Q /\ UNCHANGED <<pc, call, acc, pollLock, seen, lost>>
  BY <1>1
<1>4. /\ B \in Seq(Event) /\ R \in Seq(Event) /\ pendingEvents \in Seq(Event)
      /\ pendingEvents \o native = Q \o R
      /\ Elems(native) = Elems(B) \cup Elems(R)
  BY BatchParts DEF TypeOK
<1>5. Q \in Seq(Event) /\ Elems(Q) = Elems(pendingEvents) \cup Elems(B)
  <2> HIDE DEF B
  <2> QED
    BY <1>4, ConcatShape, ConcatContents
<1>6. acc[t] = <<>> /\ Hands[t] = seen[t] /\ seen[t] \in Seq(Event)
  BY <1>1, HandParts DEF OnlyPollsHold
<1> HIDE DEF B, R, Q
<1>7. Ordered(Q) /\ Once(seen[t]) /\ Ids(seen[t]) \cap Ids(Q) = {}
  <2>1. Ordered(Q \o R) /\ Once(seen[t]) /\ Ids(seen[t]) \cap Ids(Q \o R) = {}
    BY <1>4, <1>6, HandsApart
  <2>2. Ids(Q \o R) = Ids(Q) \cup Ids(R) /\ (Ordered(Q \o R) => Ordered(Q))
    BY <1>4, <1>5, ConcatContents
  <2> QED
    BY <2>1, <2>2
<1>8. /\ A \in Seq(Event) /\ K \in Seq(Event)
      /\ Elems(Q) = Elems(A) \cup Elems(K) /\ Ids(Q) = Ids(A) \cup Ids(K)
      /\ Ids(A) \cap Ids(K) = {} /\ Once(A) /\ Ordered(K)
  BY <1>5, <1>7, PassParts
<1> HIDE DEF A, K, c
<1>9. /\ bound' \subseteq Ops /\ \A o : Settled(o) => Settled(o)'
      /\ \A e \in Elems(B) : e.kind = "submit" => Settled(e.op)'
  <2>1. Elems(B) \subseteq Elems(native)
    BY <1>4
  <2> QED
    BY <1>2, <1>4, <2>1, BatchSettles
<1>10. QueuedWasSent'
  <2>1. Elems(R) \subseteq Elems(log)
    BY <1>4 DEF QueuedWasSent
  <2> QED
    BY <1>2, <2>1 DEF QueuedWasSent
<1>11. CASE pendingEvents' = K /\ Finish(t, A, {})
  <2>1. /\ pollLock' \in Threads \cup {NoThread}
        /\ pc' \in [Threads -> {"idle", "lock", "native", "closing"}]
        /\ call' \in [Threads -> Call]
        /\ acc' \in [Threads -> Seq(Event)]
        /\ seen' \in [Threads -> Seq(Event)]
        /\ lost' \subseteq 1 .. MaxEvents
        /\ LockHeld' /\ OnlyPollsHold'
        /\ DOMAIN Hands' = Threads
        /\ Hands'[t] = seen[t] \o A
        /\ \A u \in Threads \ {t} : Hands'[u] = Hands[u]
    BY <1>2, <1>8, <1>11, FinishEffect
  <2>2. lost' = lost
    BY <1>11 DEF Finish
  <2>3. /\ Elems(Hands'[t]) = Elems(seen[t]) \cup Elems(A)
        /\ Ids(Hands'[t]) = Ids(seen[t]) \cup Ids(A)
        /\ Once(Hands'[t])
    <3>1. Ids(seen[t]) \cap Ids(A) = {}
      BY <1>7, <1>8
    <3> QED
      BY <1>6, <1>7, <1>8, <2>1, <3>1, ConcatContents
  <2>4. Accounted'
    <3>1. <<>> \in Seq(Event) /\ <<>> \o Q = Q /\ <<>> \o K = K
      BY <1>5, <1>8, EmptyList
    <3>2. /\ pendingEvents \o native = (<<>> \o Q) \o R
          /\ pendingEvents' \o native' = (<<>> \o K) \o R
      BY <1>2, <1>4, <1>11, <3>1
    <3>3. Ids(K) \subseteq Ids(Q) /\ Ids(Hands'[t]) \subseteq Ids(Hands[t]) \cup Ids(Q)
      BY <1>6, <1>8, <2>3
    <3>4. Ids(Hands'[t]) \cap Ids(K) = {}
      BY <1>7, <1>8, <2>3
    <3>5. lost' = lost \cup ((Ids(Q) \cup Ids(Hands[t])) \ (Ids(K) \cup Ids(Hands'[t])))
      BY <1>6, <1>8, <2>2, <2>3
    <3> QED
      BY <1>2, <1>4, <1>5, <1>8, <2>1, <2>3, <3>1, <3>2, <3>3, <3>4, <3>5, SessionShift
  <2>5. TypeOK'
    BY <1>2, <1>4, <1>8, <1>9, <1>11, <2>1 DEF TypeOK
  <2>6. ConvertedStaysBound'
    <3>1. Elems(pendingEvents)' \subseteq Elems(pendingEvents) \cup Elems(B)
      BY <1>5, <1>8, <1>11
    <3>2. \A u \in Threads : Elems(Hands'[u]) \subseteq Elems(Hands[u]) \cup Elems(pendingEvents) \cup Elems(B)
      BY <1>5, <1>6, <1>8, <2>1, <2>3
    <3> QED
      BY <1>9, <3>1, <3>2, StaysSettled
  <2> QED
    BY <1>10, <2>1, <2>4, <2>5, <2>6
<1>12. CASE pendingEvents' = Q /\ UNCHANGED <<pc, call, acc, pollLock, seen, lost>>
  <2>1. Hands' = Hands /\ LockHeld' /\ OnlyPollsHold'
    BY <1>12 DEF Hands, LockHeld, OnlyPollsHold
  <2>2. Accounted'
    <3>1. pendingEvents' \o native' = pendingEvents \o native
      BY <1>2, <1>4, <1>12
    <3> QED
      BY <1>2, <1>12, <2>1, <3>1 DEF Accounted
  <2>3. TypeOK'
    BY <1>2, <1>4, <1>5, <1>9, <1>12 DEF TypeOK
  <2>4. ConvertedStaysBound'
    <3>1. Elems(pendingEvents)' \subseteq Elems(pendingEvents) \cup Elems(B)
      BY <1>5, <1>12
    <3>2. \A u \in Threads : Elems(Hands'[u]) \subseteq Elems(Hands[u]) \cup Elems(pendingEvents) \cup Elems(B)
      BY <2>1
    <3> QED
      BY <1>9, <3>1, <3>2, StaysSettled
  <2> QED
    BY <1>10, <2>1, <2>2, <2>3, <2>4
<1> QED
  BY <1>3, <1>11, <1>12

(* A native call returns to a poll. *)
LEMMA PollReturnStep ==
  ASSUME IInv, NEW t \in Threads, PollReturn(t)
  PROVE  IInv'
<1> USE DEF IInv
<1> DEFINE c        == call[t]
           m        == Len(acc[t])
           batch(n) == SubSeq(native, 1, n)
           rest(n)  == SubSeq(native, n + 1, Len(native))
<1>1. PICK n \in 0 .. Len(native) :
        /\ pc[t] = "native"
        /\ native' = rest(n) /\ bound' = BindAfter(batch(n))
        /\ pendingEvents' = pendingEvents \o Retained(batch(n), c, m)
        /\ Finish(t, acc[t] \o Taken(batch(n), c, m), {})
        /\ closed' = closed /\ calls' = calls /\ log' = log /\ replied' = replied
  BY DEF PollReturn
<1> DEFINE B == batch(n)
           R == rest(n)
           A == Taken(B, c, m)
           K == Retained(B, c, m)
<1>2. /\ pc[t] = "native" /\ native' = R /\ bound' = BindAfter(B)
      /\ pendingEvents' = pendingEvents \o K /\ Finish(t, acc[t] \o A, {})
      /\ closed' = closed /\ calls' = calls /\ log' = log /\ replied' = replied
  BY <1>1
<1>3. /\ B \in Seq(Event) /\ R \in Seq(Event) /\ pendingEvents \in Seq(Event)
      /\ pendingEvents \o native = (pendingEvents \o B) \o R
      /\ Elems(native) = Elems(B) \cup Elems(R)
  BY BatchParts DEF TypeOK
<1>4. /\ seen[t] \in Seq(Event) /\ acc[t] \in Seq(Event) /\ Hands[t] \in Seq(Event)
      /\ Hands[t] = seen[t] \o acc[t]
  BY HandParts
<1> HIDE DEF B, R
<1>5. Ordered(B) /\ Once(Hands[t]) /\ Ids(Hands[t]) \cap Ids(B) = {}
  <2>1. /\ Ordered((pendingEvents \o B) \o R) /\ Once(Hands[t])
        /\ Ids(Hands[t]) \cap Ids((pendingEvents \o B) \o R) = {}
    BY <1>3, HandsApart DEF Accounted, Kept, Hands
  <2>2. Ordered(B) /\ \A i : i \in Ids(B) => i \in Ids((pendingEvents \o B) \o R)
    BY <1>3, <2>1, ThreeParts
  <2> QED
    BY <2>1, <2>2
<1>6. /\ A \in Seq(Event) /\ K \in Seq(Event)
      /\ Elems(B) = Elems(A) \cup Elems(K) /\ Ids(B) = Ids(A) \cup Ids(K)
      /\ Ids(A) \cap Ids(K) = {} /\ Once(A) /\ Ordered(K)
  BY <1>3, <1>5, PassParts
<1> HIDE DEF A, K, c, m
<1>7. acc[t] \o A \in Seq(Event) /\ seen[t] \o (acc[t] \o A) = Hands[t] \o A
  <2>1. acc[t] \o A \in Seq(Event)
    BY <1>4, <1>6, ConcatShape
  <2> DEFINE x == seen[t]
             y == acc[t]
  <2>2. x \in Seq(Event) /\ y \in Seq(Event) /\ A \in Seq(Event)
    BY <1>4, <1>6
  <2> HIDE DEF x, y
  <2>3. (x \o y) \o A = x \o (y \o A)
    BY <2>2, ConcatAssociative
  <2> QED
    BY <1>4, <2>1, <2>3 DEF x, y
<1>8. /\ pollLock' \in Threads \cup {NoThread}
      /\ pc' \in [Threads -> {"idle", "lock", "native", "closing"}]
      /\ call' \in [Threads -> Call]
      /\ acc' \in [Threads -> Seq(Event)]
      /\ seen' \in [Threads -> Seq(Event)]
      /\ lost' \subseteq 1 .. MaxEvents
      /\ LockHeld' /\ OnlyPollsHold'
      /\ DOMAIN Hands' = Threads
      /\ Hands'[t] = Hands[t] \o A
      /\ \A u \in Threads \ {t} : Hands'[u] = Hands[u]
  <2>1. Finish(t, acc[t] \o A, {}) /\ {} \in SUBSET (1 .. MaxEvents)
    BY <1>2
  <2> QED
    BY <1>2, <1>7, <2>1, FinishEffect
<1>9. lost' = lost
  BY <1>2 DEF Finish
<1>10. /\ Elems(Hands'[t]) = Elems(Hands[t]) \cup Elems(A)
       /\ Ids(Hands'[t]) = Ids(Hands[t]) \cup Ids(A)
       /\ Once(Hands'[t])
  <2>1. Ids(Hands[t]) \cap Ids(A) = {}
    BY <1>5, <1>6
  <2> DEFINE x == Hands[t]
  <2>2. x \in Seq(Event) /\ Once(x) /\ Ids(x) \cap Ids(A) = {} /\ A \in Seq(Event) /\ Once(A)
    BY <1>4, <1>5, <1>6, <2>1
  <2> HIDE DEF x
  <2>3. /\ Elems(x \o A) = Elems(x) \cup Elems(A)
        /\ Ids(x \o A) = Ids(x) \cup Ids(A)
        /\ Once(x \o A)
    BY <2>2, ConcatContents
  <2> QED
    BY <1>8, <2>3 DEF x
<1>11. /\ bound' \subseteq Ops /\ \A o : Settled(o) => Settled(o)'
       /\ \A e \in Elems(B) : e.kind = "submit" => Settled(e.op)'
  <2>1. Elems(B) \subseteq Elems(native)
    BY <1>3
  <2> QED
    BY <1>2, <1>3, <2>1, BatchSettles
<1>12. QueuedWasSent'
  <2>1. Elems(R) \subseteq Elems(log)
    BY <1>3 DEF QueuedWasSent
  <2> QED
    BY <1>2, <2>1 DEF QueuedWasSent
<1>13. Accounted'
  <2>1. Ids(K) \subseteq Ids(B) /\ Ids(Hands'[t]) \subseteq Ids(Hands[t]) \cup Ids(B)
    BY <1>6, <1>10
  <2>2. Ids(Hands'[t]) \cap Ids(K) = {}
    BY <1>5, <1>6, <1>10
  <2>3. lost' = lost \cup ((Ids(B) \cup Ids(Hands[t])) \ (Ids(K) \cup Ids(Hands'[t])))
    BY <1>6, <1>9, <1>10
  <2>4. pendingEvents' \o native' = (pendingEvents \o K) \o R
    BY <1>2
  <2> QED
    BY <1>2, <1>3, <1>6, <1>8, <1>10, <2>1, <2>2, <2>3, <2>4, SessionShift
<1>14. pendingEvents' \in Seq(Event) /\ Elems(pendingEvents)' = Elems(pendingEvents) \cup Elems(K)
  BY <1>2, <1>3, <1>6, ConcatShape, ConcatContents
<1>15. TypeOK'
  BY <1>2, <1>3, <1>8, <1>11, <1>14 DEF TypeOK
<1>16. ConvertedStaysBound'
  <2>1. Elems(pendingEvents)' \subseteq Elems(pendingEvents) \cup Elems(B)
    BY <1>6, <1>14
  <2>2. \A u \in Threads : Elems(Hands'[u]) \subseteq Elems(Hands[u]) \cup Elems(pendingEvents) \cup Elems(B)
    BY <1>6, <1>8, <1>10
  <2> QED
    BY <1>11, <2>1, <2>2, StaysSettled
<1> QED
  BY <1>8, <1>12, <1>13, <1>15, <1>16

(* A wait that expires returns nothing and takes nothing. *)
LEMMA WaitExpireStep ==
  ASSUME IInv, NEW t \in Threads, WaitExpire(t)
  PROVE  IInv'
<1> USE DEF IInv
<1>1. /\ pc[t] = "native" /\ Waits(call[t]) /\ Finish(t, <<>>, {})
      /\ UNCHANGED <<closed, pendingEvents, bound, native, calls, log, replied>>
  BY DEF WaitExpire
<1>2. acc[t] = <<>> /\ Hands[t] = seen[t] /\ seen[t] \in Seq(Event)
  BY <1>1, HandParts DEF OnlyPollsHold
<1>3. <<>> \in Seq(Event) /\ {} \in SUBSET (1 .. MaxEvents) /\ seen[t] \o <<>> = seen[t]
  BY <1>2, EmptyList
<1>4. /\ pollLock' \in Threads \cup {NoThread}
      /\ pc' \in [Threads -> {"idle", "lock", "native", "closing"}]
      /\ call' \in [Threads -> Call]
      /\ acc' \in [Threads -> Seq(Event)]
      /\ seen' \in [Threads -> Seq(Event)]
      /\ lost' \subseteq 1 .. MaxEvents
      /\ LockHeld' /\ OnlyPollsHold'
      /\ DOMAIN Hands' = Threads
      /\ Hands'[t] = seen[t]
      /\ \A u \in Threads \ {t} : Hands'[u] = Hands[u]
  BY <1>1, <1>3, FinishEffect
<1>5. lost' = lost
  BY <1>1 DEF Finish
<1>6. Hands' = Hands
  <2>1. \A u \in Threads : Hands'[u] = Hands[u]
    BY <1>2, <1>4
  <2>2. Hands = [u \in Threads |-> Hands[u]] /\ Hands' = [u \in Threads |-> Hands'[u]]
    BY DEF Hands
  <2> QED
    BY <2>1, <2>2
<1>7. Accounted'
  BY <1>1, <1>5, <1>6 DEF Accounted
<1>8. TypeOK'
  BY <1>1, <1>4 DEF TypeOK
<1>9. QueuedWasSent'
  BY <1>1 DEF QueuedWasSent
<1>10. ConvertedStaysBound'
  BY <1>1, <1>6 DEF ConvertedStaysBound, Settled
<1> QED
  BY <1>4, <1>7, <1>8, <1>9, <1>10

(* The native call fails, or its batch does not decode: what the call held, and
   the batch b, are out of reach.  For a failed call the batch is empty. *)
LEMMA LoseStep ==
  ASSUME IInv, NEW t \in Threads, pc[t] = "native",
         NEW b \in Seq(Event), NEW r \in Seq(Event),
         pendingEvents \o native = (pendingEvents \o b) \o r, Elems(native) = Elems(b) \cup Elems(r),
         NEW converted \in Seq(Event), Elems(converted) \subseteq Elems(b),
         Finish(t, <<>>, Ids(acc[t]) \cup Ids(b)),
         native' = r, bound' = BindAfter(converted),
         UNCHANGED <<closed, pendingEvents, calls, log, replied>>
  PROVE  IInv'
<1> USE DEF IInv
<1> DEFINE loses == Ids(acc[t]) \cup Ids(b)
<1>1. /\ seen[t] \in Seq(Event) /\ acc[t] \in Seq(Event)
      /\ Ids(Hands[t]) = Ids(seen[t]) \cup Ids(acc[t])
      /\ Elems(Hands[t]) = Elems(seen[t]) \cup Elems(acc[t])
  BY HandParts
<1>2. <<>> \in Seq(Event) /\ seen[t] \o <<>> = seen[t] /\ Ids(<<>>) = {} /\ Ordered(<<>>)
  BY <1>1, EmptyList
<1>3. loses \in SUBSET (1 .. MaxEvents) /\ Finish(t, <<>>, loses)
  BY <1>1, EventIds
<1>4. /\ pollLock' \in Threads \cup {NoThread}
      /\ pc' \in [Threads -> {"idle", "lock", "native", "closing"}]
      /\ call' \in [Threads -> Call]
      /\ acc' \in [Threads -> Seq(Event)]
      /\ seen' \in [Threads -> Seq(Event)]
      /\ lost' \subseteq 1 .. MaxEvents
      /\ LockHeld' /\ OnlyPollsHold'
      /\ DOMAIN Hands' = Threads
      /\ Hands'[t] = seen[t]
      /\ \A u \in Threads \ {t} : Hands'[u] = Hands[u]
  BY <1>2, <1>3, FinishEffect
<1>5. lost' = lost \cup Ids(acc[t]) \cup Ids(b)
  BY DEF Finish
<1>6. /\ Once(seen[t]) /\ Ids(seen[t]) \cap Ids(acc[t]) = {}
      /\ Ids(seen[t]) \cap Ids((pendingEvents \o b) \o r) = {}
  BY <1>1, HandsApart
<1>7. pendingEvents \in Seq(Event)
  BY DEF TypeOK
<1>8. Ids(seen[t]) \cap Ids(b) = {}
  <2>1. \A i : i \in Ids(b) => i \in Ids((pendingEvents \o b) \o r)
    BY <1>7, ThreeParts
  <2> QED
    BY <1>6, <2>1
<1>9. Accounted'
  <2>1. pendingEvents' \o native' = (pendingEvents \o <<>>) \o r
    BY <1>7, EmptyList
  <2>2. /\ Ids(<<>>) \subseteq Ids(b) /\ Ids(Hands'[t]) \cap Ids(<<>>) = {} /\ Once(Hands'[t])
        /\ Ids(Hands'[t]) \subseteq Ids(Hands[t]) \cup Ids(b)
    BY <1>1, <1>2, <1>4, <1>6
  <2>3. lost' = lost \cup ((Ids(b) \cup Ids(Hands[t])) \ (Ids(<<>>) \cup Ids(Hands'[t])))
    BY <1>1, <1>2, <1>4, <1>5, <1>6, <1>8
  <2> QED
    BY <1>2, <1>4, <1>7, <2>1, <2>2, <2>3, SessionShift
<1>10. /\ bound' \subseteq Ops /\ \A o : Settled(o) => Settled(o)'
  BY BatchSettles
<1>11. TypeOK'
  BY <1>4, <1>10 DEF TypeOK
<1>12. QueuedWasSent'
  <2>1. Elems(r) \subseteq Elems(log)
    BY DEF QueuedWasSent
  <2> QED
    BY <2>1 DEF QueuedWasSent
<1>13. ConvertedStaysBound'
  <2> DEFINE B == {}
  <2>1. \A e \in B : e.kind = "submit" => Settled(e.op)'
    OBVIOUS
  <2>2. Elems(pendingEvents)' \subseteq Elems(pendingEvents) \cup B
    OBVIOUS
  <2>3. \A u \in Threads : Elems(Hands'[u]) \subseteq Elems(Hands[u]) \cup Elems(pendingEvents) \cup B
    BY <1>1, <1>4
  <2> HIDE DEF B
  <2> QED
    BY <1>10, <2>1, <2>2, <2>3, StaysSettled
<1> QED
  BY <1>4, <1>9, <1>11, <1>12, <1>13

(* A native call that fails. *)
LEMMA FailStep ==
  ASSUME IInv, NEW t \in Threads, Fail(t)
  PROVE  IInv'
<1>1. /\ pc[t] = "native" /\ Finish(t, <<>>, Ids(acc[t]))
      /\ UNCHANGED <<closed, pendingEvents, bound, native, calls, log, replied>>
  BY DEF Fail
<1>2. pendingEvents \in Seq(Event) /\ native \in Seq(Event)
  BY DEF IInv, TypeOK
<1>3. /\ <<>> \in Seq(Event) /\ Elems(<<>>) = {} /\ Ids(<<>>) = {}
      /\ pendingEvents \o <<>> = pendingEvents
  BY <1>2, EmptyList
<1>4. BindAfter(<<>>) = bound
  BY DEF BindAfter
<1>5. /\ pendingEvents \o native = (pendingEvents \o <<>>) \o native
      /\ Elems(native) = Elems(<<>>) \cup Elems(native) /\ Elems(<<>>) \subseteq Elems(<<>>)
  BY <1>3
<1>6. Finish(t, <<>>, Ids(acc[t]) \cup Ids(<<>>))
  <2>1. Ids(acc[t]) \cup Ids(<<>>) = Ids(acc[t])
    BY <1>3
  <2> QED
    BY <1>1, <2>1
<1> QED
  BY <1>1, <1>2, <1>3, <1>4, <1>5, <1>6, LoseStep

(* A batch with a bad event. *)
LEMMA DecodeFailStep ==
  ASSUME IInv, NEW t \in Threads, DecodeFail(t)
  PROVE  IInv'
<1>1. PICK n \in 1 .. Len(native) :
        /\ pc[t] = "native" /\ ~Decodable(SubSeq(native, 1, n))
        /\ native' = SubSeq(native, n + 1, Len(native))
        /\ bound' = BindAfter(ConvertedBefore(SubSeq(native, 1, n)))
        /\ Finish(t, <<>>, Ids(acc[t]) \cup Ids(SubSeq(native, 1, n)))
        /\ UNCHANGED <<closed, pendingEvents, calls, log, replied>>
  BY DEF DecodeFail
<1> DEFINE b == SubSeq(native, 1, n)
           r == SubSeq(native, n + 1, Len(native))
           v == ConvertedBefore(b)
<1>2. n \in 0 .. Len(native)
  BY LenProperties DEF IInv, TypeOK
<1>3. /\ b \in Seq(Event) /\ r \in Seq(Event)
      /\ pendingEvents \o native = (pendingEvents \o b) \o r
      /\ Elems(native) = Elems(b) \cup Elems(r)
  BY <1>2, BatchParts DEF IInv
<1>4. /\ pc[t] = "native" /\ ~Decodable(b) /\ native' = r /\ bound' = BindAfter(v)
      /\ Finish(t, <<>>, Ids(acc[t]) \cup Ids(b))
      /\ UNCHANGED <<closed, pendingEvents, calls, log, replied>>
  BY <1>1
<1> HIDE DEF b, r
<1>5. v \in Seq(Event) /\ Elems(v) \subseteq Elems(b)
  BY <1>3, <1>4, ConvertedPart
<1> HIDE DEF v
<1> QED
  BY <1>3, <1>4, <1>5, LoseStep

(* The steps that move no event: a call begins, close begins and closes, a reply
   completes. *)
LEMMA QuietStep ==
  ASSUME IInv, UNCHANGED <<pendingEvents, native, acc, seen, lost, log>>,
         TypeOK', LockHeld', OnlyPollsHold', \A o : Settled(o) => Settled(o)'
  PROVE  IInv'
<1> USE DEF IInv
<1>1. Hands' = Hands
  BY DEF Hands
<1>2. Accounted'
  BY <1>1 DEF Accounted
<1>3. QueuedWasSent'
  BY DEF QueuedWasSent
<1>4. ConvertedStaysBound'
  <2> DEFINE B == {}
  <2>1. \A e \in B : e.kind = "submit" => Settled(e.op)'
    OBVIOUS
  <2>2. Elems(pendingEvents)' \subseteq Elems(pendingEvents) \cup B
    OBVIOUS
  <2>3. \A u \in Threads : Elems(Hands'[u]) \subseteq Elems(Hands[u]) \cup Elems(pendingEvents) \cup B
    BY <1>1
  <2> HIDE DEF B
  <2> QED
    BY <2>1, <2>2, <2>3, StaysSettled
<1> QED
  BY <1>2, <1>3, <1>4

(* A call begins. *)
LEMMA BeginStep ==
  ASSUME IInv, NEW t \in Threads, NEW c \in Calls, Begin(t, c)
  PROVE  IInv'
<1>1. /\ pc[t] = "idle" /\ calls < MaxCalls
      /\ pc' = [pc EXCEPT ![t] = "lock"] /\ call' = [call EXCEPT ![t] = c] /\ calls' = calls + 1
      /\ UNCHANGED <<closed, pollLock, pendingEvents, bound, native, acc, seen, lost, log, replied>>
  BY DEF Begin
<1>2. calls' \in 0 .. MaxCalls
  BY <1>1, EventIds DEF IInv, TypeOK
<1>3. TypeOK'
  <2>1. c \in Call
    BY CallsAssumption
  <2> QED
    BY <1>1, <1>2, <2>1 DEF IInv, TypeOK
<1>4. /\ pc'[t] = "lock" /\ \A u \in Threads \ {t} : pc'[u] = pc[u] /\ call'[u] = call[u]
  BY <1>1 DEF IInv, TypeOK
<1>5. LockHeld'
  BY <1>1, <1>4 DEF IInv, LockHeld
<1>6. OnlyPollsHold'
  <2> SUFFICES ASSUME NEW u \in Threads, acc[u] # <<>> PROVE pc'[u] = "native" /\ ~Waits(call'[u])
    BY <1>1 DEF OnlyPollsHold
  <2>1. pc[u] = "native" /\ ~Waits(call[u])
    BY DEF IInv, OnlyPollsHold
  <2> QED
    BY <1>1, <1>4, <2>1
<1>7. \A o : Settled(o) => Settled(o)'
  BY <1>1 DEF Settled
<1> QED
  BY <1>1, <1>3, <1>5, <1>6, <1>7, QuietStep

(* close, before and under the lock. *)
LEMMA CloseStep ==
  ASSUME IInv, NEW t \in Threads, CloseBegin(t) \/ CloseLocked(t)
  PROVE  IInv'
<1>1. \E p \in {"closing", "idle"} : pc' = [pc EXCEPT ![t] = p]
  BY DEF CloseBegin, CloseLocked
<1>2. PICK p \in {"closing", "idle"} : pc' = [pc EXCEPT ![t] = p]
  BY <1>1
<1>3. /\ pc[t] # "native"
      /\ UNCHANGED <<pollLock, pendingEvents, native, call, acc, calls, seen, lost, log, replied>>
      /\ (closed' = closed /\ bound' = bound) \/ closed' = TRUE
      /\ bound' \subseteq bound
  <2>1. CASE CloseBegin(t)
    BY <2>1 DEF CloseBegin
  <2>2. CASE CloseLocked(t)
    BY <2>2 DEF CloseLocked
  <2> QED
    BY <2>1, <2>2
<1>4. TypeOK'
  <2>1. closed' \in BOOLEAN
    BY <1>3 DEF IInv, TypeOK
  <2>2. pc' \in [Threads -> {"idle", "lock", "native", "closing"}]
    BY <1>2 DEF IInv, TypeOK
  <2> QED
    BY <1>3, <2>1, <2>2 DEF IInv, TypeOK
<1>5. pc'[t] # "native" /\ \A u \in Threads \ {t} : pc'[u] = pc[u]
  BY <1>2 DEF IInv, TypeOK
<1>6. LockHeld'
  BY <1>3, <1>5 DEF IInv, LockHeld
<1>7. OnlyPollsHold'
  BY <1>3, <1>5 DEF IInv, OnlyPollsHold
<1>8. \A o : Settled(o) => Settled(o)'
  BY <1>3 DEF Settled
<1> QED
  BY <1>3, <1>4, <1>6, <1>7, <1>8, QuietStep

(* A terminal reply. *)
LEMMA ReplyStep ==
  ASSUME IInv, NEW o \in Ops, ReplyCompleted(o)
  PROVE  IInv'
<1>1. /\ replied' = replied \cup {o} /\ bound' = bound \ {o}
      /\ UNCHANGED <<closed, pollLock, pendingEvents, native, pc, call, acc, calls, seen, lost, log>>
  BY DEF ReplyCompleted
<1>2. TypeOK'
  BY <1>1 DEF IInv, TypeOK
<1>3. LockHeld' /\ OnlyPollsHold'
  BY <1>1 DEF IInv, LockHeld, OnlyPollsHold
<1>4. \A p : Settled(p) => Settled(p)'
  BY <1>1 DEF Settled
<1> QED
  BY <1>1, <1>2, <1>3, <1>4, QuietStep

(* The peer's next event. *)
LEMMA EmitStep ==
  ASSUME IInv, NEW k \in EventKinds, NEW o \in Ops \cup {NoOp}, NativeEmit(k, o)
  PROVE  IInv'
<1> USE DEF IInv
<1> DEFINE e == [id |-> Len(log) + 1, kind |-> k, op |-> o]
<1>1. /\ Len(log) < MaxEvents /\ ((o # NoOp) <=> (k = "submit"))
      /\ native' = Append(native, e) /\ log' = Append(log, e)
      /\ UNCHANGED <<closed, pollLock, pendingEvents, bound, pc, call, acc, calls, seen, lost, replied>>
  BY DEF NativeEmit
<1>2. pendingEvents \in Seq(Event) /\ native \in Seq(Event) /\ log \in Seq(Event) /\ Len(log) \in Nat
  BY LenProperties DEF TypeOK
<1>3. e \in Event /\ e.id = Len(log) + 1 /\ e.kind = k /\ e.op = o
  BY <1>1, <1>2, EventIds DEF Event
<1> HIDE DEF e
<1>4. /\ native' \in Seq(Event) /\ log' \in Seq(Event) /\ Len(log') = Len(log) + 1
      /\ Elems(native') = Elems(native) \cup {e} /\ Elems(log') = Elems(log) \cup {e}
  BY <1>1, <1>2, <1>3, AppendContents, AppendProperties
<1>5. TypeOK'
  BY <1>1, <1>4 DEF TypeOK
<1>6. Hands' = Hands /\ LockHeld' /\ OnlyPollsHold'
  BY <1>1 DEF Hands, LockHeld, OnlyPollsHold
<1>7. Accounted'
  <2>1. pendingEvents \o native \in Seq(Event)
    BY <1>2, ConcatShape
  <2>2. pendingEvents \o Append(native, e) = Append(pendingEvents \o native, e)
    BY <1>2, <1>3, ConcatAppend
  <2> DEFINE q == pendingEvents \o native
  <2>3. DOMAIN Hands = Threads /\ Kept(q, Hands, lost, Len(log)) /\ q \in Seq(Event)
    BY <2>1 DEF Accounted, Hands
  <2> HIDE DEF q
  <2>4. Kept(Append(q, e), Hands, lost, Len(log) + 1)
    BY <1>2, <1>3, <2>3, ArrivalKeeps
  <2> QED
    BY <1>1, <1>4, <1>6, <2>2, <2>4 DEF Accounted, q
<1>8. QueuedWasSent'
  <2>1. Elems(native') \subseteq Elems(log')
    BY <1>4 DEF QueuedWasSent
  <2>2. \A f \in Elems(log') : f.kind = "submit" => f.op \in Ops
    BY <1>1, <1>3, <1>4 DEF QueuedWasSent
  <2> QED
    BY <2>1, <2>2 DEF QueuedWasSent
<1>9. ConvertedStaysBound'
  <2>1. \A p : Settled(p) => Settled(p)'
    BY <1>1, <1>4 DEF Settled
  <2> DEFINE B == {}
  <2>2. \A f \in B : f.kind = "submit" => Settled(f.op)'
    OBVIOUS
  <2>3. Elems(pendingEvents)' \subseteq Elems(pendingEvents) \cup B
    BY <1>1
  <2>4. \A u \in Threads : Elems(Hands'[u]) \subseteq Elems(Hands[u]) \cup Elems(pendingEvents) \cup B
    BY <1>6
  <2> HIDE DEF B
  <2> QED
    BY <2>1, <2>2, <2>3, <2>4, StaysSettled
<1> QED
  BY <1>5, <1>6, <1>7, <1>8, <1>9

-----------------------------------------------------------------------------
(* The invariant holds at the start. *)
LEMMA InitIInv == Init => IInv
<1> SUFFICES ASSUME Init PROVE IInv
  OBVIOUS
<1>1. /\ <<>> \in Seq(Event) /\ <<>> \o <<>> = <<>> /\ Len(<<>>) = 0
      /\ Ids(<<>>) = {} /\ Elems(<<>>) = {} /\ Once(<<>>) /\ Ordered(<<>>)
  BY EmptyList
<1>2. NoCall \in Call
  BY DEF NoCall, Call, Fns
<1>3. TypeOK
  <2>1. 0 \in 0 .. MaxCalls /\ FALSE \in BOOLEAN
    BY EventIds
  <2>2. /\ pc \in [Threads -> {"idle", "lock", "native", "closing"}]
        /\ call \in [Threads -> Call]
        /\ acc \in [Threads -> Seq(Event)] /\ seen \in [Threads -> Seq(Event)]
    BY <1>1, <1>2 DEF Init
  <2> QED
    BY <1>1, <2>1, <2>2 DEF Init, TypeOK
<1>4. DOMAIN Hands = Threads /\ \A t \in Threads : Hands[t] = <<>>
  BY <1>1 DEF Init, Hands
<1>5. Accounted
  <2>1. pendingEvents \o native = <<>> /\ lost = {} /\ Len(log) = 0
    BY <1>1 DEF Init
  <2>2. 1 .. 0 = {}
    OBVIOUS
  <2>3. Kept(<<>>, Hands, {}, 0)
    BY <1>1, <1>4, <2>2 DEF Kept
  <2> QED
    BY <2>1, <2>3 DEF Accounted
<1>6. LockHeld /\ OnlyPollsHold
  BY DEF Init, LockHeld, OnlyPollsHold
<1>7. QueuedWasSent
  BY <1>1 DEF Init, QueuedWasSent
<1>8. ConvertedStaysBound
  BY <1>1, <1>4 DEF Init, ConvertedStaysBound
<1> QED
  BY <1>3, <1>5, <1>6, <1>7, <1>8 DEF IInv

(* Every step preserves it. *)
LEMMA NextIInv == IInv /\ [Next]_vars => IInv'
<1> SUFFICES ASSUME IInv, [Next]_vars PROVE IInv'
  OBVIOUS
<1>1. ASSUME NEW t \in Threads, CallStep(t) PROVE IInv'
  BY <1>1, TakeStep, WaitReturnStep, WaitExpireStep, PollReturnStep, FailStep, DecodeFailStep
     DEF CallStep
<1>2. ASSUME NEW t \in Threads, NEW c \in Calls, Begin(t, c) PROVE IInv'
  BY <1>2, BeginStep
<1>3. ASSUME NEW t \in Threads, CloseBegin(t) \/ CloseLocked(t) PROVE IInv'
  BY <1>3, CloseStep
<1>4. ASSUME NEW o \in Ops, ReplyCompleted(o) PROVE IInv'
  BY <1>4, ReplyStep
<1>5. ASSUME NEW k \in EventKinds, NEW o \in Ops \cup {NoOp}, NativeEmit(k, o) PROVE IInv'
  BY <1>5, EmitStep
<1>6. CASE UNCHANGED vars
  BY <1>6 DEF vars, IInv, TypeOK, Accounted, Hands, LockHeld, OnlyPollsHold, QueuedWasSent,
              ConvertedStaysBound, Settled
<1> QED
  BY <1>1, <1>2, <1>3, <1>4, <1>5, <1>6 DEF Next

(* The accounting puts each event in one place, as EventConservation counts it. *)
LEMMA AccountedOnce ==
  ASSUME IInv
  PROVE  EventConservation /\ RetainedInOrder
<1>1. /\ pendingEvents \in Seq(Event) /\ native \in Seq(Event)
      /\ seen \in [Threads -> Seq(Event)] /\ acc \in [Threads -> Seq(Event)]
  BY DEF IInv, TypeOK
<1>2. /\ Kept(pendingEvents \o native, Hands, lost, Len(log))
      /\ DOMAIN Hands = Threads /\ \A t \in Threads : Hands[t] = seen[t] \o acc[t]
  BY DEF IInv, Accounted, Hands
<1>3. RetainedInOrder
  BY <1>2 DEF Kept, RetainedInOrder, Ordered
<1> DEFINE N(i) == Placed(NoThread, "native", Copies(native, i))
           P(i) == Placed(NoThread, "pending", Copies(pendingEvents, i))
           A(i) == PlacedAll(Threads, "acc", acc, i)
           S(i) == PlacedAll(Threads, "seen", seen, i)
           L(i) == Placed(NoThread, "lost", lost \cap {i})
<1>4. ASSUME NEW i \in 1 .. Len(log)
      PROVE  Cardinality(N(i) \cup P(i) \cup A(i) \cup S(i) \cup L(i)) = 1
  <2>1. InOnePlace(Threads, pendingEvents, native, seen, acc, lost, i)
    <3>1. \A e \in Event : e.id \in Nat
      BY EventIds
    <3> QED
      BY <1>1, <1>2, <3>1, KeptOnce
  <2>2. /\ Single(Copies(native, i)) => Single(N(i))
        /\ Copies(native, i) = {} => N(i) = {}
    BY PlacedOne
  <2>3. /\ Single(Copies(pendingEvents, i)) => Single(P(i))
        /\ Copies(pendingEvents, i) = {} => P(i) = {}
    BY PlacedOne
  <2>4. (InOne(Threads, acc, i) => Single(A(i))) /\ (InNone(Threads, acc, i) => A(i) = {})
    BY PlacedInThreads
  <2>5. (InOne(Threads, seen, i) => Single(S(i))) /\ (InNone(Threads, seen, i) => S(i) = {})
    BY PlacedInThreads
  <2>6. (i \in lost => Single(L(i))) /\ (i \notin lost => L(i) = {})
    <3>1. (i \in lost => lost \cap {i} = {i}) /\ (i \notin lost => lost \cap {i} = {})
      OBVIOUS
    <3>2. (i \in lost => Single(lost \cap {i})) /\ (i \notin lost => lost \cap {i} = {})
      BY <3>1 DEF Single
    <3> QED
      BY <3>2, PlacedOne
  <2> HIDE DEF N, P, A, S, L
  <2>7. \E x : N(i) \cup P(i) \cup A(i) \cup S(i) \cup L(i) = {x}
    BY <2>1, <2>2, <2>3, <2>4, <2>5, <2>6 DEF InOnePlace, Single
  <2> QED
    BY <2>7, FS_Singleton
<1>5. EventConservation
  BY <1>4 DEF EventConservation
<1> QED
  BY <1>3, <1>5

(* What receiving promises: whichever threads wait, poll, expire, fail and close in
   whatever order, every event the peer sent is kept in exactly one place, and what
   calls retain for each other stays in the order of the session. *)
THEOREM EventsOnceInOrderHolds == Spec => []EventsOnceInOrder
<1>1. IInv => EventsOnceInOrder
  BY AccountedOnce DEF IInv, EventsOnceInOrder
<1> QED
  BY <1>1, InitIInv, NextIInv, PTL DEF Spec

(* A submit the application received stays bound until its terminal reply, close, or
   the peer's SESSION_CLOSE. *)
THEOREM AcceptedStaysBoundHolds == Spec => []AcceptedStaysBound
<1>1. ASSUME IInv PROVE AcceptedStaysBound
  <2> SUFFICES ASSUME NEW t \in Threads, NEW j \in DOMAIN seen[t], seen[t][j].kind = "submit"
               PROVE  \/ seen[t][j].op \in bound \/ seen[t][j].op \in replied \/ closed
                      \/ \E i \in DOMAIN log : log[i].kind = "session_close"
    BY DEF AcceptedStaysBound, Received
  <2>1. seen[t][j] \in Elems(seen[t])
    BY DEF Elems
  <2>2. seen[t][j] \in Elems(Hands[t])
    BY <1>1, <2>1, HandParts DEF IInv
  <2>3. Settled(seen[t][j].op)
    BY <1>1, <2>2 DEF IInv, ConvertedStaysBound
  <2> QED
    BY <2>3 DEF Settled, Elems
<1> QED
  BY <1>1, InitIInv, NextIInv, PTL DEF Spec

(* A step of next_event or receive_submit, one that raises included, takes out of
   what was retained no more than it returns. *)
THEOREM WaitKeepsRetainedHolds == Spec => WaitKeepsRetained
<1> DEFINE Keeps == \A t \in Threads :
             pc[t] = "native" /\ Waits(call[t]) /\ pendingEvents' # pendingEvents =>
               Ids(pendingEvents) \subseteq Ids(pendingEvents') \cup Ids(seen'[t])
<1>1. ASSUME IInv, Next PROVE Keeps
  <2> SUFFICES ASSUME NEW t \in Threads, pc[t] = "native", Waits(call[t]),
                      pendingEvents' # pendingEvents
               PROVE  Ids(pendingEvents) \subseteq Ids(pendingEvents') \cup Ids(seen'[t])
    OBVIOUS
  <2>1. pollLock = t /\ pollLock # NoThread /\ \A u \in Threads : pc[u] = "native" => u = t
    BY <1>1, ThreadsAssumption DEF IInv, LockHeld
  <2>2. WaitReturn(t)
    <3>1. PICK u \in Threads : Take(u) \/ WaitReturn(u) \/ PollReturn(u)
      BY <1>1 DEF Next, CallStep, Begin, WaitExpire, Fail, DecodeFail, CloseBegin, CloseLocked,
                  ReplyCompleted, NativeEmit
    <3>2. ~Take(u)
      BY <2>1 DEF Take
    <3>3. u = t
      BY <2>1, <3>1, <3>2 DEF WaitReturn, PollReturn
    <3>4. ~PollReturn(u)
      BY <3>3 DEF PollReturn
    <3> QED
      BY <3>1, <3>2, <3>3, <3>4
  <2> DEFINE Q(n) == pendingEvents \o SubSeq(native, 1, n)
  <2>3. PICK n \in 0 .. Len(native) :
          \/ /\ pendingEvents' = Retained(Q(n), call[t], 0)
             /\ seen' = [seen EXCEPT ![t] = seen[t] \o Taken(Q(n), call[t], 0)]
          \/ pendingEvents' = Q(n)
    BY <2>2 DEF WaitReturn, Finish
  <2> DEFINE B == SubSeq(native, 1, n)
             q == pendingEvents \o B
             A == Taken(q, call[t], 0)
             K == Retained(q, call[t], 0)
  <2>4. pendingEvents \in Seq(Event) /\ B \in Seq(Event)
    BY <1>1, BatchParts DEF IInv, TypeOK
  <2>5. \/ pendingEvents' = K /\ seen' = [seen EXCEPT ![t] = seen[t] \o A]
        \/ pendingEvents' = q
    BY <2>3
  <2> HIDE DEF B
  <2>6. q \in Seq(Event) /\ Ids(q) = Ids(pendingEvents) \cup Ids(B)
    BY <2>4, ConcatShape, ConcatContents
  <2> HIDE DEF q
  <2>7. A \in Seq(Event) /\ Ids(q) = Ids(A) \cup Ids(K)
    BY <2>6, PassParts
  <2> HIDE DEF A, K
  <2>8. CASE pendingEvents' = K /\ seen' = [seen EXCEPT ![t] = seen[t] \o A]
    <3>1. seen[t] \in Seq(Event) /\ seen'[t] = seen[t] \o A
      BY <1>1, <2>8 DEF IInv, TypeOK
    <3>2. Ids(seen[t] \o A) = Ids(seen[t]) \cup Ids(A)
      BY <2>7, <3>1, ConcatContents
    <3> QED
      BY <2>6, <2>7, <2>8, <3>1, <3>2
  <2>9. CASE pendingEvents' = q
    BY <2>6, <2>9
  <2> QED
    BY <2>5, <2>8, <2>9
<1>2. IInv /\ [Next]_vars => [Keeps]_vars
  BY <1>1
<1> QED
  BY <1>2, InitIInv, NextIInv, PTL DEF Spec, WaitKeepsRetained

=============================================================================
