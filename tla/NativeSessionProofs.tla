------------------------ MODULE NativeSessionProofs ------------------------
(***************************************************************************)
(* Proofs about the client session: every event is kept once, retained,    *)
(* collected and returned in order, and an operation stays bound until     *)
(* there is evidence that it ended, for any number of threads, calls,      *)
(* operations and events.  The last part is about the asyncio task of      *)
(* AsyncSubmit, for any number of cancellations: nothing is sent once the  *)
(* dispatch was called off, and what was given up is cancelled.            *)
(***************************************************************************)
EXTENDS NativeSession, AsyncSubmit, EventQueuesProofs

\* What each thread has been given, and holds.
Hands == [t \in Threads |-> seen[t] \o acc[t]]

Accounted ==
  /\ Kept(pendingEvents \o native, Hands, lost \cup discarded, Len(log))
  /\ lost \cap discarded = {}

\* One kind of event about one operation: what every call wants all of or none of.
SameSource(e, f) == e.kind = f.kind /\ e.op = f.op

InSourceOrder(s) ==
  \A j, k \in DOMAIN s : j < k /\ SameSource(s[j], s[k]) => s[j].id < s[k].id

\* A call keeps _poll_lock for as long as it is in the native runtime.
LockHeld(t) == pc[t] = "native" => pollLock = t

\* Which calls hold events, between which of their steps.
Holding(t) ==
  /\ pc[t] \in {"idle", "remember", "send"} => acc[t] = <<>>
  /\ pc[t] = "each" => acc[t] # <<>>
  /\ pc[t] = "again" => call[t].fn = "drain"
  /\ pc[t] = "lock" /\ call[t].fn # "drain" => acc[t] = <<>>
  /\ pc[t] \in {"remember", "send"} => call[t].op \in Ops

\* What a call has collected is in order, and older than what it may still add.
CollectedOldest(t) ==
  /\ Ordered(acc[t])
  /\ pc[t] = "native" => Before(Ids(acc[t]), Ids(native))
  /\ pc[t] \in {"lock", "again"} => Before(Ids(acc[t]), Ids(pendingEvents \o native))

\* A call goes to the native runtime only when nothing retained is for it.
NoneWantedLeft(t) ==
  pc[t] = "native" => \A e \in Elems(pendingEvents) : ~Wanted(call[t], e)

\* Of each source, what a thread has is older than what waits.
TakenFirst(t) ==
  /\ InSourceOrder(Hands[t])
  /\ \A e \in Elems(Hands[t]), f \in Elems(pendingEvents \o native) :
       SameSource(e, f) => e.id < f.id

ThreadInv(t) ==
  LockHeld(t) /\ Holding(t) /\ CollectedOldest(t) /\ NoneWantedLeft(t) /\ TakenFirst(t)

QueueInv == TypeOK /\ Accounted /\ \A t \in Threads : ThreadInv(t)

-----------------------------------------------------------------------------
\* What is still to be received was sent, under the id of its place in the log.
QueuedWasSent ==
  /\ Elems(native) \subseteq Elems(log)
  /\ \A i \in DOMAIN log : log[i].id = i

BindInv == QueuedWasSent /\ LiveBindingKept

-----------------------------------------------------------------------------
(* The bounds and ids are numbers. *)
LEMMA EventIds ==
  /\ MaxEvents \in Nat
  /\ \A e \in Event : e.id \in Nat /\ e.id \in 1 .. MaxEvents
  /\ \A s \in Seq(Event) : Ids(s) \subseteq 1 .. MaxEvents /\ Elems(s) \subseteq Event
<1>1. MaxEvents \in Nat
  BY BoundAssumption
<1>2. \A e \in Event : e.id \in Nat /\ e.id \in 1 .. MaxEvents
  BY <1>1 DEF Event
<1>3. ASSUME NEW s \in Seq(Event)
      PROVE  Ids(s) \subseteq 1 .. MaxEvents /\ Elems(s) \subseteq Event
  <2>1. \A j \in DOMAIN s : s[j] \in Event
    BY LenProperties
  <2> QED
    BY <1>2, <2>1 DEF Ids, Elems
<1> QED
  BY <1>1, <1>2, <1>3

(* The pass over a list splits it into what a call takes and what it leaves. *)
LEMMA PassParts ==
  ASSUME NEW s \in Seq(Event), NEW c, NEW n
  PROVE  /\ Taken(s, c, n) \in Seq(Event) /\ Retained(s, c, n) \in Seq(Event)
         /\ Elems(s) = Elems(Taken(s, c, n)) \cup Elems(Retained(s, c, n))
         /\ Ids(s) = Ids(Taken(s, c, n)) \cup Ids(Retained(s, c, n))
         /\ Ordered(s) => /\ Ids(Taken(s, c, n)) \cap Ids(Retained(s, c, n)) = {}
                          /\ Ordered(Taken(s, c, n)) /\ Ordered(Retained(s, c, n))
<1>1. TakeIdx(s, c, n) \in SUBSET (DOMAIN s)
  BY DEF TakeIdx, FirstOf
<1>2. Ordered(s) => Once(s)
  BY EventIds, OrderedOnce
<1> QED
  BY <1>1, <1>2, PartsOf, SMTT(30) DEF Taken, Retained

(* What an unlimited filtered poll keeps of what it takes; other calls keep all. *)
LEMMA FilteredPart ==
  ASSUME NEW s \in Seq(Event), NEW c
  PROVE  /\ Filtered(c, s) \in Seq(Event)
         /\ Elems(Filtered(c, s)) \subseteq Elems(s) /\ Ids(Filtered(c, s)) \subseteq Ids(s)
         /\ Ordered(s) => Ordered(Filtered(c, s))
         /\ c.fn # "drain" => Len(Filtered(c, s)) = Len(s)
<1> DEFINE I == {i \in DOMAIN s : c.fn = "drain" => c.kind \in {AnyKind, NativeEventKind(s[i])}}
<1>1. I \in SUBSET (DOMAIN s)
  OBVIOUS
<1>2. Filtered(c, s) = At(s, I)
  BY DEF Filtered
<1>3. c.fn # "drain" => I = DOMAIN s
  OBVIOUS
<1> HIDE DEF I
<1>4. /\ At(s, I) \in Seq(Event) /\ Len(At(s, I)) = Cardinality(I)
      /\ Elems(At(s, I)) = {s[i] : i \in I} /\ Ids(At(s, I)) = {s[i].id : i \in I}
      /\ Ordered(s) => Ordered(At(s, I))
  BY <1>1, AtProperties
<1>5. Elems(At(s, I)) \subseteq Elems(s) /\ Ids(At(s, I)) \subseteq Ids(s)
  BY <1>1, <1>4 DEF Elems, Ids
<1>6. Cardinality(DOMAIN s) = Len(s)
  BY LenProperties, FS_Interval, SMTT(30)
<1> QED
  BY <1>2, <1>3, <1>4, <1>5, <1>6

(* The first n events of the native queue and the rest. *)
LEMMA BatchParts ==
  ASSUME TypeOK, NEW n \in 0 .. Len(native)
  PROVE  /\ SubSeq(native, 1, n) \in Seq(Event)
         /\ SubSeq(native, n + 1, Len(native)) \in Seq(Event)
         /\ native = SubSeq(native, 1, n) \o SubSeq(native, n + 1, Len(native))
         /\ pendingEvents \o native
              = (pendingEvents \o SubSeq(native, 1, n)) \o SubSeq(native, n + 1, Len(native))
         /\ Elems(native) = Elems(SubSeq(native, 1, n)) \cup Elems(SubSeq(native, n + 1, Len(native)))
         /\ Ids(native) = Ids(SubSeq(native, 1, n)) \cup Ids(SubSeq(native, n + 1, Len(native)))
<1> DEFINE b == SubSeq(native, 1, n)
           r == SubSeq(native, n + 1, Len(native))
<1>1. pendingEvents \in Seq(Event) /\ native \in Seq(Event)
  BY DEF TypeOK
<1>2. b \in Seq(Event) /\ r \in Seq(Event) /\ native = b \o r
  BY <1>1, SplitAt
<1> HIDE DEF b, r
<1>3. pendingEvents \o (b \o r) = (pendingEvents \o b) \o r
  BY <1>1, <1>2, ConcatAssociative, SMTT(30)
<1>4. Elems(b \o r) = Elems(b) \cup Elems(r) /\ Ids(b \o r) = Ids(b) \cup Ids(r)
  BY <1>2, ConcatContents
<1> QED
  BY <1>2, <1>3, <1>4 DEF b, r

(* What a thread has and holds. *)
LEMMA HandParts ==
  ASSUME TypeOK, NEW t \in Threads
  PROVE  /\ seen[t] \in Seq(Event) /\ acc[t] \in Seq(Event)
         /\ Hands[t] = seen[t] \o acc[t] /\ Hands[t] \in Seq(Event)
         /\ Elems(Hands[t]) = Elems(seen[t]) \cup Elems(acc[t])
         /\ Ids(Hands[t]) = Ids(seen[t]) \cup Ids(acc[t])
         /\ acc[t] = <<>> => Hands[t] = seen[t]
<1>1. seen[t] \in Seq(Event) /\ acc[t] \in Seq(Event) /\ Hands[t] = seen[t] \o acc[t]
  BY DEF TypeOK, Hands
<1>2. seen[t] \o acc[t] \in Seq(Event)
  BY <1>1, ConcatShape
<1>3. /\ Elems(seen[t] \o acc[t]) = Elems(seen[t]) \cup Elems(acc[t])
      /\ Ids(seen[t] \o acc[t]) = Ids(seen[t]) \cup Ids(acc[t])
  BY <1>1, ConcatContents
<1>4. seen[t] \o <<>> = seen[t]
  BY <1>1, EmptyList
<1> QED
  BY <1>1, <1>2, <1>3, <1>4

(* What a thread has been given is never in the queue. *)
LEMMA HandsApart ==
  ASSUME TypeOK, Accounted, NEW t \in Threads
  PROVE  /\ Once(Hands[t])
         /\ Once(seen[t]) /\ Once(acc[t]) /\ Ids(seen[t]) \cap Ids(acc[t]) = {}
         /\ Ids(Hands[t]) \cap Ids(pendingEvents \o native) = {}
         /\ Ordered(pendingEvents \o native) /\ Ordered(pendingEvents) /\ Ordered(native)
         /\ Before(Ids(pendingEvents), Ids(native))
         /\ Ids(pendingEvents \o native) = Ids(pendingEvents) \cup Ids(native)
         /\ Elems(pendingEvents \o native) = Elems(pendingEvents) \cup Elems(native)
<1>1. Once(Hands[t]) /\ Ids(Hands[t]) \cap Ids(pendingEvents \o native) = {} /\ Ordered(pendingEvents \o native)
  BY DEF Accounted, Kept, Hands
<1>2. seen[t] \in Seq(Event) /\ acc[t] \in Seq(Event) /\ Hands[t] = seen[t] \o acc[t]
  BY HandParts
<1>3. Once(seen[t]) /\ Once(acc[t]) /\ Ids(seen[t]) \cap Ids(acc[t]) = {}
  BY <1>1, <1>2, ConcatContents
<1>4. pendingEvents \in Seq(Event) /\ native \in Seq(Event)
  BY DEF TypeOK
<1>5. /\ Ordered(pendingEvents) /\ Ordered(native) /\ Before(Ids(pendingEvents), Ids(native))
      /\ Ids(pendingEvents \o native) = Ids(pendingEvents) \cup Ids(native)
      /\ Elems(pendingEvents \o native) = Elems(pendingEvents) \cup Elems(native)
  BY <1>1, <1>4, ConcatContents
<1> QED
  BY <1>1, <1>3, <1>5

(* ShiftKeeps for the session's own queues: thread t's call takes the events s
   from between a and b, leaves k of them there, and some are out of reach. *)
LEMMA SessionShift ==
  ASSUME TypeOK, Accounted, NEW t \in Threads,
         NEW a \in Seq(Event), NEW s \in Seq(Event), NEW b \in Seq(Event), NEW k \in Seq(Event),
         pendingEvents \o native = (a \o s) \o b,
         pendingEvents' \o native' = (a \o k) \o b,
         log' = log, DOMAIN Hands' = Threads, \A u \in Threads \ {t} : Hands'[u] = Hands[u],
         Ordered(k), Ids(k) \subseteq Ids(s),
         Once(Hands'[t]), Ids(Hands'[t]) \subseteq Ids(Hands[t]) \cup Ids(s),
         Ids(Hands'[t]) \cap Ids(k) = {},
         NEW D, D = (Ids(s) \cup Ids(Hands[t])) \ (Ids(k) \cup Ids(Hands'[t])),
         \/ lost' = lost \cup D /\ discarded' = discarded
         \/ lost' = lost /\ discarded' = discarded \cup D
  PROVE  Accounted'
<1> DEFINE h2 == Hands'
           l  == lost \cup discarded
           l2 == lost' \cup discarded'
<1>1. DOMAIN Hands = Threads /\ \A e \in Event : e.id \in Nat
  BY EventIds DEF Hands
<1>2. Kept((a \o s) \o b, Hands, l, Len(log))
  BY DEF Accounted
<1>3. l2 = l \cup D
  OBVIOUS
<1>4. Shift(Threads, t, Event, a, s, b, k, Hands, h2, l, l2)
  BY <1>1, <1>3 DEF Shift
<1>5. lost' \cap discarded' = {}
  <2>1. \A i : i \in Ids(s) => i \in Ids((a \o s) \o b)
    BY ThreeParts
  <2>2. Ids((a \o s) \o b) \cap l = {} /\ Ids(Hands[t]) \cap l = {}
    BY <1>1, <1>2 DEF Kept
  <2>3. D \cap lost = {} /\ D \cap discarded = {}
    BY <2>1, <2>2
  <2> QED
    BY <2>3 DEF Accounted
<1> HIDE DEF h2, l, l2
<1>6. Kept((a \o k) \o b, h2, l2, Len(log))
  BY <1>2, <1>4, ShiftKeeps
<1> QED
  BY <1>5, <1>6 DEF Accounted, h2, l2

-----------------------------------------------------------------------------
\* What one pass of a call over the events s does, in _pending_events or in the
\* batch of a native call; a and b are what waits before and behind them.
PassOver(t, a, s, b) ==
  LET c    == call[t]
      took == Taken(s, c, Len(acc[t]))
      keep == Collect(acc[t], Filtered(c, took))
  IN /\ pendingEvents \o native = (a \o s) \o b
     /\ pendingEvents' \o native' = (a \o Retained(s, c, Len(acc[t]))) \o b
     /\ discarded' = discarded \cup (Ids(took) \ Ids(keep))
     /\ lost' = lost /\ log' = log
     /\ DOMAIN Hands' = Threads /\ Hands'[t] = seen[t] \o keep
     /\ \A u \in Threads \ {t} : Hands'[u] = Hands[u]

\* The facts about such a pass that everything else follows from: it takes A out
\* of s, leaves K, and keeps F of what it took.
PassFacts(t, a, s, b, A, F, K) ==
  /\ A \in Seq(Event) /\ F \in Seq(Event) /\ K \in Seq(Event)
  /\ Elems(s) = Elems(A) \cup Elems(K) /\ Ids(s) = Ids(A) \cup Ids(K)
  /\ Elems(F) \subseteq Elems(A) /\ Ids(F) \subseteq Ids(A)
  /\ Ids(A) \cap Ids(K) = {} /\ Ids(Hands[t]) \cap Ids(s) = {}
  /\ Ordered(s) /\ Ordered(A) /\ Ordered(F) /\ Ordered(K)
  /\ Hands'[t] = Hands[t] \o F /\ Hands'[t] \in Seq(Event)
  /\ Elems(Hands'[t]) = Elems(Hands[t]) \cup Elems(F)
  /\ Ids(Hands'[t]) = Ids(Hands[t]) \cup Ids(F)
  /\ discarded' = discarded \cup (Ids(A) \ Ids(F))

(* A pass does that. *)
LEMMA PassFactsHold ==
  ASSUME TypeOK, Accounted, NEW t \in Threads,
         NEW a \in Seq(Event), NEW s \in Seq(Event), NEW b \in Seq(Event), PassOver(t, a, s, b)
  PROVE  PassFacts(t, a, s, b, Taken(s, call[t], Len(acc[t])),
                   Filtered(call[t], Taken(s, call[t], Len(acc[t]))),
                   Retained(s, call[t], Len(acc[t])))
<1> DEFINE c == call[t]
           A == Taken(s, c, Len(acc[t]))
           F == Filtered(c, A)
           K == Retained(s, c, Len(acc[t]))
           x == seen[t]
           y == acc[t]
           z == Hands[t]
<1>1. /\ pendingEvents \o native = (a \o s) \o b
      /\ Hands'[t] = x \o (y \o F)
      /\ discarded' = discarded \cup (Ids(A) \ Ids(y \o F))
  BY DEF PassOver, Collect
<1>2. /\ x \in Seq(Event) /\ y \in Seq(Event) /\ z = x \o y /\ z \in Seq(Event)
      /\ Ids(z) = Ids(x) \cup Ids(y)
  BY HandParts
<1>3. /\ Ordered((a \o s) \o b) /\ Once(z) /\ Ids(z) \cap Ids((a \o s) \o b) = {}
  BY <1>1, HandsApart
<1>4. Ordered(s) /\ \A i : i \in Ids(s) => i \in Ids((a \o s) \o b)
  BY <1>3, ThreeParts
<1>5. Ids(z) \cap Ids(s) = {}
  BY <1>3, <1>4
<1>6. /\ A \in Seq(Event) /\ K \in Seq(Event)
      /\ Elems(s) = Elems(A) \cup Elems(K) /\ Ids(s) = Ids(A) \cup Ids(K)
      /\ Ids(A) \cap Ids(K) = {} /\ Ordered(A) /\ Ordered(K)
  BY <1>4, PassParts
<1> HIDE DEF A, K
<1>7. F \in Seq(Event) /\ Elems(F) \subseteq Elems(A) /\ Ids(F) \subseteq Ids(A) /\ Ordered(F)
  BY <1>6, FilteredPart
<1> HIDE DEF c, F, x, y, z
<1>8. (x \o y) \o F = x \o (y \o F)
  <2>1. x \in Seq(Event) /\ y \in Seq(Event) /\ F \in Seq(Event)
    BY <1>2, <1>7
  <2> QED
    BY <2>1, ConcatAssociative, SMTT(30)
<1>9. Hands'[t] = z \o F
  BY <1>1, <1>2, <1>8
<1>10. /\ z \o F \in Seq(Event)
       /\ Elems(z \o F) = Elems(z) \cup Elems(F)
       /\ Ids(z \o F) = Ids(z) \cup Ids(F)
  <2>1. z \in Seq(Event) /\ F \in Seq(Event)
    BY <1>2, <1>7
  <2> QED
    BY <2>1, ConcatShape, ConcatContents
<1>11. Ids(y \o F) = Ids(y) \cup Ids(F)
  BY <1>2, <1>7, ConcatContents
<1>12. Ids(A) \ Ids(y \o F) = Ids(A) \ Ids(F)
  BY <1>2, <1>5, <1>6, <1>11
<1> QED
  BY <1>1, <1>4, <1>5, <1>6, <1>7, <1>9, <1>10, <1>12 DEF PassFacts, A, K, c, F, x, y, z

(* A pass keeps the accounting. *)
LEMMA PassAccounted ==
  ASSUME TypeOK, Accounted, NEW t \in Threads,
         NEW a \in Seq(Event), NEW s \in Seq(Event), NEW b \in Seq(Event), PassOver(t, a, s, b)
  PROVE  Accounted'
<1> DEFINE A == Taken(s, call[t], Len(acc[t]))
           F == Filtered(call[t], A)
           K == Retained(s, call[t], Len(acc[t]))
           D == Ids(A) \ Ids(F)
<1>1. PassFacts(t, a, s, b, A, F, K)
  BY PassFactsHold
<1>2. /\ pendingEvents \o native = (a \o s) \o b
      /\ pendingEvents' \o native' = (a \o K) \o b
      /\ lost' = lost /\ log' = log
      /\ DOMAIN Hands' = Threads /\ \A u \in Threads \ {t} : Hands'[u] = Hands[u]
  BY DEF PassOver
<1>3. discarded' = discarded \cup D
  BY <1>1 DEF PassFacts
<1> HIDE DEF A, F, K, D
<1>4. Once(Hands'[t])
  <2> DEFINE z == Hands[t]
  <2>1. z \in Seq(Event) /\ Once(z)
    BY HandParts, HandsApart
  <2>2. F \in Seq(Event) /\ Once(F) /\ Ids(z) \cap Ids(F) = {} /\ Hands'[t] = z \o F
    <3>1. \A e \in Event : e.id \in Nat
      BY EventIds
    <3>2. F \in Seq(Event) /\ Ordered(F) /\ Ids(z) \cap Ids(F) = {} /\ Hands'[t] = z \o F
      BY <1>1 DEF PassFacts
    <3> QED
      BY <3>1, <3>2, OrderedOnce
  <2> HIDE DEF z
  <2> QED
    BY <2>1, <2>2, ConcatContents
<1>5. /\ K \in Seq(Event) /\ Ordered(K) /\ Ids(K) \subseteq Ids(s)
      /\ Ids(Hands'[t]) \subseteq Ids(Hands[t]) \cup Ids(s) /\ Ids(Hands'[t]) \cap Ids(K) = {}
  BY <1>1 DEF PassFacts
<1>6. D = (Ids(s) \cup Ids(Hands[t])) \ (Ids(K) \cup Ids(Hands'[t]))
  BY <1>1 DEF PassFacts, D
<1> QED
  BY <1>2, <1>3, <1>4, <1>5, <1>6, SessionShift

-----------------------------------------------------------------------------
(* A call wants all events of a source or none. *)
LEMMA WantedSame ==
  ASSUME NEW c, NEW e, NEW f, SameSource(e, f), Wanted(c, e)
  PROVE  Wanted(c, f)
BY DEF SameSource, Wanted, IsRuntimeEvent, IsResultEvent, EventMatchesOperation, NativeEventKind

(* What a pass takes is wanted and, by the order of the list, older than what it
   wanted and left. *)
LEMMA TakenOldest ==
  ASSUME NEW s \in Seq(Event), Ordered(s), NEW c \in Call, NEW n \in Nat
  PROVE  /\ \A e \in Elems(Taken(s, c, n)) : Wanted(c, e)
         /\ \A e \in Elems(Taken(s, c, n)), f \in Elems(Retained(s, c, n)) :
              Wanted(c, f) => e.id < f.id
<1> DEFINE W == {i \in DOMAIN s : Wanted(c, s[i])}
           I == FirstOf(W, Room(c, n))
<1>1. W \in SUBSET (DOMAIN s) /\ W \in SUBSET Nat /\ IsFiniteSet(W)
  BY IndexSet
<1>2. Room(c, n) \in Int
  BY EventIds DEF Room, Call
<1>3. TakeIdx(s, c, n) = I
  BY DEF TakeIdx
<1>4. \A i \in DOMAIN s : i \in W <=> Wanted(c, s[i])
  OBVIOUS
<1>5. I \in SUBSET W
  BY DEF FirstOf
<1> HIDE DEF W, I
<1>6. /\ I \in SUBSET (DOMAIN s) /\ DOMAIN s \ I \in SUBSET (DOMAIN s)
      /\ Taken(s, c, n) = At(s, I) /\ Retained(s, c, n) = At(s, DOMAIN s \ I)
  BY <1>1, <1>3, <1>5 DEF Taken, Retained
<1>7. Elems(At(s, I)) = {s[i] : i \in I} /\ Elems(At(s, DOMAIN s \ I)) = {s[i] : i \in DOMAIN s \ I}
  BY <1>6, AtProperties
<1>8. \A e \in Elems(Taken(s, c, n)) : Wanted(c, e)
  BY <1>1, <1>4, <1>5, <1>6, <1>7
<1>9. ASSUME NEW i \in I, NEW j \in DOMAIN s \ I, Wanted(c, s[j]) PROVE s[i].id < s[j].id
  <2>1. j \in W \ FirstOf(W, Room(c, n)) /\ i \in FirstOf(W, Room(c, n))
    BY <1>4, <1>9 DEF I
  <2>2. i < j
    BY <1>1, <1>2, <2>1, FirstOfBefore
  <2> QED
    BY <1>6, <2>2 DEF Ordered
<1>10. ASSUME NEW e \in Elems(Taken(s, c, n)), NEW f \in Elems(Retained(s, c, n)), Wanted(c, f)
       PROVE  e.id < f.id
  <2>1. e \in {s[i] : i \in I} /\ f \in {s[i] : i \in DOMAIN s \ I}
    BY <1>6, <1>7
  <2>2. PICK i \in I : e = s[i]
    BY <2>1
  <2>3. PICK j \in DOMAIN s \ I : f = s[j]
    BY <2>1
  <2> QED
    BY <1>9, <1>10, <2>2, <2>3
<1> QED
  BY <1>8, <1>10

(* A pass that has room left, or room for all, leaves nothing that is wanted. *)
LEMMA TakenAll ==
  ASSUME NEW s \in Seq(Event), Ordered(s), NEW c, NEW n, Room(c, n) \in Nat
  PROVE  /\ Len(Taken(s, c, n)) \in Nat /\ Len(Taken(s, c, n)) <= Room(c, n)
         /\ Len(Taken(s, c, n)) < Room(c, n) \/ Room(c, n) = MaxEvents =>
              \A e \in Elems(Retained(s, c, n)) : ~Wanted(c, e)
<1> DEFINE W == {i \in DOMAIN s : Wanted(c, s[i])}
           I == FirstOf(W, Room(c, n))
<1>1. W \in SUBSET (DOMAIN s) /\ W \in SUBSET Nat /\ IsFiniteSet(W)
  BY IndexSet
<1>2. TakeIdx(s, c, n) = I
  BY DEF TakeIdx
<1>3. \A i \in DOMAIN s : i \in W <=> Wanted(c, s[i])
  OBVIOUS
<1> HIDE DEF W
<1>4. I \in SUBSET W
  BY DEF FirstOf
<1>5. /\ Cardinality(I) <= Room(c, n)
      /\ Cardinality(I) < Room(c, n) => I = W
      /\ Cardinality(W) <= Room(c, n) => I = W
  BY <1>1, FirstOfSize
<1> HIDE DEF I
<1>6. /\ I \in SUBSET (DOMAIN s) /\ DOMAIN s \ I \in SUBSET (DOMAIN s)
      /\ Taken(s, c, n) = At(s, I) /\ Retained(s, c, n) = At(s, DOMAIN s \ I)
  BY <1>1, <1>2, <1>4 DEF Taken, Retained
<1>7. Len(At(s, I)) = Cardinality(I) /\ Cardinality(I) \in Nat
  BY <1>6, AtProperties, IndexSet
<1>8. Elems(At(s, DOMAIN s \ I)) = {s[i] : i \in DOMAIN s \ I}
  BY <1>6, AtProperties
<1>9. Cardinality(W) <= MaxEvents
  <2>1. \A i \in DOMAIN s : s[i] \in Event
    BY LenProperties
  <2>2. Once(s) /\ \A i \in DOMAIN s : s[i].id \in 1 .. MaxEvents
    BY <2>1, EventIds, OrderedOnce
  <2> QED
    BY <1>1, <2>2, IndexBound, EventIds
<1>10. ASSUME I = W, NEW e \in Elems(Retained(s, c, n)) PROVE ~Wanted(c, e)
  <2>1. e \in {s[i] : i \in DOMAIN s \ I}
    BY <1>6, <1>8
  <2>2. PICK i \in DOMAIN s \ I : e = s[i]
    BY <2>1
  <2> QED
    BY <1>3, <1>10, <2>2
<1> QED
  BY <1>5, <1>6, <1>7, <1>9, <1>10

(* Lists in source order, one after the other. *)
LEMMA SourceConcat ==
  ASSUME NEW E, NEW s \in Seq(E), NEW t \in Seq(E)
  PROVE  /\ InSourceOrder(s \o t) => InSourceOrder(s)
         /\ /\ InSourceOrder(s) /\ InSourceOrder(t)
            /\ \A e \in Elems(s), f \in Elems(t) : SameSource(e, f) => e.id < f.id
            => InSourceOrder(s \o t)
         /\ Ordered(s) => InSourceOrder(s)
         /\ InSourceOrder(s \o t) =>
              \A e \in Elems(s), f \in Elems(t) : SameSource(e, f) => e.id < f.id
<1> DEFINE q == s \o t
           m == Len(s)
           n == Len(t)
<1>1. /\ DOMAIN s = 1 .. m /\ DOMAIN t = 1 .. n /\ DOMAIN q = 1 .. (m + n)
      /\ m \in Nat /\ n \in Nat
      /\ \A i \in 1 .. m : q[i] = s[i]
      /\ \A i \in 1 .. n : q[m + i] = t[i]
      /\ \A i \in 1 .. (m + n) : i \in 1 .. m \/ \E j \in 1 .. n : i = m + j
  <2>1. DOMAIN s = 1 .. m /\ DOMAIN t = 1 .. n /\ DOMAIN q = 1 .. (m + n) /\ m \in Nat /\ n \in Nat
    BY ConcatShape
  <2>2. \A i \in 1 .. m : q[i] = s[i]
    BY ConcatShape
  <2>3. \A i \in 1 .. n : q[m + i] = t[i]
    BY ConcatShape
  <2>4. \A i \in 1 .. (m + n) : i \in 1 .. m \/ \E j \in 1 .. n : i = m + j
    BY ConcatShape
  <2> QED
    BY <2>1, <2>2, <2>3, <2>4
<1> HIDE DEF q, m, n
<1>2. \A i \in 1 .. m : i \in 1 .. (m + n)
  BY <1>1
<1>3. InSourceOrder(q) => InSourceOrder(s)
  BY <1>1, <1>2 DEF InSourceOrder
<1>4. Ordered(s) => InSourceOrder(s)
  BY DEF Ordered, InSourceOrder
<1>5. ASSUME InSourceOrder(s), InSourceOrder(t),
             \A e \in Elems(s), f \in Elems(t) : SameSource(e, f) => e.id < f.id,
             NEW i \in DOMAIN q, NEW j \in DOMAIN q, i < j, SameSource(q[i], q[j])
      PROVE  q[i].id < q[j].id
  <2>1. CASE i \in 1 .. m /\ j \in 1 .. m
    BY <1>1, <1>5, <2>1 DEF InSourceOrder
  <2>2. CASE i \in 1 .. m /\ \E l \in 1 .. n : j = m + l
    <3>1. PICK l \in 1 .. n : j = m + l
      BY <2>2
    <3>2. q[i] \in Elems(s) /\ q[j] \in Elems(t)
      BY <1>1, <2>2, <3>1 DEF Elems
    <3> QED
      BY <1>5, <3>2
  <2>3. CASE (\E k \in 1 .. n : i = m + k) /\ \E l \in 1 .. n : j = m + l
    <3>1. PICK k \in 1 .. n, l \in 1 .. n : i = m + k /\ j = m + l
      BY <2>3
    <3>2. k < l
      BY <1>1, <1>5, <3>1
    <3>3. q[i] = t[k] /\ q[j] = t[l]
      BY <1>1, <3>1
    <3> QED
      BY <1>1, <1>5, <3>2, <3>3 DEF InSourceOrder
  <2>4. CASE (\E k \in 1 .. n : i = m + k) /\ j \in 1 .. m
    BY <1>1, <1>5, <2>4
  <2> QED
    BY <1>1, <2>1, <2>2, <2>3, <2>4
<1>6. ASSUME InSourceOrder(q), NEW e \in Elems(s), NEW f \in Elems(t), SameSource(e, f)
      PROVE  e.id < f.id
  <2>1. PICK i \in 1 .. m : e = s[i]
    BY <1>1 DEF Elems
  <2>2. PICK j \in 1 .. n : f = t[j]
    BY <1>1 DEF Elems
  <2>3. i < m + j /\ i \in 1 .. (m + n) /\ (m + j) \in 1 .. (m + n)
    BY <1>1
  <2>4. q[i] = e /\ q[m + j] = f
    BY <1>1, <2>1, <2>2
  <2>5. i \in DOMAIN q /\ (m + j) \in DOMAIN q
    BY <1>1, <2>3
  <2> QED
    BY <1>6, <2>3, <2>4, <2>5 DEF InSourceOrder
<1>7. InSourceOrder(q) => \A e \in Elems(s), f \in Elems(t) : SameSource(e, f) => e.id < f.id
  BY <1>6
<1>8. (/\ InSourceOrder(s) /\ InSourceOrder(t)
       /\ \A e \in Elems(s), f \in Elems(t) : SameSource(e, f) => e.id < f.id)
      => InSourceOrder(q)
  BY <1>5 DEF InSourceOrder
<1> QED
  BY <1>3, <1>4, <1>7, <1>8 DEF q

(* A call that is not satisfied by what was retained has left nothing there that
   it wants. *)
LEMMA UnsatisfiedLeavesNone ==
  ASSUME NEW s \in Seq(Event), Ordered(s), NEW c \in Call, NEW n \in Nat,
         c.fn # "drain" => n = 0,
         ~Satisfied(c, Len(Taken(s, c, n)), n + Len(Filtered(c, Taken(s, c, n))))
  PROVE  \A e \in Elems(Retained(s, c, n)) : ~Wanted(c, e)
<1> DEFINE A == Taken(s, c, n)
           r == Room(c, n)
<1>1. c.fn \in Fns /\ c.max \in Nat /\ MaxEvents \in Nat
  BY EventIds DEF Call
<1>2. r \in Nat
  BY <1>1 DEF Room
<1>3. A \in Seq(Event)
  BY PassParts
<1>4. /\ Len(A) \in Nat /\ Len(A) <= r
      /\ Len(A) < r \/ r = MaxEvents => \A e \in Elems(Retained(s, c, n)) : ~Wanted(c, e)
  BY <1>2, TakenAll
<1> HIDE DEF A
<1>5. c.fn # "drain" => Len(Filtered(c, A)) = Len(A)
  BY <1>3, FilteredPart
<1>6. ~Satisfied(c, Len(A), n + Len(Filtered(c, A)))
  BY DEF A
<1> HIDE DEF r
<1>7. CASE c.fn = "frames_all"
  BY <1>4, <1>7 DEF Room, r
<1>8. CASE c.fn \in {"result", "drain"}
  <2>1. ~(Len(A) > 0)
    BY <1>6, <1>8 DEF Satisfied
  <2>2. r = 1
    BY <1>8 DEF r, Room
  <2> QED
    BY <1>4, <2>1, <2>2
<1>9. CASE c.fn \in {"batch", "await", "frames"}
  <2>1. n = 0 /\ Len(Filtered(c, A)) = Len(A)
    BY <1>5, <1>9
  <2>2. Len(A) # c.max
    BY <1>4, <1>6, <1>9, <2>1 DEF Satisfied
  <2>3. r = c.max
    BY <1>1, <1>9, <2>1 DEF r, Room
  <2> QED
    BY <1>1, <1>4, <2>2, <2>3
<1> QED
  BY <1>1, <1>7, <1>8, <1>9 DEF Fns

(* A pass takes the oldest of each source first, if nothing before it is wanted. *)
LEMMA PassOrder ==
  ASSUME TypeOK, Accounted, NEW t \in Threads, TakenFirst(t),
         NEW a \in Seq(Event), NEW s \in Seq(Event), NEW b \in Seq(Event),
         NEW A, NEW F, NEW K, PassFacts(t, a, s, b, A, F, K),
         pendingEvents \o native = (a \o s) \o b,
         pendingEvents' \o native' = (a \o K) \o b,
         \A e \in Elems(a) : ~Wanted(call[t], e),
         \A e \in Elems(A) : Wanted(call[t], e),
         \A e \in Elems(A), f \in Elems(K) : Wanted(call[t], f) => e.id < f.id
  PROVE  /\ InSourceOrder(Hands'[t])
         /\ \A e \in Elems(Hands'[t]), f \in Elems(pendingEvents' \o native') :
              SameSource(e, f) => e.id < f.id
<1> DEFINE q  == (a \o s) \o b
           q2 == (a \o K) \o b
           z  == Hands[t]
<1>1. /\ A \in Seq(Event) /\ F \in Seq(Event) /\ K \in Seq(Event)
      /\ Elems(s) = Elems(A) \cup Elems(K) /\ Elems(F) \subseteq Elems(A)
      /\ Ordered(F) /\ Hands'[t] = z \o F /\ Elems(Hands'[t]) = Elems(z) \cup Elems(F)
  BY DEF PassFacts
<1>2. \A e : e \in Elems(q) <=> e \in Elems(a) \/ e \in Elems(s) \/ e \in Elems(b)
  BY ThreeParts
<1>3. \A e : e \in Elems(q2) <=> e \in Elems(a) \/ e \in Elems(K) \/ e \in Elems(b)
  BY <1>1, ThreeParts
<1>4. Ordered(q)
  BY DEF Accounted, Kept
<1>5. Before(Ids(s), Ids(b))
  <2>1. Before(Ids(a) \cup Ids(s), Ids(b))
    BY <1>4, ThreeParts
  <2> QED
    BY <2>1 DEF Before
<1>6. z \in Seq(Event)
  BY HandParts
<1>7. InSourceOrder(z) /\ \A e \in Elems(z), f \in Elems(q) : SameSource(e, f) => e.id < f.id
  BY DEF TakenFirst
<1> HIDE DEF q, q2, z
<1>8. InSourceOrder(z \o F)
  <2>1. InSourceOrder(F)
    <3>1. <<>> \in Seq(Event)
      BY EmptyList
    <3> QED
      BY <1>1, <3>1, SourceConcat
  <2>2. \A e \in Elems(z), f \in Elems(F) : SameSource(e, f) => e.id < f.id
    BY <1>1, <1>2, <1>7
  <2> QED
    BY <1>1, <1>6, <1>7, <2>1, <2>2, SourceConcat
<1>9. ASSUME NEW e \in Elems(F), NEW f \in Elems(q2), SameSource(e, f) PROVE e.id < f.id
  <2>1. e \in Elems(A) /\ e \in Elems(s) /\ Wanted(call[t], e)
    BY <1>1
  <2>2. Wanted(call[t], f)
    BY <1>9, <2>1, WantedSame
  <2>3. CASE f \in Elems(a)
    BY <2>2, <2>3
  <2>4. CASE f \in Elems(K)
    BY <2>1, <2>2, <2>4
  <2>5. CASE f \in Elems(b)
    <3>1. e.id \in Ids(s) /\ f.id \in Ids(b)
      BY <2>1, <2>5 DEF Elems, Ids
    <3> QED
      BY <1>5, <3>1 DEF Before
  <2> QED
    BY <1>3, <2>3, <2>4, <2>5
<1>10. ASSUME NEW e \in Elems(z), NEW f \in Elems(q2), SameSource(e, f) PROVE e.id < f.id
  BY <1>1, <1>2, <1>3, <1>7, <1>10
<1> QED
  BY <1>1, <1>8, <1>9, <1>10 DEF q2

-----------------------------------------------------------------------------
\* A step of thread t: the other threads are where they were.
OthersStay(t) ==
  \A u \in Threads \ {t} :
    pc'[u] = pc[u] /\ call'[u] = call[u] /\ acc'[u] = acc[u] /\ seen'[u] = seen[u]

\* No event comes in, and the retained ones and the lock change only while no
\* other thread is in the native runtime.
QueueStep(t) ==
  /\ Elems(pendingEvents' \o native') \subseteq Elems(pendingEvents \o native)
  /\ Elems(native') \subseteq Elems(native)
  /\ \/ pendingEvents' = pendingEvents /\ pollLock' = pollLock
     \/ \A u \in Threads \ {t} : pc[u] # "native"

(* The ids of a list are those of its events. *)
LEMMA IdsOfElems ==
  ASSUME NEW s, NEW r, Elems(s) \subseteq Elems(r)
  PROVE  Ids(s) \subseteq Ids(r)
<1>1. ASSUME NEW i \in Ids(s) PROVE i \in Ids(r)
  <2>1. PICK k \in DOMAIN s : s[k].id = i
    BY DEF Ids
  <2>2. s[k] \in Elems(r)
    BY DEF Elems
  <2> QED
    BY <2>1, <2>2 DEF Elems, Ids
<1> QED
  BY <1>1

(* Such a step keeps what holds of every other thread. *)
LEMMA OthersKeep ==
  ASSUME NEW t \in Threads, OthersStay(t), QueueStep(t), DOMAIN Hands' = Threads,
         NEW u \in Threads \ {t}, ThreadInv(u)
  PROVE  ThreadInv(u)' /\ Hands'[u] = Hands[u]
<1>1. pc'[u] = pc[u] /\ call'[u] = call[u] /\ acc'[u] = acc[u] /\ seen'[u] = seen[u]
  BY DEF OthersStay
<1>2. Hands'[u] = Hands[u]
  BY <1>1 DEF Hands
<1>3. /\ Ids(native') \subseteq Ids(native)
      /\ Ids(pendingEvents' \o native') \subseteq Ids(pendingEvents \o native)
  BY IdsOfElems DEF QueueStep
<1>4. Holding(u)'
  BY <1>1 DEF ThreadInv, Holding
<1>5. CollectedOldest(u)'
  BY <1>1, <1>3 DEF ThreadInv, CollectedOldest, Before
<1>6. TakenFirst(u)'
  BY <1>2 DEF ThreadInv, TakenFirst, QueueStep
<1>7. LockHeld(u)' /\ NoneWantedLeft(u)'
  BY <1>1 DEF ThreadInv, LockHeld, NoneWantedLeft, QueueStep
<1> QED
  BY <1>2, <1>4, <1>5, <1>6, <1>7 DEF ThreadInv

-----------------------------------------------------------------------------
\* The part of TypeOK about the threads.
ThreadTypes ==
  /\ pc \in [Threads -> {"idle", "lock", "native", "again", "convert", "each", "remember", "send"}]
  /\ call \in [Threads -> Call]
  /\ acc \in [Threads -> Seq(Event)]
  /\ seen \in [Threads -> Seq(Event)]

(* The calls a thread can be in. *)
LEMMA CallTypes ==
  /\ NoCall \in Call
  /\ \A c \in PollCalls : c \in Call
  /\ \A o \in Ops : [NoCall EXCEPT !.op = o] \in Call
<1>1. NoCall \in Call
  <2>1. AnyKind \in KindFilters
    BY DEF KindFilters
  <2>2. 0 \in Nat /\ "batch" \in Fns /\ "return" \in Uses
    BY DEF Fns, Uses
  <2> QED
    BY <2>1, <2>2 DEF NoCall, Call
<1>2. \A o \in Ops : [NoCall EXCEPT !.op = o] \in Call
  BY <1>1 DEF Call
<1> QED
  BY <1>1, <1>2, CallsAssumption

(* How the poll in a call ends: with its events, or on to their conversion or to
   handing them out. *)
LEMMA FinishTypes ==
  ASSUME TypeOK, NEW t \in Threads, NEW s \in Seq(Event), Finish(t, s)
  PROVE  /\ ThreadTypes' /\ OthersStay(t)
         /\ \/ /\ pc'[t] = "idle" /\ acc'[t] = <<>> /\ seen'[t] = seen[t] \o s
            \/ /\ pc'[t] \in {"each", "convert"} /\ acc'[t] = s /\ seen'[t] = seen[t] /\ s # <<>>
<1>1. ThreadTypes
  BY DEF TypeOK, ThreadTypes
<1>2. NoCall \in Call /\ <<>> \in Seq(Event)
  BY CallTypes, EmptyList
<1>3. seen[t] \o s \in Seq(Event)
  BY <1>1, ConcatShape DEF ThreadTypes
<1>4. CASE Return(t, s)
  BY <1>1, <1>2, <1>3, <1>4 DEF ThreadTypes, Return, Goto, OthersStay
<1>5. ASSUME NEW to \in {"each", "convert"}, Goto(t, to), acc' = [acc EXCEPT ![t] = s],
             UNCHANGED <<call, seen>>, s # <<>>
      PROVE  /\ ThreadTypes' /\ OthersStay(t)
             /\ pc'[t] = to /\ acc'[t] = s /\ seen'[t] = seen[t]
  BY <1>1, <1>5 DEF ThreadTypes, Goto, OthersStay
<1>6. \/ Return(t, s)
      \/ /\ \E to \in {"each", "convert"} : Goto(t, to)
         /\ acc' = [acc EXCEPT ![t] = s] /\ UNCHANGED <<call, seen>> /\ s # <<>>
  BY DEF Finish
<1> QED
  BY <1>4, <1>5, <1>6

(* A call that raises. *)
LEMMA RaiseTypes ==
  ASSUME TypeOK, NEW t \in Threads, NEW gone \in SUBSET (1 .. MaxEvents), Raise(t, gone)
  PROVE  /\ ThreadTypes' /\ OthersStay(t)
         /\ pc'[t] = "idle" /\ acc'[t] = <<>> /\ seen'[t] = seen[t]
         /\ lost' = lost \cup (Ids(acc[t]) \cup gone) /\ lost' \subseteq 1 .. MaxEvents
         /\ discarded' = discarded
<1>1. ThreadTypes /\ lost \subseteq 1 .. MaxEvents
  BY DEF TypeOK, ThreadTypes
<1>2. NoCall \in Call /\ <<>> \in Seq(Event)
  BY CallTypes, EmptyList
<1>3. Ids(acc[t]) \subseteq 1 .. MaxEvents
  BY <1>1, EventIds DEF ThreadTypes
<1>4. ThreadTypes' /\ OthersStay(t) /\ pc'[t] = "idle" /\ acc'[t] = <<>> /\ seen'[t] = seen[t]
  BY <1>1, <1>2 DEF ThreadTypes, Raise, Goto, OthersStay
<1> QED
  BY <1>1, <1>3, <1>4 DEF Raise

(* What a pass collects, leaves and throws away. *)
LEMMA PassTypes ==
  ASSUME TypeOK, NEW t \in Threads, NEW s \in Seq(Event), NEW c
  PROVE  /\ Taken(s, c, Len(acc[t])) \in Seq(Event)
         /\ Retained(s, c, Len(acc[t])) \in Seq(Event)
         /\ Filtered(c, Taken(s, c, Len(acc[t]))) \in Seq(Event)
         /\ Collect(acc[t], Filtered(c, Taken(s, c, Len(acc[t])))) \in Seq(Event)
         /\ Ids(Taken(s, c, Len(acc[t]))) \subseteq 1 .. MaxEvents
<1> DEFINE A == Taken(s, c, Len(acc[t]))
<1>1. A \in Seq(Event) /\ Retained(s, c, Len(acc[t])) \in Seq(Event)
  BY PassParts
<1>2. acc[t] \in Seq(Event)
  BY DEF TypeOK
<1> HIDE DEF A
<1>3. Filtered(c, A) \in Seq(Event)
  BY <1>1, FilteredPart
<1>4. Collect(acc[t], Filtered(c, A)) \in Seq(Event)
  BY <1>2, <1>3, ConcatShape DEF Collect
<1>5. Ids(A) \subseteq 1 .. MaxEvents
  BY <1>1, EventIds
<1> QED
  BY <1>1, <1>3, <1>4, <1>5 DEF A

\* The part of TypeOK about everything else.
RestTypes ==
  /\ closed \in BOOLEAN
  /\ pollLock \in Threads \cup {NoThread}
  /\ pendingEvents \in Seq(Event)
  /\ operationFrames \in [Ops -> Nat]
  /\ native \in Seq(Event)
  /\ nativeOp \in [Ops -> {"new", "live", "resulted", "done"}]
  /\ discarded \subseteq 1..MaxEvents
  /\ lost \subseteq 1..MaxEvents
  /\ log \in Seq(Event)
  /\ returned \subseteq Ops
  /\ cancelled \subseteq Ops

(* The two halves are all of it, before and after a step. *)
LEMMA TypeParts ==
  /\ TypeOK <=> RestTypes /\ ThreadTypes
  /\ TypeOK' <=> RestTypes' /\ ThreadTypes'
BY DEF TypeOK, RestTypes, ThreadTypes

(* Whatever is forgotten, frame ids stay numbers. *)
LEMMA ForgetTypes ==
  ASSUME NEW frames \in [Ops -> Nat], NEW released
  PROVE  /\ Forget(frames, released) \in [Ops -> Nat]
         /\ \A o \in Ops : Forget(frames, released)[o] = IF o \in released THEN 0 ELSE frames[o]
BY DEF Forget

(* A pass over _pending_events. *)
LEMMA PollTakeTypes ==
  ASSUME TypeOK, NEW t \in Threads, PollTake(t)
  PROVE  TypeOK' /\ OthersStay(t)
<1> DEFINE c == call[t]
           A == Taken(pendingEvents, c, Len(acc[t]))
           k == Collect(acc[t], Filtered(c, A))
<1>1. RestTypes /\ ThreadTypes
  BY TypeParts
<1>2. /\ A \in Seq(Event) /\ k \in Seq(Event) /\ Ids(A) \subseteq 1 .. MaxEvents
      /\ Retained(pendingEvents, c, Len(acc[t])) \in Seq(Event)
  BY <1>1, PassTypes DEF RestTypes
<1>3. /\ pendingEvents' = Retained(pendingEvents, c, Len(acc[t]))
      /\ discarded' = discarded \cup (Ids(A) \ Ids(k))
      /\ pollLock' \in {NoThread, t}
      /\ UNCHANGED <<closed, native, nativeOp, lost, log, bindingVars>>
      /\ \/ Finish(t, k)
         \/ /\ \E to \in {"again", "native"} : Goto(t, to)
            /\ acc' = [acc EXCEPT ![t] = k]
            /\ UNCHANGED <<call, seen>>
  BY DEF PollTake
<1> HIDE DEF c, A, k
<1>4. RestTypes'
  BY <1>1, <1>2, <1>3 DEF RestTypes, bindingVars
<1>5. CASE Finish(t, k)
  BY <1>2, <1>4, <1>5, FinishTypes, TypeParts
<1>6. CASE /\ \E to \in {"again", "native"} : Goto(t, to)
           /\ acc' = [acc EXCEPT ![t] = k]
           /\ UNCHANGED <<call, seen>>
  <2>1. ThreadTypes' /\ OthersStay(t)
    BY <1>1, <1>2, <1>6 DEF ThreadTypes, Goto, OthersStay
  <2> QED
    BY <1>4, <2>1, TypeParts
<1> QED
  BY <1>3, <1>5, <1>6

\* The return of a native call with n events.
Returns(t, n) ==
  LET c     == call[t]
      batch == SubSeq(native, 1, n)
      took  == Taken(batch, c, Len(acc[t]))
      keep  == Collect(acc[t], Filtered(c, took))
      loops == c.fn = "frames_all" /\ n > 0
  IN /\ pc[t] = "native"
     /\ native' = SubSeq(native, n + 1, Len(native))
     /\ operationFrames' = ObservePolledEvents(batch)
     /\ pendingEvents' = pendingEvents \o Retained(batch, c, Len(acc[t]))
     /\ discarded' = discarded \cup (Ids(took) \ Ids(keep))
     /\ pollLock' = IF loops THEN t ELSE NoThread
     /\ \/ Finish(t, keep)
        \/ /\ IF loops THEN Goto(t, "native") ELSE c.fn = "drain" /\ Goto(t, "again")
           /\ acc' = [acc EXCEPT ![t] = keep]
           /\ UNCHANGED <<call, seen>>
     /\ UNCHANGED <<closed, nativeOp, lost, log, returned, cancelled>>

(* PollReturn is such a return. *)
LEMMA PollReturns ==
  ASSUME NEW t \in Threads, PollReturn(t)
  PROVE  \E n \in 0 .. Len(native) : Returns(t, n)
BY DEF PollReturn, Returns

(* The return of a native call. *)
LEMMA ReturnsTypes ==
  ASSUME TypeOK, NEW t \in Threads, NEW n \in 0 .. Len(native), Returns(t, n)
  PROVE  TypeOK' /\ OthersStay(t)
<1> DEFINE c == call[t]
           B == SubSeq(native, 1, n)
           r == SubSeq(native, n + 1, Len(native))
           A == Taken(B, c, Len(acc[t]))
           K == Retained(B, c, Len(acc[t]))
           k == Collect(acc[t], Filtered(c, A))
           R == UNION {Releases(B[i]) : i \in DOMAIN B}
<1>1. RestTypes /\ ThreadTypes
  BY TypeParts
<1>2. B \in Seq(Event) /\ r \in Seq(Event)
  BY BatchParts
<1>3. /\ native' = r /\ pendingEvents' = pendingEvents \o K
      /\ operationFrames' = Forget(operationFrames, R)
      /\ discarded' = discarded \cup (Ids(A) \ Ids(k))
      /\ pollLock' \in {NoThread, t}
      /\ UNCHANGED <<closed, nativeOp, lost, log, returned, cancelled>>
      /\ \/ Finish(t, k)
         \/ /\ \E to \in {"again", "native"} : Goto(t, to)
            /\ acc' = [acc EXCEPT ![t] = k]
            /\ UNCHANGED <<call, seen>>
  BY DEF Returns, ObservePolledEvents
<1> HIDE DEF c, B, r, R
<1>4. A \in Seq(Event) /\ k \in Seq(Event) /\ Ids(A) \subseteq 1 .. MaxEvents /\ K \in Seq(Event)
  BY <1>2, PassTypes
<1> HIDE DEF A, K, k
<1>5. pendingEvents \o K \in Seq(Event)
  BY <1>1, <1>4, ConcatShape DEF RestTypes
<1>6. Forget(operationFrames, R) \in [Ops -> Nat]
  BY <1>1, ForgetTypes DEF RestTypes
<1>7. RestTypes'
  BY <1>1, <1>2, <1>3, <1>4, <1>5, <1>6 DEF RestTypes
<1>8. CASE Finish(t, k)
  BY <1>4, <1>7, <1>8, FinishTypes, TypeParts
<1>9. CASE /\ \E to \in {"again", "native"} : Goto(t, to)
           /\ acc' = [acc EXCEPT ![t] = k]
           /\ UNCHANGED <<call, seen>>
  <2>1. ThreadTypes' /\ OthersStay(t)
    BY <1>1, <1>4, <1>9 DEF ThreadTypes, Goto, OthersStay
  <2> QED
    BY <1>7, <2>1, TypeParts
<1> QED
  BY <1>3, <1>8, <1>9

\* A native call that raises after n events left the native queue and m of them were
\* observed; what is kept of the first l is retained.
RaisesAfter(t, n, m, l, kept) ==
  /\ pc[t] = "native"
  /\ l <= m /\ m <= n
  /\ native' = SubSeq(native, n + 1, Len(native))
  /\ operationFrames' = ObservePolledEvents(SubSeq(native, 1, m))
  /\ pendingEvents' = pendingEvents \o kept
  /\ kept \in {<<>>, Retained(SubSeq(native, 1, l), call[t], Len(acc[t]))}
  /\ pollLock' = NoThread
  /\ Raise(t, Ids(SubSeq(native, 1, n)) \ Ids(kept))
  /\ UNCHANGED <<closed, nativeOp, log, returned, cancelled>>

(* A call goes through the events before the first bad one of the batch, and observes
   those, or that one too. *)
LEMMA ObservedBound ==
  ASSUME NEW c, NEW s \in Seq(Event), Bad(c, s) # {}
  PROVE  /\ GoneThrough(c, s) \in Nat /\ Observed(c, s) \in Nat
         /\ GoneThrough(c, s) <= Observed(c, s) /\ Observed(c, s) <= Len(s)
<1> DEFINE bad == Bad(c, s)
<1>1. bad # {} /\ bad \in SUBSET (DOMAIN s)
  BY DEF Bad, Unfit
<1>2. DOMAIN s = 1 .. Len(s) /\ Len(s) \in Nat
  BY LenProperties
<1>3. /\ GoneThrough(c, s) \in {0, (CHOOSE i \in bad : \A j \in bad : i <= j) - 1}
      /\ Observed(c, s) \in {GoneThrough(c, s), GoneThrough(c, s) + 1}
  BY DEF GoneThrough, Observed
<1> HIDE DEF bad
<1>4. bad \in SUBSET Nat /\ IsFiniteSet(bad)
  BY <1>1, IndexSet
<1>5. \E i \in bad : \A j \in bad : i <= j
  BY <1>1, <1>4, LeastOf
<1>6. (CHOOSE i \in bad : \A j \in bad : i <= j) \in bad
  BY <1>5
<1>7. PICK i \in 1 .. Len(s) : GoneThrough(c, s) \in {0, i - 1}
  BY <1>1, <1>2, <1>3, <1>6
<1> QED
  BY <1>2, <1>3, <1>7

(* PollDecodeFail is such a step. *)
LEMMA DecodeRaises ==
  ASSUME TypeOK, NEW t \in Threads, PollDecodeFail(t)
  PROVE  \E n \in 1 .. Len(native), m \in 0 .. Len(native), l \in 0 .. Len(native) :
           \E kept : RaisesAfter(t, n, m, l, kept)
<1>1. native \in Seq(Event) /\ Len(native) \in Nat
  BY LenProperties DEF TypeOK
<1>2. PICK n \in 1 .. Len(native) :
        LET c      == call[t]
            batch  == SubSeq(native, 1, n)
            before == SubSeq(native, 1, GoneThrough(c, batch))
            kept   == IF c.fn = "result" THEN Retained(before, c, Len(acc[t])) ELSE <<>>
        IN /\ pc[t] = "native"
           /\ ~closed
           /\ n <= NativeLimit(c, Len(acc[t]))
           /\ Bad(c, batch) # {}
           /\ native' = SubSeq(native, n + 1, Len(native))
           /\ operationFrames' = ObservePolledEvents(SubSeq(native, 1, Observed(c, batch)))
           /\ pendingEvents' = pendingEvents \o kept
           /\ pollLock' = NoThread
           /\ Raise(t, Ids(batch) \ Ids(kept))
           /\ UNCHANGED <<closed, nativeOp, log, returned, cancelled>>
  BY DEF PollDecodeFail
<1> DEFINE c      == call[t]
           batch  == SubSeq(native, 1, n)
           m      == Observed(c, batch)
           l      == GoneThrough(c, batch)
           before == SubSeq(native, 1, l)
           kept   == IF c.fn = "result" THEN Retained(before, c, Len(acc[t])) ELSE <<>>
<1>3. n \in 0 .. Len(native) /\ n \in Nat
  BY <1>1
<1>4. batch \in Seq(Event) /\ Len(batch) = n
  BY <1>1, <1>3, SplitAt, SubSeqProperties
<1>5. l \in Nat /\ m \in Nat /\ l <= m /\ m <= n
  BY <1>2, <1>4, ObservedBound
<1>6. m \in 0 .. Len(native) /\ l \in 0 .. Len(native)
  BY <1>1, <1>3, <1>5
<1>7. RaisesAfter(t, n, m, l, kept)
  BY <1>2, <1>5 DEF RaisesAfter
<1> QED
  BY <1>6, <1>7

(* What a raising native call keeps of its batch. *)
LEMMA RaisesTypes ==
  ASSUME TypeOK, NEW t \in Threads, NEW n \in 1 .. Len(native), NEW m \in 0 .. Len(native),
         NEW l \in 0 .. Len(native), NEW kept, RaisesAfter(t, n, m, l, kept)
  PROVE  TypeOK' /\ OthersStay(t) /\ kept \in Seq(Event)
<1> DEFINE B == SubSeq(native, 1, n)
           r == SubSeq(native, n + 1, Len(native))
           S == SubSeq(native, 1, m)
           G == SubSeq(native, 1, l)
           R == UNION {Releases(S[i]) : i \in DOMAIN S}
           g == Ids(B) \ Ids(kept)
<1>1. RestTypes /\ ThreadTypes
  BY TypeParts
<1>2. n \in 0 .. Len(native)
  BY <1>1, LenProperties DEF RestTypes
<1>3. B \in Seq(Event) /\ r \in Seq(Event) /\ G \in Seq(Event)
  BY <1>2, BatchParts
<1>4. kept \in {<<>>, Retained(G, call[t], Len(acc[t]))}
  BY DEF RaisesAfter
<1>5. kept \in Seq(Event)
  BY <1>3, <1>4, PassTypes, EmptyList, ZenonT(30)
<1>6. g \in SUBSET (1 .. MaxEvents)
  BY <1>3, EventIds
<1>7. /\ native' = r /\ pendingEvents' = pendingEvents \o kept
      /\ operationFrames' = Forget(operationFrames, R)
      /\ pollLock' = NoThread /\ Raise(t, g)
      /\ UNCHANGED <<closed, nativeOp, log, returned, cancelled>>
  BY DEF RaisesAfter, ObservePolledEvents
<1> HIDE DEF r, R, g
<1>8. pendingEvents \o kept \in Seq(Event)
  BY <1>1, <1>5, ConcatShape DEF RestTypes
<1>9. Forget(operationFrames, R) \in [Ops -> Nat]
  BY <1>1, ForgetTypes DEF RestTypes
<1>10. ThreadTypes' /\ OthersStay(t) /\ lost' \subseteq 1 .. MaxEvents /\ discarded' = discarded
  BY <1>6, <1>7, RaiseTypes
<1>11. RestTypes'
  BY <1>1, <1>3, <1>7, <1>8, <1>9, <1>10 DEF RestTypes
<1> QED
  BY <1>5, <1>10, <1>11, TypeParts

\* A step of a thread that is not receiving: the queues and what anyone holds
\* stay.
QuietStep(t) ==
  /\ pc[t] \in {"idle", "remember", "send"}
  /\ pc'[t] \in {"idle", "lock", "remember", "send"}
  /\ pc'[t] \in {"remember", "send"} => call'[t].op \in Ops
  /\ UNCHANGED <<acc, log, queueVars>>

QuietAction(t) ==
  \/ \E c \in PollCalls : PollBegin(t, c)
  \/ \E o \in Ops : SubmitNative(t, o)
  \/ RememberOperationFrame(t)
  \/ \E o \in Ops : Cancel(t, o)
  \/ \E o \in Ops : ControlLookup(t, o)
  \/ ControlSent(t)
  \/ Close(t)

(* Which actions are of that kind. *)
LEMMA QuietTypes ==
  ASSUME TypeOK, NEW t \in Threads, Holding(t), QuietAction(t)
  PROVE  TypeOK' /\ OthersStay(t) /\ QuietStep(t)
<1> USE DEF queueVars, bindingVars, threadVars
<1>1. RestTypes /\ ThreadTypes
  BY TypeParts
<1>2. FrameOf \in [Ops -> Nat]
  BY FrameAssumption
<1>3. NoCall \in Call /\ \A o \in Ops : [NoCall EXCEPT !.op = o] \in Call
  BY CallTypes
<1>4. \A o \in Ops : [NoCall EXCEPT !.op = o].op = o
  BY DEF NoCall
<1>5. ASSUME NEW c \in PollCalls, PollBegin(t, c) PROVE TypeOK' /\ OthersStay(t) /\ QuietStep(t)
  <2>1. RestTypes'
    BY <1>1, <1>5 DEF RestTypes, PollBegin
  <2>2. c \in Call
    BY CallTypes
  <2>3. ThreadTypes' /\ OthersStay(t) /\ pc'[t] = "lock"
    BY <1>1, <1>5, <2>2 DEF ThreadTypes, PollBegin, Goto, OthersStay
  <2> QED
    BY <1>5, <2>1, <2>3, TypeParts DEF QuietStep, PollBegin
<1>6. ASSUME NEW o \in Ops, SubmitNative(t, o) PROVE TypeOK' /\ OthersStay(t) /\ QuietStep(t)
  <2>1. RestTypes'
    BY <1>1, <1>6 DEF RestTypes, SubmitNative
  <2>2. ThreadTypes' /\ OthersStay(t) /\ pc'[t] = "remember" /\ call'[t] = [NoCall EXCEPT !.op = o]
    BY <1>1, <1>3, <1>6 DEF ThreadTypes, SubmitNative, Goto, OthersStay
  <2> QED
    BY <1>4, <1>6, <2>1, <2>2, TypeParts DEF QuietStep, SubmitNative
<1>7. CASE RememberOperationFrame(t)
  <2>1. call[t].op \in Ops
    BY <1>7 DEF Holding, RememberOperationFrame
  <2>2. RestTypes'
    BY <1>1, <1>2, <1>7, <2>1 DEF RestTypes, RememberOperationFrame
  <2>3. ThreadTypes' /\ OthersStay(t) /\ pc'[t] = "idle"
    BY <1>1, <1>3, <1>7 DEF ThreadTypes, RememberOperationFrame, Goto, OthersStay
  <2> QED
    BY <1>7, <2>2, <2>3, TypeParts DEF QuietStep, RememberOperationFrame
<1>8. ASSUME NEW o \in Ops, Cancel(t, o) PROVE TypeOK' /\ OthersStay(t) /\ QuietStep(t)
  <2>1. RestTypes'
    BY <1>1, <1>8, ForgetTypes DEF RestTypes, Cancel
  <2>2. ThreadTypes' /\ OthersStay(t) /\ pc'[t] = "idle"
    BY <1>1, <1>8 DEF ThreadTypes, Cancel, OthersStay
  <2> QED
    BY <1>8, <2>1, <2>2, TypeParts DEF QuietStep, Cancel
<1>9. ASSUME NEW o \in Ops, ControlLookup(t, o) PROVE TypeOK' /\ OthersStay(t) /\ QuietStep(t)
  <2>1. RestTypes'
    BY <1>1, <1>9 DEF RestTypes, ControlLookup
  <2>2. ThreadTypes' /\ OthersStay(t) /\ pc'[t] = "send" /\ call'[t] = [NoCall EXCEPT !.op = o]
    BY <1>1, <1>3, <1>9 DEF ThreadTypes, ControlLookup, Goto, OthersStay
  <2> QED
    BY <1>4, <1>9, <2>1, <2>2, TypeParts DEF QuietStep, ControlLookup
<1>10. CASE ControlSent(t)
  <2>1. call[t].op \in Ops
    BY <1>10 DEF Holding, ControlSent
  <2>2. operationFrames' \in [Ops -> Nat] /\ cancelled' \subseteq Ops
    <3>1. operationFrames \in [Ops -> Nat] /\ cancelled \subseteq Ops
      BY <1>1 DEF RestTypes
    <3>2. Forget(operationFrames, {call[t].op}) \in [Ops -> Nat]
      BY <3>1, ForgetTypes
    <3>3. \/ UNCHANGED <<operationFrames, cancelled>>
          \/ /\ operationFrames' = Forget(operationFrames, {call[t].op})
             /\ cancelled' = cancelled \cup {call[t].op}
      BY <1>10 DEF ControlSent
    <3> QED
      BY <2>1, <3>1, <3>2, <3>3
  <2>3. RestTypes'
    BY <1>1, <1>10, <2>2 DEF RestTypes, ControlSent
  <2>4. ThreadTypes' /\ OthersStay(t) /\ pc'[t] = "idle"
    BY <1>1, <1>3, <1>10 DEF ThreadTypes, ControlSent, Goto, OthersStay
  <2> QED
    BY <1>10, <2>3, <2>4, TypeParts DEF QuietStep, ControlSent
<1>11. CASE Close(t)
  <2>1. RestTypes'
    BY <1>1, <1>11 DEF RestTypes, Close
  <2>2. ThreadTypes' /\ OthersStay(t) /\ pc'[t] = "idle"
    BY <1>1, <1>11 DEF ThreadTypes, Close, OthersStay
  <2> QED
    BY <1>11, <2>1, <2>2, TypeParts DEF QuietStep, Close
<1> QED
  BY <1>5, <1>6, <1>7, <1>8, <1>9, <1>10, <1>11 DEF QuietAction

-----------------------------------------------------------------------------
(* While the lock is free, or held by t in the native runtime, no other thread is
   in there. *)
LEMMA OnlyHolder ==
  ASSUME NEW t \in Threads, \A u \in Threads : ThreadInv(u), pollLock = NoThread \/ pc[t] = "native"
  PROVE  \A u \in Threads \ {t} : pc[u] # "native"
<1>1. \A u \in Threads : pc[u] = "native" => pollLock = u
  BY DEF ThreadInv, LockHeld
<1> QED
  BY <1>1, ThreadsAssumption

(* What is left to show of a thread's step. *)
LEMMA StepKeeps ==
  ASSUME QueueInv, NEW t \in Threads, TypeOK', Accounted', OthersStay(t), QueueStep(t), ThreadInv(t)'
  PROVE  QueueInv'
<1>1. DOMAIN Hands' = Threads
  BY DEF Hands
<1>2. \A u \in Threads \ {t} : ThreadInv(u)'
  BY <1>1, OthersKeep DEF QueueInv
<1> QED
  BY <1>2 DEF QueueInv

(* A step that is not receiving. *)
LEMMA QuietKeeps ==
  ASSUME QueueInv, NEW t \in Threads, QuietAction(t)
  PROVE  QueueInv'
<1>1. TypeOK /\ Accounted /\ ThreadInv(t)
  BY DEF QueueInv
<1>2. TypeOK' /\ OthersStay(t) /\ QuietStep(t)
  BY <1>1, QuietTypes DEF ThreadInv
<1>3. /\ acc' = acc /\ seen' = seen /\ pendingEvents' = pendingEvents /\ native' = native
      /\ pollLock' = pollLock /\ lost' = lost /\ discarded' = discarded /\ log' = log
  BY <1>2 DEF QuietStep, queueVars
<1>4. Hands' = Hands
  BY <1>3 DEF Hands
<1>5. Accounted' /\ QueueStep(t)
  BY <1>1, <1>3, <1>4 DEF Accounted, QueueStep
<1>6. acc'[t] = <<>>
  BY <1>1, <1>2, <1>3 DEF QuietStep, ThreadInv, Holding
<1>7. LockHeld(t)' /\ NoneWantedLeft(t)' /\ Holding(t)'
  BY <1>2, <1>6 DEF QuietStep, LockHeld, NoneWantedLeft, Holding
<1>8. CollectedOldest(t)'
  <2>1. Ordered(acc'[t]) /\ Ids(acc'[t]) = {}
    BY <1>6, EmptyList
  <2> QED
    BY <2>1 DEF CollectedOldest, Before
<1>9. TakenFirst(t)'
  BY <1>1, <1>3, <1>4 DEF ThreadInv, TakenFirst
<1> QED
  BY <1>2, <1>5, <1>7, <1>8, <1>9, StepKeeps DEF ThreadInv

\* Where a call is after a pass, with k in its hands.
After(t, k) ==
  \/ pc'[t] = "idle" /\ acc'[t] = <<>> /\ seen'[t] = seen[t] \o k
  \/ /\ acc'[t] = k /\ seen'[t] = seen[t]
     /\ \/ pc'[t] = "each" /\ k # <<>>
        \/ pc'[t] = "convert"
        \/ pc'[t] = "native" /\ call'[t] = call[t]
        \/ pc'[t] = "again" /\ call'[t] = call[t] /\ call[t].fn = "drain"

(* What everyone has then. *)
LEMMA HandsAfter ==
  ASSUME TypeOK, NEW t \in Threads, NEW k \in Seq(Event), OthersStay(t), After(t, k)
  PROVE  /\ DOMAIN Hands' = Threads /\ Hands'[t] = seen[t] \o k
         /\ \A u \in Threads \ {t} : Hands'[u] = Hands[u]
<1>1. DOMAIN Hands' = Threads /\ Hands'[t] = seen'[t] \o acc'[t]
  BY DEF Hands
<1>2. \A u \in Threads \ {t} : Hands'[u] = Hands[u]
  BY DEF Hands, OthersStay
<1>3. seen[t] \o k \in Seq(Event)
  BY ConcatShape DEF TypeOK
<1>4. (seen[t] \o k) \o <<>> = seen[t] \o k
  BY <1>3, EmptyList
<1> QED
  BY <1>1, <1>2, <1>4 DEF After

(* What a call collects stays in order and ahead of X, if X is behind the list. *)
LEMMA PassCollected ==
  ASSUME TypeOK, NEW t \in Threads, NEW a, NEW s, NEW b, NEW A, NEW F, NEW K, NEW X,
         PassFacts(t, a, s, b, A, F, K),
         Ordered(acc[t]), Before(Ids(acc[t]), Ids(s)), Before(Ids(acc[t]), X), Before(Ids(F), X)
  PROVE  Ordered(acc[t] \o F) /\ Before(Ids(acc[t] \o F), X)
<1> DEFINE y == acc[t]
<1>1. y \in Seq(Event) /\ F \in Seq(Event)
  BY DEF TypeOK, PassFacts
<1>2. Ordered(F) /\ Ids(F) \subseteq Ids(s)
  BY DEF PassFacts
<1>3. Before(Ids(y), Ids(F))
  BY <1>2 DEF Before
<1>4. Ordered(y) /\ Before(Ids(y), X)
  OBVIOUS
<1> HIDE DEF y
<1>5. Ids(y \o F) = Ids(y) \cup Ids(F) /\ Ordered(y \o F)
  BY <1>1, <1>2, <1>3, <1>4, ConcatContents
<1>6. Before(Ids(y) \cup Ids(F), X)
  BY <1>4 DEF Before
<1> QED
  BY <1>5, <1>6 DEF y

(* One pass of a call, over the retained events or over a batch: everything that is
   true of the session stays true. *)
LEMMA PassKeeps ==
  ASSUME QueueInv, NEW t \in Threads, TypeOK', OthersStay(t),
         NEW a \in Seq(Event), NEW s \in Seq(Event), NEW b \in Seq(Event),
         pendingEvents \o native = (a \o s) \o b,
         pendingEvents' \o native' = (a \o Retained(s, call[t], Len(acc[t]))) \o b,
         NEW k, k = Collect(acc[t], Filtered(call[t], Taken(s, call[t], Len(acc[t])))),
         discarded' = discarded \cup (Ids(Taken(s, call[t], Len(acc[t]))) \ Ids(k)),
         lost' = lost, log' = log, After(t, k), Elems(native') \subseteq Elems(native),
         pollLock = NoThread \/ pc[t] = "native",
         \A e \in Elems(a) : ~Wanted(call[t], e),
         Before(Ids(acc[t]), Ids(s)), Before(Ids(acc[t]), Ids(b)),
         pc'[t] = "native" => /\ pollLock' = t /\ Ids(native') \subseteq Ids(b)
                              /\ \A e \in Elems(pendingEvents') : ~Wanted(call[t], e)
  PROVE  QueueInv'
<1> DEFINE c == call[t]
           A == Taken(s, c, Len(acc[t]))
           F == Filtered(c, A)
           K == Retained(s, c, Len(acc[t]))
<1>1. TypeOK /\ Accounted /\ ThreadInv(t) /\ c \in Call /\ acc[t] \in Seq(Event) /\ Len(acc[t]) \in Nat
  BY LenProperties DEF QueueInv, TypeOK
<1>2. k \in Seq(Event) /\ k = acc[t] \o F
  BY <1>1, PassTypes DEF Collect
<1>3. /\ DOMAIN Hands' = Threads /\ Hands'[t] = seen[t] \o k
      /\ \A u \in Threads \ {t} : Hands'[u] = Hands[u]
  BY <1>1, <1>2, HandsAfter
<1>4. PassOver(t, a, s, b)
  BY <1>3 DEF PassOver
<1>5. Accounted'
  BY <1>1, <1>4, PassAccounted
<1>6. PassFacts(t, a, s, b, A, F, K)
  BY <1>1, <1>4, PassFactsHold
<1>7. Ordered(s) /\ K \in Seq(Event)
  BY <1>6 DEF PassFacts
<1>8. /\ \A e \in Elems(A) : Wanted(c, e)
      /\ \A e \in Elems(A), f \in Elems(K) : Wanted(c, f) => e.id < f.id
  BY <1>1, <1>7, TakenOldest
<1>9. pendingEvents' \o native' = (a \o K) \o b /\ \A e \in Elems(a) : ~Wanted(c, e)
  OBVIOUS
<1> HIDE DEF A, F, K, c
<1>10. TakenFirst(t)'
  BY <1>1, <1>6, <1>8, <1>9, PassOrder DEF TakenFirst, ThreadInv, c
<1>11. /\ \A e : e \in Elems((a \o s) \o b) <=> e \in Elems(a) \/ e \in Elems(s) \/ e \in Elems(b)
       /\ Before(Ids(a) \cup Ids(s), Ids(b))
  <2>1. Ordered((a \o s) \o b)
    BY <1>1 DEF Accounted, Kept
  <2> QED
    BY <2>1, ThreeParts
<1>12. /\ \A e : e \in Elems((a \o K) \o b) <=> e \in Elems(a) \/ e \in Elems(K) \/ e \in Elems(b)
       /\ \A i : i \in Ids((a \o K) \o b) <=> i \in Ids(a) \/ i \in Ids(K) \/ i \in Ids(b)
  BY <1>7, ThreeParts, ZenonT(30)
<1>13. QueueStep(t)
  <2>1. Elems(pendingEvents' \o native') \subseteq Elems(pendingEvents \o native)
    BY <1>6, <1>9, <1>11, <1>12 DEF PassFacts
  <2>2. \A u \in Threads \ {t} : pc[u] # "native"
    BY OnlyHolder DEF QueueInv
  <2> QED
    BY <2>1, <2>2 DEF QueueStep
<1>14. LockHeld(t)' /\ NoneWantedLeft(t)' /\ Holding(t)'
  BY DEF After, LockHeld, NoneWantedLeft, Holding
<1>15. Before(Ids(F), Ids(b))
  BY <1>6, <1>11 DEF PassFacts, Before
<1>16. Ordered(acc[t])
  BY <1>1 DEF ThreadInv, CollectedOldest
<1>17. Ordered(k) /\ Before(Ids(k), Ids(b))
  BY <1>1, <1>2, <1>6, <1>15, <1>16, PassCollected
<1>18. ASSUME c.fn = "drain" PROVE Before(Ids(k), Ids(pendingEvents' \o native'))
  <2>1. \A e : Wanted(c, e)
    BY <1>18 DEF Wanted
  <2>2. Ids(a) = {}
    BY <1>9, <2>1 DEF Ids, Elems
  <2>3. ASSUME NEW i \in Ids(F), NEW j \in Ids(K) PROVE i < j
    <3>1. PICK e \in Elems(F) : e.id = i
      BY DEF Ids, Elems
    <3>2. PICK f \in Elems(K) : f.id = j
      BY DEF Ids, Elems
    <3>3. e \in Elems(A)
      BY <1>6 DEF PassFacts
    <3> QED
      BY <1>8, <2>1, <3>1, <3>2, <3>3
  <2>4. Before(Ids(F), Ids(K)) /\ Before(Ids(acc[t]), Ids(K))
    BY <1>6, <2>3 DEF Before, PassFacts
  <2>5. Before(Ids(k), Ids(K))
    BY <1>1, <1>2, <1>6, <1>16, <2>4, PassCollected
  <2> QED
    BY <1>9, <1>12, <1>17, <2>2, <2>5 DEF Before
<1>19. CollectedOldest(t)'
  <2>1. CASE pc'[t] = "idle" /\ acc'[t] = <<>>
    BY <2>1, EmptyList DEF CollectedOldest, Before
  <2>2. CASE acc'[t] = k /\ pc'[t] \in {"each", "convert"}
    BY <1>17, <2>2 DEF CollectedOldest
  <2>3. CASE acc'[t] = k /\ pc'[t] = "native"
    BY <1>17, <2>3 DEF CollectedOldest, Before
  <2>4. CASE acc'[t] = k /\ pc'[t] = "again" /\ call[t].fn = "drain"
    BY <1>17, <1>18, <2>4 DEF CollectedOldest, c
  <2> QED
    BY <2>1, <2>2, <2>3, <2>4 DEF After
<1> QED
  BY <1>5, <1>10, <1>13, <1>14, <1>19, StepKeeps DEF ThreadInv

(* PollTake: the pass over the retained events. *)
LEMMA PollTakeKeeps ==
  ASSUME QueueInv, NEW t \in Threads, PollTake(t)
  PROVE  QueueInv'
<1> DEFINE c == call[t]
           A == Taken(pendingEvents, c, Len(acc[t]))
           K == Retained(pendingEvents, c, Len(acc[t]))
           k == Collect(acc[t], Filtered(c, A))
           a == <<>>
<1>1. /\ TypeOK /\ Accounted /\ ThreadInv(t) /\ c \in Call
      /\ pendingEvents \in Seq(Event) /\ native \in Seq(Event)
      /\ acc[t] \in Seq(Event) /\ Len(acc[t]) \in Nat
  BY LenProperties DEF QueueInv, TypeOK
<1>2. TypeOK' /\ OthersStay(t)
  BY <1>1, PollTakeTypes
<1>3. k \in Seq(Event) /\ Filtered(c, A) \in Seq(Event) /\ K \in Seq(Event)
  BY <1>1, PassTypes
<1>4. /\ pc[t] = "lock" /\ pollLock = NoThread /\ pendingEvents' = K /\ native' = native
      /\ discarded' = discarded \cup (Ids(A) \ Ids(k)) /\ lost' = lost /\ log' = log
  BY DEF PollTake
<1>5. \/ Finish(t, k)
      \/ /\ \/ Satisfied(c, Len(A), Len(k)) /\ c.fn = "drain" /\ Goto(t, "again")
            \/ ~Satisfied(c, Len(A), Len(k)) /\ Goto(t, "native") /\ pollLock' = t
         /\ acc' = [acc EXCEPT ![t] = k] /\ UNCHANGED <<call, seen>>
  BY DEF PollTake
<1>6. Ordered(pendingEvents) /\ Ids(pendingEvents \o native) = Ids(pendingEvents) \cup Ids(native)
  BY <1>1, HandsApart
<1>7. pc \in [Threads -> {"idle", "lock", "native", "again", "convert", "each", "remember", "send"}] /\ acc \in [Threads -> Seq(Event)]
  BY <1>1 DEF TypeOK
<1>8. After(t, k) /\ (pc'[t] = "native" => pollLock' = t /\ ~Satisfied(c, Len(A), Len(k)))
  <2>1. CASE Finish(t, k)
    BY <1>1, <1>3, <2>1, FinishTypes DEF After
  <2>2. CASE ~Finish(t, k)
    BY <1>5, <1>7, <2>2 DEF After, Goto
  <2> QED
    BY <2>1, <2>2
<1>9. pc'[t] = "native" => \A e \in Elems(K) : ~Wanted(c, e)
  <2>1. Len(k) = Len(acc[t]) + Len(Filtered(c, A))
    BY <1>1, <1>3, ConcatProperties DEF Collect
  <2>2. c.fn # "drain" => Len(acc[t]) = 0
    BY <1>1, <1>4 DEF ThreadInv, Holding
  <2> QED
    BY <1>1, <1>6, <1>8, <2>1, <2>2, UnsatisfiedLeavesNone
<1>10. Before(Ids(acc[t]), Ids(pendingEvents)) /\ Before(Ids(acc[t]), Ids(native))
  BY <1>1, <1>4, <1>6 DEF ThreadInv, CollectedOldest, Before
<1>11. a \in Seq(Event) /\ a \o pendingEvents = pendingEvents /\ a \o K = K /\ Elems(a) = {}
  BY <1>1, <1>3, EmptyList
<1> HIDE DEF a
<1>12. /\ pendingEvents \o native = (a \o pendingEvents) \o native
       /\ pendingEvents' \o native' = (a \o K) \o native
  BY <1>4, <1>11
<1>13. pc'[t] = "native" => /\ pollLock' = t /\ Ids(native') \subseteq Ids(native)
                            /\ \A e \in Elems(pendingEvents') : ~Wanted(c, e)
  BY <1>4, <1>8, <1>9
<1>14. Elems(native') \subseteq Elems(native) /\ \A e \in Elems(a) : ~Wanted(c, e)
  BY <1>4, <1>11
<1> QED
  BY <1>1, <1>2, <1>4, <1>8, <1>10, <1>11, <1>12, <1>13, <1>14, PassKeeps

(* PollReturn: the pass over the batch of a native call. *)
LEMMA ReturnsKeeps ==
  ASSUME QueueInv, NEW t \in Threads, NEW n \in 0 .. Len(native), Returns(t, n)
  PROVE  QueueInv'
<1> DEFINE c == call[t]
           B == SubSeq(native, 1, n)
           r == SubSeq(native, n + 1, Len(native))
           A == Taken(B, c, Len(acc[t]))
           K == Retained(B, c, Len(acc[t]))
           k == Collect(acc[t], Filtered(c, A))
           p == pendingEvents
<1>1. /\ TypeOK /\ Accounted /\ ThreadInv(t) /\ c \in Call
      /\ p \in Seq(Event) /\ native \in Seq(Event)
      /\ acc[t] \in Seq(Event) /\ Len(acc[t]) \in Nat
  BY LenProperties DEF QueueInv, TypeOK
<1>2. TypeOK' /\ OthersStay(t)
  BY <1>1, ReturnsTypes
<1>3. /\ B \in Seq(Event) /\ r \in Seq(Event) /\ p \o native = (p \o B) \o r
      /\ Elems(native) = Elems(B) \cup Elems(r) /\ Ids(native) = Ids(B) \cup Ids(r)
  BY <1>1, BatchParts
<1>4. /\ pc[t] = "native" /\ pendingEvents' = p \o K /\ native' = r
      /\ discarded' = discarded \cup (Ids(A) \ Ids(k)) /\ lost' = lost /\ log' = log
  BY DEF Returns
<1>5. \/ Finish(t, k)
      \/ /\ \/ c.fn = "drain" /\ Goto(t, "again")
            \/ c.fn = "frames_all" /\ Goto(t, "native") /\ pollLock' = t
         /\ acc' = [acc EXCEPT ![t] = k] /\ UNCHANGED <<call, seen>>
  BY DEF Returns
<1> HIDE DEF B, r
<1>6. k \in Seq(Event) /\ K \in Seq(Event)
  BY <1>1, <1>3, PassTypes
<1>7. pc \in [Threads -> {"idle", "lock", "native", "again", "convert", "each", "remember", "send"}] /\ acc \in [Threads -> Seq(Event)]
  BY <1>1 DEF TypeOK
<1>8. After(t, k) /\ (pc'[t] = "native" => pollLock' = t /\ c.fn = "frames_all")
  <2>1. CASE Finish(t, k)
    BY <1>1, <1>6, <2>1, FinishTypes DEF After
  <2>2. CASE ~Finish(t, k)
    BY <1>5, <1>7, <2>2 DEF After, Goto
  <2> QED
    BY <2>1, <2>2
<1>9. Ordered(B)
  <2>1. Ordered((p \o B) \o r)
    BY <1>1, <1>3 DEF Accounted, Kept
  <2> QED
    BY <1>1, <1>3, <2>1, ThreeParts
<1>10. \A e \in Elems(p) : ~Wanted(c, e)
  BY <1>1, <1>4 DEF ThreadInv, NoneWantedLeft
<1>11. pc'[t] = "native" => \A e \in Elems(pendingEvents') : ~Wanted(c, e)
  <2>1. ASSUME c.fn = "frames_all" PROVE \A e \in Elems(K) : ~Wanted(c, e)
    <3>1. Room(c, Len(acc[t])) = MaxEvents /\ MaxEvents \in Nat
      BY <2>1, EventIds DEF Room
    <3> QED
      BY <1>3, <1>9, <3>1, TakenAll
  <2>2. Elems(p \o K) = Elems(p) \cup Elems(K)
    BY <1>1, <1>6, ConcatContents
  <2> QED
    BY <1>4, <1>8, <1>10, <2>1, <2>2
<1>12. Before(Ids(acc[t]), Ids(B)) /\ Before(Ids(acc[t]), Ids(r))
  BY <1>1, <1>3, <1>4 DEF ThreadInv, CollectedOldest, Before
<1>13. pendingEvents' \o native' = (p \o K) \o r
  BY <1>4
<1>14. Elems(native') \subseteq Elems(native) /\ Ids(native') \subseteq Ids(r)
  BY <1>3, <1>4
<1> QED
  BY <1>1, <1>2, <1>3, <1>4, <1>8, <1>10, <1>11, <1>12, <1>13, <1>14, PassKeeps

(* A call that takes the events s from between a and b, leaves k of them there, and of
   those and what it had keeps only some of what it had, in the same order. *)
LEMMA GivesUpKeeps ==
  ASSUME QueueInv, NEW t \in Threads, TypeOK', OthersStay(t),
         NEW a \in Seq(Event), NEW s \in Seq(Event), NEW b \in Seq(Event), NEW k \in Seq(Event),
         pendingEvents \o native = (a \o s) \o b,
         pendingEvents' \o native' = (a \o k) \o b,
         Ordered(s) => Ordered(k), Elems(k) \subseteq Elems(s), Ids(k) \subseteq Ids(s),
         Once(Hands'[t]), Ids(Hands'[t]) \subseteq Ids(Hands[t]),
         Elems(Hands'[t]) \subseteq Elems(Hands[t]), InSourceOrder(Hands'[t]),
         NEW D, D = (Ids(s) \cup Ids(Hands[t])) \ (Ids(k) \cup Ids(Hands'[t])),
         \/ lost' = lost \cup D /\ discarded' = discarded
         \/ lost' = lost /\ discarded' = discarded \cup D,
         log' = log, Elems(native') \subseteq Elems(native),
         \/ pendingEvents' = pendingEvents /\ pollLock' = pollLock
         \/ pollLock = NoThread
         \/ pc[t] = "native",
         pc'[t] # "native", Holding(t)', CollectedOldest(t)'
  PROVE  QueueInv'
<1> DEFINE z == Hands[t]
           z2 == Hands'[t]
<1>1. TypeOK /\ Accounted /\ ThreadInv(t)
  BY DEF QueueInv
<1>2. DOMAIN Hands' = Threads /\ \A u \in Threads \ {t} : Hands'[u] = Hands[u]
  BY DEF Hands, OthersStay
<1>3. Ids(z) \cap Ids((a \o s) \o b) = {} /\ Ordered((a \o s) \o b)
  BY <1>1, HandsApart
<1>4. /\ \A i : i \in Ids((a \o s) \o b) <=> i \in Ids(a) \/ i \in Ids(s) \/ i \in Ids(b)
      /\ \A e : e \in Elems((a \o s) \o b) <=> e \in Elems(a) \/ e \in Elems(s) \/ e \in Elems(b)
      /\ Ordered(s)
  BY <1>3, ThreeParts, ZenonT(30)
<1>5. \A e : e \in Elems((a \o k) \o b) <=> e \in Elems(a) \/ e \in Elems(k) \/ e \in Elems(b)
  BY ThreeParts
<1>6. /\ Ordered(k) /\ Once(z2) /\ Ids(z2) \subseteq Ids(z) \cup Ids(s) /\ Ids(z2) \cap Ids(k) = {}
  BY <1>3, <1>4
<1>7. Accounted'
  BY <1>1, <1>2, <1>6, SessionShift, ZenonT(30)
<1>8. Elems(pendingEvents' \o native') \subseteq Elems(pendingEvents \o native)
  BY <1>4, <1>5
<1>9. QueueStep(t)
  <2>1. pollLock = NoThread \/ pc[t] = "native" => \A u \in Threads \ {t} : pc[u] # "native"
    BY OnlyHolder DEF QueueInv
  <2> QED
    BY <1>8, <2>1 DEF QueueStep
<1>10. TakenFirst(t)'
  BY <1>1, <1>8 DEF ThreadInv, TakenFirst
<1>11. LockHeld(t)' /\ NoneWantedLeft(t)'
  BY DEF LockHeld, NoneWantedLeft
<1> QED
  BY <1>7, <1>9, <1>10, <1>11, StepKeeps DEF ThreadInv

(* A call that ends with less than it had, and leaves k of the events s behind. *)
LEMMA LosesKeeps ==
  ASSUME QueueInv, NEW t \in Threads, TypeOK', OthersStay(t),
         pc'[t] = "idle", acc'[t] = <<>>,
         NEW a \in Seq(Event), NEW s \in Seq(Event), NEW b \in Seq(Event), NEW k \in Seq(Event),
         pendingEvents \o native = (a \o s) \o b,
         pendingEvents' \o native' = (a \o k) \o b,
         Ordered(s) => Ordered(k), Elems(k) \subseteq Elems(s), Ids(k) \subseteq Ids(s),
         NEW x \in Seq(Event), NEW y \in Seq(Event), Hands[t] = x \o y, Hands'[t] = x,
         lost' = lost \cup (Ids(y) \cup (Ids(s) \ Ids(k))), discarded' = discarded, log' = log,
         Elems(native') \subseteq Elems(native),
         \/ pendingEvents' = pendingEvents /\ pollLock' = pollLock
         \/ pollLock = NoThread
         \/ pc[t] = "native"
  PROVE  QueueInv'
<1> DEFINE D == Ids(y) \cup (Ids(s) \ Ids(k))
           z == Hands[t]
<1>1. TypeOK /\ Accounted /\ ThreadInv(t)
  BY DEF QueueInv
<1>2. /\ Ids(x \o y) = Ids(x) \cup Ids(y) /\ Elems(x \o y) = Elems(x) \cup Elems(y)
      /\ Once(x \o y) => Once(x) /\ Ids(x) \cap Ids(y) = {}
  BY ConcatContents
<1>3. Once(z) /\ Ids(z) \cap Ids((a \o s) \o b) = {} /\ Ordered((a \o s) \o b)
  BY <1>1, HandsApart
<1>4. \A i : i \in Ids(s) => i \in Ids((a \o s) \o b)
  BY <1>3, ThreeParts, ZenonT(30)
<1>5. InSourceOrder(x)
  <2>1. InSourceOrder(x \o y)
    BY <1>1 DEF ThreadInv, TakenFirst
  <2> QED
    BY <2>1, SourceConcat
<1>6. /\ Once(Hands'[t]) /\ Ids(Hands'[t]) \subseteq Ids(Hands[t])
      /\ Elems(Hands'[t]) \subseteq Elems(Hands[t]) /\ InSourceOrder(Hands'[t])
  BY <1>2, <1>3, <1>5
<1>7. D = (Ids(s) \cup Ids(Hands[t])) \ (Ids(k) \cup Ids(Hands'[t]))
  BY <1>2, <1>3, <1>4
<1>8. pc'[t] # "native" /\ Holding(t)'
  BY DEF Holding
<1>9. CollectedOldest(t)'
  BY EmptyList DEF CollectedOldest, Before
<1>10. lost' = lost \cup D /\ discarded' = discarded
  OBVIOUS
<1> HIDE DEF D, z
<1> QED
  BY <1>6, <1>7, <1>8, <1>9, <1>10, GivesUpKeeps, ZenonT(60)

(* PollDecodeFail: a batch with a bad event. *)
LEMMA RaisesKeeps ==
  ASSUME QueueInv, NEW t \in Threads, NEW n \in 1 .. Len(native), NEW m \in 0 .. Len(native),
         NEW l \in 0 .. Len(native), NEW kept, RaisesAfter(t, n, m, l, kept)
  PROVE  QueueInv'
<1> DEFINE B == SubSeq(native, 1, n)
           r == SubSeq(native, n + 1, Len(native))
           S == SubSeq(native, 1, l)
           p == pendingEvents
           g == Ids(B) \ Ids(kept)
<1>1. /\ TypeOK /\ p \in Seq(Event) /\ native \in Seq(Event) /\ Len(native) \in Nat
  BY LenProperties DEF QueueInv, TypeOK
<1>2. TypeOK' /\ OthersStay(t) /\ kept \in Seq(Event)
  BY <1>1, RaisesTypes
<1>3. n \in 0 .. Len(native) /\ n \in Nat /\ m \in Nat /\ l \in Nat
  BY <1>1
<1>4. /\ B \in Seq(Event) /\ r \in Seq(Event) /\ p \o native = (p \o B) \o r
      /\ Elems(native) = Elems(B) \cup Elems(r)
  BY <1>1, <1>3, BatchParts
<1>5. /\ pc[t] = "native" /\ l <= m /\ m <= n /\ native' = r /\ pendingEvents' = p \o kept
      /\ kept \in {<<>>, Retained(S, call[t], Len(acc[t]))} /\ Raise(t, g) /\ log' = log
  BY DEF RaisesAfter
<1>6. S \in Seq(Event) /\ Elems(S) \subseteq Elems(B) /\ (Ordered(B) => Ordered(S))
  <2>1. Len(B) = n /\ \A i \in 1 .. n : B[i] = native[i]
    BY <1>1, <1>3, SubSeqProperties
  <2>2. S \in Seq(Event) /\ Len(S) = l /\ \A i \in 1 .. l : S[i] = native[i]
    BY <1>1, <1>3, SubSeqProperties
  <2> HIDE DEF S, B
  <2>3. DOMAIN S = 1 .. l /\ DOMAIN B = 1 .. n
    BY <1>4, <2>1, <2>2, LenProperties
  <2>4. \A i \in DOMAIN S : i \in DOMAIN B /\ S[i] = B[i]
    BY <1>3, <1>5, <2>1, <2>2, <2>3
  <2> QED
    BY <2>2, <2>4 DEF Elems, Ordered
<1> HIDE DEF B, r, S, p, g
<1>7. Elems(kept) \subseteq Elems(B) /\ (Ordered(B) => Ordered(kept))
  <2>1. CASE kept = <<>>
    BY <2>1, EmptyList
  <2>2. CASE kept = Retained(S, call[t], Len(acc[t]))
    BY <1>6, <2>2, PassParts
  <2> QED
    BY <1>5, <2>1, <2>2
<1>8. Ids(kept) \subseteq Ids(B)
  BY <1>7, IdsOfElems
<1>9. /\ pc'[t] = "idle" /\ acc'[t] = <<>> /\ seen'[t] = seen[t]
      /\ lost' = lost \cup (Ids(acc[t]) \cup g) /\ discarded' = discarded
  <2>1. g \in SUBSET (1 .. MaxEvents)
    BY <1>4, EventIds DEF g
  <2> QED
    BY <1>1, <1>5, <2>1, RaiseTypes
<1>10. /\ seen[t] \in Seq(Event) /\ acc[t] \in Seq(Event) /\ Hands[t] = seen[t] \o acc[t]
       /\ seen[t] \o <<>> = seen[t]
  BY <1>1, HandParts, EmptyList
<1>11. Hands'[t] = seen[t]
  BY <1>9, <1>10 DEF Hands
<1>12. lost' = lost \cup (Ids(acc[t]) \cup (Ids(B) \ Ids(kept)))
  BY <1>9 DEF g
<1>13. /\ pendingEvents \in Seq(Event) /\ pendingEvents \o native = (pendingEvents \o B) \o r
       /\ pendingEvents' \o native' = (pendingEvents \o kept) \o r
       /\ Elems(native') \subseteq Elems(native)
  BY <1>1, <1>4, <1>5 DEF p
<1>14. /\ QueueInv /\ TypeOK' /\ OthersStay(t) /\ pc'[t] = "idle" /\ acc'[t] = <<>>
       /\ discarded' = discarded /\ log' = log /\ pc[t] = "native"
  BY <1>2, <1>5, <1>9
<1>15. kept \in Seq(Event) /\ B \in Seq(Event) /\ r \in Seq(Event)
  BY <1>2, <1>4
<1> QED
  BY <1>7, <1>8, <1>10, <1>11, <1>12, <1>13, <1>14, <1>15, LosesKeeps

(* PollFail, and PollAgain on a closed session: what was collected is gone. *)
LEMMA FailKeeps ==
  ASSUME QueueInv, NEW t \in Threads, Raise(t, {}), pendingEvents' = pendingEvents, native' = native,
         log' = log, TypeOK', pollLock' = pollLock \/ pc[t] = "native"
  PROVE  QueueInv'
<1> DEFINE e == <<>>
           N == {}
<1>1. TypeOK /\ pendingEvents \in Seq(Event) /\ native \in Seq(Event)
  BY DEF QueueInv, TypeOK
<1>2. N \in SUBSET (1 .. MaxEvents) /\ Raise(t, N)
  OBVIOUS
<1>3. /\ OthersStay(t) /\ pc'[t] = "idle" /\ acc'[t] = <<>> /\ seen'[t] = seen[t]
      /\ lost' = lost \cup (Ids(acc[t]) \cup N) /\ discarded' = discarded
  <2> HIDE DEF N
  <2> QED
    BY <1>1, <1>2, RaiseTypes
<1>4. /\ seen[t] \in Seq(Event) /\ acc[t] \in Seq(Event) /\ Hands[t] = seen[t] \o acc[t]
      /\ seen[t] \o <<>> = seen[t]
  BY <1>1, HandParts, EmptyList
<1>5. Hands'[t] = seen[t]
  BY <1>3, <1>4 DEF Hands
<1>6. /\ e \in Seq(Event) /\ pendingEvents \o e = pendingEvents /\ Ids(e) = {} /\ Elems(e) = {} /\ Ordered(e)
  BY <1>1, EmptyList
<1> HIDE DEF e, N
<1>7. /\ pendingEvents \o native = (pendingEvents \o e) \o native
      /\ pendingEvents' \o native' = (pendingEvents \o e) \o native
      /\ lost' = lost \cup (Ids(acc[t]) \cup (Ids(e) \ Ids(e)))
  BY <1>3, <1>6 DEF N
<1>8. Elems(native') \subseteq Elems(native)
  OBVIOUS
<1> QED
  BY <1>1, <1>3, <1>4, <1>5, <1>6, <1>7, <1>8, LosesKeeps, ZenonT(30)

(* PollTakeFail: a retained event that a poll_result cannot convert is gone. *)
LEMMA PollTakeFailKeeps ==
  ASSUME QueueInv, NEW t \in Threads, PollTakeFail(t)
  PROVE  QueueInv'
<1> DEFINE c == call[t]
           bad  == Unfit(c, pendingEvents)
           gone == {i \in bad : Wanted(c, pendingEvents[i]) /\ \A j \in bad : i <= j}
           I == DOMAIN pendingEvents \ gone
           p == pendingEvents
           e == <<>>
           k == At(p, I)
           g == Ids(p) \ Ids(k)
<1>1. TypeOK /\ RestTypes /\ ThreadTypes /\ p \in Seq(Event) /\ native \in Seq(Event)
  BY TypeParts DEF QueueInv, TypeOK
<1>2. I \in SUBSET (DOMAIN p)
  OBVIOUS
<1>3. /\ pollLock = NoThread /\ pendingEvents' = k /\ Raise(t, g)
      /\ UNCHANGED <<closed, pollLock, native, nativeOp, log, bindingVars>>
  BY DEF PollTakeFail
<1> HIDE DEF I
<1>4. /\ k \in Seq(Event) /\ Elems(k) = {p[i] : i \in I} /\ Ids(k) = {p[i].id : i \in I}
      /\ Ordered(p) => Ordered(k)
  BY <1>1, <1>2, AtProperties
<1> HIDE DEF k
<1>5. Elems(k) \subseteq Elems(p) /\ Ids(k) \subseteq Ids(p)
  BY <1>2, <1>4 DEF Elems, Ids
<1>6. g \in SUBSET (1 .. MaxEvents)
  BY <1>1, EventIds
<1> HIDE DEF p
<1>7. /\ ThreadTypes' /\ OthersStay(t) /\ pc'[t] = "idle" /\ acc'[t] = <<>> /\ seen'[t] = seen[t]
      /\ lost' = lost \cup (Ids(acc[t]) \cup g) /\ lost' \subseteq 1 .. MaxEvents
      /\ discarded' = discarded
  <2> HIDE DEF g
  <2> QED
    BY <1>1, <1>3, <1>6, RaiseTypes
<1>8. TypeOK'
  <2>1. RestTypes'
    BY <1>1, <1>3, <1>4, <1>7 DEF RestTypes, bindingVars
  <2> QED
    BY <1>7, <2>1, TypeParts
<1>9. /\ seen[t] \in Seq(Event) /\ acc[t] \in Seq(Event) /\ Hands[t] = seen[t] \o acc[t]
      /\ seen[t] \o <<>> = seen[t]
  BY <1>1, HandParts, EmptyList
<1>10. Hands'[t] = seen[t]
  BY <1>7, <1>9 DEF Hands
<1>11. e \in Seq(Event) /\ e \o p = p /\ e \o k = k
  BY <1>1, <1>4, EmptyList
<1> HIDE DEF e
<1>12. /\ pendingEvents \o native = (e \o p) \o native
       /\ pendingEvents' \o native' = (e \o k) \o native
       /\ lost' = lost \cup (Ids(acc[t]) \cup (Ids(p) \ Ids(k)))
       /\ log' = log /\ Elems(native') \subseteq Elems(native)
  BY <1>3, <1>7, <1>11 DEF p
<1> QED
  BY <1>1, <1>3, <1>4, <1>5, <1>7, <1>8, <1>9, <1>10, <1>11, <1>12, LosesKeeps, ZenonT(60)

(* Some of the events a call has, in their order: what it returns or goes on with after
   a conversion. *)
LEMMA SomeOfAcc ==
  ASSUME TypeOK, Accounted, NEW t \in Threads, TakenFirst(t), Ordered(acc[t]),
         NEW I \in SUBSET (DOMAIN acc[t]), NEW k, k = At(acc[t], I)
  PROVE  /\ k \in Seq(Event) /\ Ordered(k) /\ Ids(k) \subseteq Ids(acc[t])
         /\ seen[t] \o k \in Seq(Event)
         /\ Once(seen[t] \o k) /\ InSourceOrder(seen[t] \o k)
         /\ Ids(seen[t] \o k) \subseteq Ids(Hands[t]) /\ Elems(seen[t] \o k) \subseteq Elems(Hands[t])
         /\ Ids(acc[t]) \ Ids(k) = Ids(Hands[t]) \ Ids(seen[t] \o k)
<1> DEFINE x == seen[t]
           y == acc[t]
<1>1. /\ x \in Seq(Event) /\ y \in Seq(Event) /\ Hands[t] = x \o y
      /\ Ids(Hands[t]) = Ids(x) \cup Ids(y) /\ Elems(Hands[t]) = Elems(x) \cup Elems(y)
  BY HandParts
<1>2. Once(x) /\ Once(y) /\ Ids(x) \cap Ids(y) = {} /\ Ordered(y) /\ I \in SUBSET (DOMAIN y)
  BY HandsApart
<1>3. InSourceOrder(x \o y)
  BY <1>1 DEF TakenFirst
<1>4. k = At(y, I)
  OBVIOUS
<1> HIDE DEF x, y
<1>5. /\ k \in Seq(Event) /\ Elems(k) = {y[i] : i \in I} /\ Ids(k) = {y[i].id : i \in I}
      /\ Once(k) /\ Ordered(k)
  BY <1>1, <1>2, <1>4, AtProperties
<1>6. Elems(k) \subseteq Elems(y) /\ Ids(k) \subseteq Ids(y)
  BY <1>2, <1>5 DEF Elems, Ids
<1>7. /\ x \o k \in Seq(Event) /\ Ids(x \o k) = Ids(x) \cup Ids(k)
      /\ Elems(x \o k) = Elems(x) \cup Elems(k) /\ Once(x \o k)
  BY <1>1, <1>2, <1>5, <1>6, ConcatShape, ConcatContents, SMTT(30)
<1>8. InSourceOrder(x \o k)
  <2>1. InSourceOrder(x) /\ \A e \in Elems(x), f \in Elems(y) : SameSource(e, f) => e.id < f.id
    BY <1>1, <1>3, SourceConcat
  <2>2. InSourceOrder(k)
    BY <1>1, <1>5, SourceConcat
  <2>3. \A e \in Elems(x), f \in Elems(k) : SameSource(e, f) => e.id < f.id
    BY <1>6, <2>1
  <2> QED
    BY <1>1, <1>5, <2>1, <2>2, <2>3, SourceConcat
<1>9. /\ Ids(x \o k) \subseteq Ids(Hands[t]) /\ Elems(x \o k) \subseteq Elems(Hands[t])
      /\ Ids(y) \ Ids(k) = Ids(Hands[t]) \ Ids(x \o k)
  BY <1>1, <1>2, <1>6, <1>7
<1> QED
  BY <1>5, <1>6, <1>7, <1>8, <1>9 DEF x, y

(* Convert: what was taken is refused, or loses what has no wire header. *)
LEMMA ConvertKeeps ==
  ASSUME QueueInv, NEW t \in Threads, Convert(t)
  PROVE  QueueInv'
<1> DEFINE c == call[t]
           I == {i \in DOMAIN acc[t] : c.use # "next" => IsRuntimeEvent(acc[t][i])}
           k == At(acc[t], I)
           e == <<>>
<1>1. /\ TypeOK /\ Accounted /\ ThreadInv(t) /\ RestTypes /\ ThreadTypes
      /\ pendingEvents \in Seq(Event) /\ native \in Seq(Event) /\ Ordered(acc[t])
      /\ acc[t] \in Seq(Event)
  BY TypeParts DEF QueueInv, TypeOK, ThreadInv, CollectedOldest
<1>2. I \in SUBSET (DOMAIN acc[t])
  OBVIOUS
<1>3. /\ pc[t] = "convert"
      /\ UNCHANGED <<closed, pollLock, pendingEvents, native, nativeOp, log, bindingVars>>
      /\ \/ Raise(t, {})
         \/ /\ discarded' = discarded \cup (Ids(acc[t]) \ Ids(k)) /\ UNCHANGED lost
            /\ \/ /\ k # <<>> /\ Goto(t, "each") /\ acc' = [acc EXCEPT ![t] = k] /\ UNCHANGED <<call, seen>>
               \/ Return(t, k)
  BY DEF Convert
<1> HIDE DEF I
<1>4. /\ k \in Seq(Event) /\ Ordered(k) /\ Ids(k) \subseteq Ids(acc[t])
      /\ seen[t] \o k \in Seq(Event)
      /\ Once(seen[t] \o k) /\ InSourceOrder(seen[t] \o k)
      /\ Ids(seen[t] \o k) \subseteq Ids(Hands[t]) /\ Elems(seen[t] \o k) \subseteq Elems(Hands[t])
      /\ Ids(acc[t]) \ Ids(k) = Ids(Hands[t]) \ Ids(seen[t] \o k)
  BY <1>1, <1>2, SomeOfAcc DEF ThreadInv
<1> HIDE DEF k
<1>5. NoCall \in Call /\ <<>> \in Seq(Event)
  BY CallTypes, EmptyList
<1>6. CASE Raise(t, {})
  <2>1. ThreadTypes' /\ lost' \subseteq 1 .. MaxEvents /\ discarded' = discarded
    BY <1>1, <1>6, RaiseTypes
  <2>2. RestTypes'
    BY <1>1, <1>3, <2>1 DEF RestTypes, bindingVars
  <2>3. TypeOK'
    BY <2>1, <2>2, TypeParts
  <2> QED
    BY <1>3, <1>6, <2>3, FailKeeps
<1>7. ASSUME discarded' = discarded \cup (Ids(acc[t]) \ Ids(k)), lost' = lost,
             ThreadTypes', OthersStay(t), After(t, k), pc'[t] \in {"idle", "each"},
             pc'[t] = "each" => k # <<>>
      PROVE  QueueInv'
  <2>1. Ids(acc[t]) \subseteq 1 .. MaxEvents
    BY <1>1, EventIds
  <2>2. RestTypes'
    BY <1>1, <1>3, <1>7, <2>1 DEF RestTypes, bindingVars
  <2>3. TypeOK'
    BY <1>7, <2>2, TypeParts
  <2>4. Hands'[t] = seen[t] \o k
    BY <1>1, <1>4, <1>7, HandsAfter
  <2>5. Holding(t)'
    BY <1>7 DEF After, Holding
  <2>6. Ordered(<<>>)
    BY EmptyList
  <2>7. CollectedOldest(t)'
    BY <1>4, <1>7, <2>6 DEF After, CollectedOldest
  <2> DEFINE D == Ids(acc[t]) \ Ids(k)
  <2>8. e \in Seq(Event) /\ pendingEvents \o e = pendingEvents /\ Ids(e) = {} /\ Elems(e) = {} /\ Ordered(e)
    BY <1>1, EmptyList
  <2> HIDE DEF e
  <2>9. /\ pendingEvents \o native = (pendingEvents \o e) \o native
        /\ pendingEvents' \o native' = (pendingEvents \o e) \o native
        /\ D = (Ids(e) \cup Ids(Hands[t])) \ (Ids(e) \cup Ids(Hands'[t]))
        /\ lost' = lost /\ discarded' = discarded \cup D
        /\ log' = log /\ Elems(native') \subseteq Elems(native)
        /\ pendingEvents' = pendingEvents /\ pollLock' = pollLock
    BY <1>3, <1>4, <1>7, <2>4, <2>8
  <2>10. /\ Once(Hands'[t]) /\ Ids(Hands'[t]) \subseteq Ids(Hands[t])
         /\ Elems(Hands'[t]) \subseteq Elems(Hands[t]) /\ InSourceOrder(Hands'[t])
    BY <1>4, <2>4
  <2>11. pc'[t] # "native"
    BY <1>7
  <2> HIDE DEF D
  <2> QED
    BY <1>1, <1>7, <2>3, <2>5, <2>7, <2>8, <2>9, <2>10, <2>11, GivesUpKeeps, ZenonT(60)
<1>8. CASE /\ discarded' = discarded \cup (Ids(acc[t]) \ Ids(k)) /\ UNCHANGED lost
           /\ k # <<>> /\ Goto(t, "each") /\ acc' = [acc EXCEPT ![t] = k] /\ UNCHANGED <<call, seen>>
  <2>1. ThreadTypes' /\ OthersStay(t) /\ pc'[t] = "each" /\ acc'[t] = k /\ seen'[t] = seen[t]
    BY <1>1, <1>4, <1>8 DEF ThreadTypes, Goto, OthersStay
  <2>2. After(t, k)
    BY <1>8, <2>1 DEF After
  <2> QED
    BY <1>7, <1>8, <2>1, <2>2
<1>9. CASE discarded' = discarded \cup (Ids(acc[t]) \ Ids(k)) /\ UNCHANGED lost /\ Return(t, k)
  <2>1. /\ ThreadTypes' /\ OthersStay(t) /\ pc'[t] = "idle" /\ acc'[t] = <<>>
        /\ seen'[t] = seen[t] \o k
    BY <1>1, <1>4, <1>5, <1>9 DEF ThreadTypes, Return, Goto, OthersStay
  <2>2. After(t, k)
    BY <2>1 DEF After
  <2> QED
    BY <1>7, <1>9, <2>1, <2>2
<1> QED
  BY <1>3, <1>6, <1>8, <1>9

(* A list is its first event and the rest. *)
LEMMA FirstAndRest ==
  ASSUME NEW x \in Seq(Event), NEW y \in Seq(Event), y # <<>>
  PROVE  /\ Head(y) \in Event /\ Tail(y) \in Seq(Event) /\ Append(x, Head(y)) \in Seq(Event)
         /\ Append(x, Head(y)) \o Tail(y) = x \o y
         /\ Ordered(y) => Ordered(Tail(y))
<1> DEFINE h == Head(y)
           r == Tail(y)
<1>1. h \in Event /\ r \in Seq(Event) /\ y = <<h>> \o r
  BY HeadTailProperties, HeadTailAppend, ConcatProperties
<1> HIDE DEF h, r
<1>2. <<h>> \in Seq(Event)
  BY <1>1
<1>3. Append(x, h) = x \o <<h>> /\ Append(x, h) \in Seq(Event)
  BY <1>1, AppendIsConcat, AppendProperties
<1>4. (x \o <<h>>) \o r = x \o (<<h>> \o r)
  BY <1>1, <1>2, ConcatAssociative
<1>5. Ordered(<<h>> \o r) => Ordered(r)
  BY <1>1, <1>2, ConcatContents
<1> QED
  BY <1>1, <1>3, <1>4, <1>5 DEF h, r

(* HandOut: one event of the batch reaches the callback or the iteration. *)
LEMMA HandOutKeeps ==
  ASSUME QueueInv, NEW t \in Threads, HandOut(t)
  PROVE  QueueInv'
<1> DEFINE x == Append(seen[t], Head(acc[t]))
           r == Tail(acc[t])
<1>1. TypeOK /\ Accounted /\ ThreadInv(t) /\ RestTypes /\ ThreadTypes
  BY TypeParts DEF QueueInv
<1>2. pc[t] = "each" /\ seen[t] \in Seq(Event) /\ acc[t] \in Seq(Event) /\ acc[t] # <<>>
  BY <1>1 DEF HandOut, ThreadTypes, ThreadInv, Holding
<1>3. /\ x \in Seq(Event) /\ r \in Seq(Event) /\ x \o r = seen[t] \o acc[t]
      /\ Ordered(acc[t]) => Ordered(r)
  BY <1>2, FirstAndRest
<1>4. /\ seen' = [seen EXCEPT ![t] = x]
      /\ UNCHANGED <<closed, pollLock, pendingEvents, native, nativeOp, discarded, log, bindingVars>>
      /\ \/ /\ Goto(t, "idle") /\ call' = [call EXCEPT ![t] = NoCall]
            /\ acc' = [acc EXCEPT ![t] = <<>>] /\ lost' = lost \cup Ids(r)
         \/ /\ r # <<>> /\ acc' = [acc EXCEPT ![t] = r] /\ UNCHANGED <<pc, call, lost>>
  BY <1>1 DEF HandOut, ThreadTypes
<1> HIDE DEF x, r
<1>5. NoCall \in Call /\ <<>> \in Seq(Event) /\ Ids(r) \subseteq 1 .. MaxEvents
  BY <1>3, CallTypes, EmptyList, EventIds
<1>6. Hands[t] = x \o r
  BY <1>1, <1>3, HandParts
<1>7. RestTypes'
  BY <1>1, <1>4, <1>5 DEF RestTypes, bindingVars
<1>8. CASE /\ Goto(t, "idle") /\ call' = [call EXCEPT ![t] = NoCall]
           /\ acc' = [acc EXCEPT ![t] = <<>>] /\ lost' = lost \cup Ids(r)
  <2> DEFINE e == <<>>
  <2>1. ThreadTypes' /\ OthersStay(t) /\ pc'[t] = "idle" /\ acc'[t] = <<>> /\ seen'[t] = x
    BY <1>1, <1>3, <1>4, <1>5, <1>8 DEF ThreadTypes, Goto, OthersStay
  <2>2. TypeOK'
    BY <1>7, <2>1, TypeParts
  <2>3. x \o <<>> = x
    BY <1>3, EmptyList
  <2>4. Hands'[t] = x
    BY <2>1, <2>3 DEF Hands
  <2>5. pendingEvents \in Seq(Event) /\ native \in Seq(Event)
    BY <1>1 DEF RestTypes
  <2>6. /\ e \in Seq(Event) /\ pendingEvents \o e = pendingEvents /\ Ids(e) = {} /\ Elems(e) = {} /\ Ordered(e)
    BY <2>5, EmptyList
  <2> HIDE DEF e
  <2>7. /\ pendingEvents \o native = (pendingEvents \o e) \o native
        /\ pendingEvents' \o native' = (pendingEvents \o e) \o native
        /\ lost' = lost \cup (Ids(r) \cup (Ids(e) \ Ids(e)))
        /\ Elems(native') \subseteq Elems(native)
        /\ pendingEvents' = pendingEvents /\ pollLock' = pollLock /\ discarded' = discarded /\ log' = log
    BY <1>4, <1>8, <2>6
  <2> QED
    BY <1>3, <1>6, <2>1, <2>2, <2>4, <2>5, <2>6, <2>7, LosesKeeps, ZenonT(30)
<1>9. CASE r # <<>> /\ acc' = [acc EXCEPT ![t] = r] /\ UNCHANGED <<pc, call, lost>>
  <2>1. /\ ThreadTypes' /\ OthersStay(t) /\ pc'[t] = "each" /\ acc'[t] = r /\ seen'[t] = x
    BY <1>1, <1>2, <1>3, <1>4, <1>9 DEF ThreadTypes, OthersStay
  <2>2. TypeOK'
    BY <1>7, <2>1, TypeParts
  <2>3. Hands' = Hands
    <3>1. Hands'[t] = Hands[t]
      BY <1>6, <2>1 DEF Hands
    <3>2. \A u \in Threads \ {t} : Hands'[u] = Hands[u]
      BY <2>1 DEF Hands, OthersStay
    <3> QED
      BY <3>1, <3>2 DEF Hands
  <2>4. Accounted' /\ QueueStep(t)
    BY <1>1, <1>4, <1>9, <2>3 DEF Accounted, QueueStep
  <2>5. LockHeld(t)' /\ NoneWantedLeft(t)' /\ Holding(t)'
    BY <1>9, <2>1 DEF LockHeld, NoneWantedLeft, Holding
  <2>6. CollectedOldest(t)'
    BY <1>1, <1>3, <2>1 DEF ThreadInv, CollectedOldest
  <2>7. TakenFirst(t)'
    BY <1>1, <1>4, <2>3 DEF ThreadInv, TakenFirst
  <2> QED
    BY <2>1, <2>2, <2>4, <2>5, <2>6, <2>7, StepKeeps DEF ThreadInv
<1> QED
  BY <1>4, <1>8, <1>9

(* NativeEmit: an event arrives, younger than all there are. *)
LEMMA EmitKeeps ==
  ASSUME QueueInv, NEW k \in EventKinds, NEW o \in Ops \cup {NoOp}, NativeEmit(k, o)
  PROVE  /\ QueueInv'
         /\ \E e \in Event : e.id = Len(log) + 1 /\ native' = Append(native, e) /\ log' = Append(log, e)
<1> DEFINE n == Len(log)
           e == [id |-> n + 1, kind |-> k, op |-> o]
<1>1. TypeOK /\ Accounted /\ RestTypes /\ ThreadTypes
  BY TypeParts DEF QueueInv
<1>2. n \in Nat /\ MaxEvents \in Nat /\ n < MaxEvents
  BY <1>1, LenProperties, EventIds DEF RestTypes, NativeEmit
<1>3. e \in Event /\ e.id = n + 1
  BY <1>2 DEF Event
<1>4. /\ native' = Append(native, e) /\ log' = Append(log, e)
      /\ UNCHANGED <<closed, pollLock, pendingEvents, seen, discarded, lost, threadVars, bindingVars>>
  BY DEF NativeEmit
<1> HIDE DEF e
<1>5. /\ native' \in Seq(Event) /\ Ids(native') = Ids(native) \cup {n + 1}
      /\ Elems(native') = Elems(native) \cup {e}
      /\ log' \in Seq(Event) /\ Len(log') = n + 1
  BY <1>1, <1>3, <1>4, AppendContents, AppendProperties DEF RestTypes
<1>6. nativeOp' \in [Ops -> {"new", "live", "resulted", "done"}]
  BY <1>1 DEF RestTypes, NativeEmit
<1>7. TypeOK'
  <2>1. RestTypes'
    BY <1>1, <1>4, <1>5, <1>6 DEF RestTypes, bindingVars
  <2>2. ThreadTypes'
    BY <1>1, <1>4 DEF ThreadTypes, threadVars
  <2> QED
    BY <2>1, <2>2, TypeParts
<1>8. Hands' = Hands
  BY <1>4 DEF Hands, threadVars
<1>9. pendingEvents \in Seq(Event) /\ native \in Seq(Event) /\ pendingEvents \o native \in Seq(Event)
  BY <1>1, ConcatShape DEF RestTypes
<1>10. pendingEvents' \o native' = Append(pendingEvents \o native, e)
  BY <1>3, <1>4, <1>9, ConcatAppend
<1>11. Accounted'
  <2>1. Kept(pendingEvents \o native, Hands, lost \cup discarded, n) /\ DOMAIN Hands = Threads
    BY <1>1 DEF Accounted, Hands
  <2>2. Kept(Append(pendingEvents \o native, e), Hands, lost \cup discarded, n + 1)
    BY <1>2, <1>3, <1>9, <2>1, ArrivalKeeps
  <2>3. Hands' = Hands /\ lost' = lost /\ discarded' = discarded /\ Len(log') = n + 1
    BY <1>4, <1>5, <1>8
  <2> QED
    BY <1>1, <1>10, <2>2, <2>3 DEF Accounted
<1>12. /\ Ids(pendingEvents' \o native') = Ids(pendingEvents \o native) \cup {n + 1}
       /\ Elems(pendingEvents' \o native') = Elems(pendingEvents \o native) \cup {e}
  <2> DEFINE q == pendingEvents \o native
  <2>1. q \in Seq(Event) /\ pendingEvents' \o native' = Append(q, e)
    BY <1>9, <1>10
  <2> HIDE DEF q
  <2>2. Ids(Append(q, e)) = Ids(q) \cup {n + 1} /\ Elems(Append(q, e)) = Elems(q) \cup {e}
    BY <1>3, <2>1, AppendContents
  <2> QED
    BY <2>1, <2>2 DEF q
<1>13. ASSUME NEW t \in Threads PROVE ThreadInv(t)'
  <2>1. ThreadInv(t) /\ pc' = pc /\ call' = call /\ acc' = acc /\ pollLock' = pollLock /\ pendingEvents' = pendingEvents
    BY <1>4 DEF QueueInv, threadVars
  <2>2. LockHeld(t)' /\ Holding(t)' /\ NoneWantedLeft(t)'
    BY <2>1 DEF ThreadInv, LockHeld, Holding, NoneWantedLeft
  <2>3. \A i \in Ids(Hands[t]) : i < n + 1
    <3>1. Ids(Hands[t]) \subseteq 1 .. n
      BY <1>1 DEF Accounted, Kept, Hands
    <3> QED
      BY <1>2, <3>1
  <2>4. Ids(Hands[t]) = Ids(seen[t]) \cup Ids(acc[t])
    BY <1>1, HandParts
  <2>5. CollectedOldest(t)'
    BY <1>5, <1>12, <2>1, <2>3, <2>4 DEF ThreadInv, CollectedOldest, Before
  <2>6. \A g \in Elems(Hands[t]) : g.id < e.id
    BY <1>3, <2>3 DEF Elems, Ids
  <2>7. TakenFirst(t)'
    BY <1>8, <1>12, <2>1, <2>6 DEF ThreadInv, TakenFirst
  <2> QED
    BY <2>2, <2>5, <2>7 DEF ThreadInv
<1>14. QueueInv'
  BY <1>7, <1>11, <1>13 DEF QueueInv
<1> QED
  BY <1>3, <1>4, <1>14

(* PollAgain: the next round, or the end of the session. *)
LEMMA PollAgainKeeps ==
  ASSUME QueueInv, NEW t \in Threads, PollAgain(t)
  PROVE  QueueInv'
<1>1. TypeOK /\ Accounted /\ ThreadInv(t) /\ RestTypes /\ ThreadTypes
  BY TypeParts DEF QueueInv
<1>2. /\ pc[t] = "again" /\ pollLock' = pollLock /\ pendingEvents' = pendingEvents /\ native' = native /\ log' = log
      /\ UNCHANGED <<closed, nativeOp, bindingVars>>
  BY DEF PollAgain
<1>3. CASE Goto(t, "lock") /\ UNCHANGED <<call, acc, seen, discarded, lost>>
  <2>1. ThreadTypes' /\ RestTypes' /\ OthersStay(t) /\ pc'[t] = "lock" /\ acc' = acc /\ call' = call
    BY <1>1, <1>2, <1>3 DEF ThreadTypes, RestTypes, OthersStay, Goto, bindingVars
  <2>2. Hands' = Hands
    BY <1>3 DEF Hands
  <2>3. Accounted' /\ QueueStep(t) /\ TypeOK'
    BY <1>1, <1>2, <1>3, <2>1, <2>2, TypeParts DEF Accounted, QueueStep
  <2>4. LockHeld(t)' /\ NoneWantedLeft(t)' /\ Holding(t)' /\ CollectedOldest(t)'
    BY <1>1, <1>2, <2>1 DEF ThreadInv, LockHeld, NoneWantedLeft, Holding, CollectedOldest
  <2>5. TakenFirst(t)'
    BY <1>1, <1>2, <2>2 DEF ThreadInv, TakenFirst
  <2> QED
    BY <2>1, <2>3, <2>4, <2>5, StepKeeps DEF ThreadInv
<1>4. CASE Raise(t, {})
  <2>1. ThreadTypes' /\ lost' \subseteq 1 .. MaxEvents /\ discarded' = discarded
    BY <1>1, <1>4, RaiseTypes
  <2>2. RestTypes'
    BY <1>1, <1>2, <2>1 DEF RestTypes, bindingVars
  <2>3. TypeOK'
    BY <2>1, <2>2, TypeParts
  <2> QED
    BY <1>2, <1>4, <2>3, FailKeeps
<1> QED
  BY <1>3, <1>4 DEF PollAgain

(* PollFail: the native call fails. *)
LEMMA PollFailKeeps ==
  ASSUME QueueInv, NEW t \in Threads, PollFail(t)
  PROVE  QueueInv'
<1>1. TypeOK /\ RestTypes
  BY TypeParts DEF QueueInv
<1>2. /\ pc[t] = "native" /\ pollLock' = NoThread /\ Raise(t, {})
      /\ UNCHANGED <<closed, pendingEvents, native, nativeOp, log, bindingVars>>
  BY DEF PollFail
<1>3. ThreadTypes' /\ lost' \subseteq 1 .. MaxEvents /\ discarded' = discarded
  BY <1>1, <1>2, RaiseTypes
<1>4. RestTypes'
  BY <1>1, <1>2, <1>3 DEF RestTypes, bindingVars
<1>5. TypeOK'
  BY <1>3, <1>4, TypeParts
<1> QED
  BY <1>2, <1>5, FailKeeps

(* Every step of the specification keeps QueueInv. *)
LEMMA QueueInvSteps == QueueInv /\ [Next]_vars => QueueInv'
<1> SUFFICES ASSUME QueueInv, [Next]_vars PROVE QueueInv'
  OBVIOUS
<1>1. TypeOK
  BY DEF QueueInv
<1>2. ASSUME NEW t \in Threads, ThreadStep(t) PROVE QueueInv'
  <2>1. CASE QuietAction(t)
    BY <2>1, QuietKeeps
  <2>2. CASE PollTake(t)
    BY <2>2, PollTakeKeeps
  <2>3. CASE PollReturn(t)
    BY <2>3, PollReturns, ReturnsKeeps
  <2>4. CASE PollAgain(t)
    BY <2>4, PollAgainKeeps
  <2>5. CASE PollFail(t)
    BY <2>5, PollFailKeeps
  <2>6. CASE PollDecodeFail(t)
    <3>1. PICK n \in 1 .. Len(native), m \in 0 .. Len(native), l \in 0 .. Len(native) :
                 \E kept : RaisesAfter(t, n, m, l, kept)
      BY <1>1, <2>6, DecodeRaises
    <3> QED
      BY <3>1, RaisesKeeps
  <2>7. CASE HandOut(t)
    BY <2>7, HandOutKeeps
  <2>8. CASE PollTakeFail(t)
    BY <2>8, PollTakeFailKeeps
  <2>9. CASE Convert(t)
    BY <2>9, ConvertKeeps
  <2> QED
    BY <1>2, <2>1, <2>2, <2>3, <2>4, <2>5, <2>6, <2>7, <2>8, <2>9 DEF ThreadStep, QuietAction
<1>3. ASSUME NEW k \in EventKinds, NEW o \in Ops \cup {NoOp}, NativeEmit(k, o) PROVE QueueInv'
  BY <1>3, EmitKeeps
<1>4. CASE UNCHANGED vars
  <2>1. Hands' = Hands
    BY <1>4 DEF vars, Hands
  <2>2. TypeOK'
    BY <1>1, <1>4 DEF TypeOK, vars
  <2>3. Accounted'
    BY <1>4, <2>1 DEF QueueInv, Accounted, vars
  <2>4. \A t \in Threads : ThreadInv(t)'
    BY <1>4, <2>1 DEF QueueInv, ThreadInv, LockHeld, Holding, CollectedOldest, NoneWantedLeft, TakenFirst, vars
  <2> QED
    BY <2>2, <2>3, <2>4 DEF QueueInv
<1> QED
  BY <1>2, <1>3, <1>4 DEF Next

(* The session starts with nothing anywhere. *)
LEMMA QueueInvInit == Init => QueueInv
<1> SUFFICES ASSUME Init PROVE QueueInv
  OBVIOUS
<1>1. <<>> \in Seq(Event) /\ <<>> \o <<>> = <<>> /\ Ids(<<>>) = {} /\ Elems(<<>>) = {} /\ Once(<<>>) /\ Ordered(<<>>)
  BY EmptyList
<1>2. NoCall \in Call
  BY CallTypes
<1>3. TypeOK
  BY <1>1, <1>2 DEF Init, TypeOK
<1>4. pendingEvents \o native = <<>> /\ DOMAIN Hands = Threads /\ \A t \in Threads : Hands[t] = <<>>
  BY <1>1 DEF Init, Hands
<1>5. Len(log) = 0 /\ lost \cup discarded = {} /\ lost \cap discarded = {}
  BY DEF Init
<1>6. Accounted
  <2>1. Ordered(pendingEvents \o native) /\ Ids(pendingEvents \o native) = {}
    BY <1>1, <1>4
  <2>2. \A t \in Threads : Once(Hands[t]) /\ Ids(Hands[t]) = {}
    BY <1>1, <1>4
  <2>3. \A i \in 1 .. 0 : FALSE
    OBVIOUS
  <2>4. Kept(pendingEvents \o native, Hands, lost \cup discarded, Len(log))
    BY <1>4, <1>5, <2>1, <2>2, <2>3 DEF Kept
  <2> QED
    BY <1>5, <2>4 DEF Accounted
<1>7. ASSUME NEW t \in Threads PROVE ThreadInv(t)
  <2>1. pc[t] = "idle" /\ acc[t] = <<>>
    BY DEF Init
  <2>2. InSourceOrder(Hands[t]) /\ Elems(Hands[t]) = {}
    BY <1>1, <1>4 DEF InSourceOrder
  <2> QED
    BY <1>1, <2>1, <2>2 DEF ThreadInv, LockHeld, Holding, CollectedOldest, NoneWantedLeft, TakenFirst
<1> QED
  BY <1>3, <1>6, <1>7 DEF QueueInv

(* The accounting leaves every event in exactly one place. *)
LEMMA AccountedOnce ==
  ASSUME TypeOK, Accounted
  PROVE  EventConservation
<1>1. /\ pendingEvents \in Seq(Event) /\ native \in Seq(Event)
      /\ seen \in [Threads -> Seq(Event)] /\ acc \in [Threads -> Seq(Event)]
  BY DEF TypeOK
<1> DEFINE l == lost \cup discarded
<1>2. /\ DOMAIN Hands = Threads /\ \A t \in Threads : Hands[t] = seen[t] \o acc[t]
      /\ Kept(pendingEvents \o native, Hands, l, Len(log)) /\ lost \cap discarded = {}
  BY DEF Hands, Accounted
<1> HIDE DEF l
<1> DEFINE N(i) == Placed(NoThread, "native", Copies(native, i))
           P(i) == Placed(NoThread, "pending", Copies(pendingEvents, i))
           A(i) == PlacedAll(Threads, "acc", acc, i)
           S(i) == PlacedAll(Threads, "seen", seen, i)
           D(i) == Placed(NoThread, "discarded", discarded \cap {i})
           L(i) == Placed(NoThread, "lost", lost \cap {i})
<1>3. ASSUME NEW i \in 1 .. Len(log)
      PROVE  Cardinality(N(i) \cup P(i) \cup A(i) \cup S(i) \cup D(i) \cup L(i)) = 1
  <2>1. InOnePlace(Threads, pendingEvents, native, seen, acc, l, i)
    <3>1. \A e \in Event : e.id \in Nat
      BY EventIds
    <3> QED
      BY <1>1, <1>2, <3>1, KeptOnce
  <2>2. /\ Single(Copies(native, i)) => Single(N(i))
        /\ Copies(native, i) = {} => N(i) = {}
    BY PlacedOne
  <2>3. /\ Single(Copies(pendingEvents, i)) => Single(P(i))
        /\ Copies(pendingEvents, i) = {} => P(i) = {}
    BY PlacedOne
  <2>4. (InOne(Threads, acc, i) => Single(A(i))) /\ (InNone(Threads, acc, i) => A(i) = {})
    BY PlacedInThreads
  <2>5. (InOne(Threads, seen, i) => Single(S(i))) /\ (InNone(Threads, seen, i) => S(i) = {})
    BY PlacedInThreads
  <2>6. ASSUME NEW Z PROVE (i \in Z => Single(Z \cap {i})) /\ (i \notin Z => Z \cap {i} = {})
    <3>1. (i \in Z => Z \cap {i} = {i}) /\ (i \notin Z => Z \cap {i} = {})
      OBVIOUS
    <3> QED
      BY <3>1 DEF Single
  <2>7. (i \in lost => Single(L(i))) /\ (i \notin lost => L(i) = {})
    BY <2>6, PlacedOne
  <2>8. (i \in discarded => Single(D(i))) /\ (i \notin discarded => D(i) = {})
    BY <2>6, PlacedOne
  <2>9. /\ i \in l <=> i \in lost \/ i \in discarded
        /\ ~(i \in lost /\ i \in discarded)
    BY <1>2 DEF l
  <2> HIDE DEF N, P, A, S, D, L
  <2>10. \E x : N(i) \cup P(i) \cup A(i) \cup S(i) \cup D(i) \cup L(i) = {x}
    BY <2>1, <2>2, <2>3, <2>4, <2>5, <2>7, <2>8, <2>9 DEF InOnePlace, Single
  <2> QED
    BY <2>10, FS_Singleton
<1> QED
  BY <1>3 DEF EventConservation

(* What polling promises: whatever mixture of calls the threads make, with whatever
   filters and limits, and whichever of them fail or stop in the middle of a batch,
   every event is in exactly one place; what is retained, collected and returned is
   in the order it was emitted. *)
THEOREM EventsOnceInOrderHolds == Spec => []EventsOnceInOrder
<1>1. ASSUME QueueInv PROVE EventsOnceInOrder
  <2>1. TypeOK /\ Accounted
    BY <1>1 DEF QueueInv
  <2>2. EventConservation
    BY <2>1, AccountedOnce
  <2>3. PendingIsOldest
    BY <2>1 DEF Accounted, Kept, Ordered, PendingIsOldest
  <2>4. CollectedInOrder
    BY <1>1 DEF QueueInv, ThreadInv, CollectedOldest, Ordered, CollectedInOrder
  <2>5. SourceOrder
    <3>1. ASSUME NEW t \in Threads PROVE InSourceOrder(seen[t])
      <4>1. seen[t] \in Seq(Event) /\ acc[t] \in Seq(Event) /\ InSourceOrder(seen[t] \o acc[t])
        BY <1>1, <2>1, HandParts DEF QueueInv, ThreadInv, TakenFirst
      <4> QED
        BY <4>1, SourceConcat
    <3> QED
      BY <3>1 DEF SourceOrder, InSourceOrder, SameSource
  <2> QED
    BY <2>1, <2>2, <2>3, <2>4, <2>5 DEF EventsOnceInOrder
<1> QED
  BY <1>1, QueueInvInit, QueueInvSteps, PTL DEF Spec

-----------------------------------------------------------------------------
(* What an event unbinds is what it ends. *)
LEMMA ReleasesWhatEnds ==
  ASSUME NEW o \in Ops, NEW e
  PROVE  o \in Releases(e) <=> Ends(e, o)
<1>1. o # NoOp
  BY OpsAssumption
<1>2. CASE e.kind = "session_close"
  BY <1>2 DEF Releases, Ends, IsResultEvent
<1>3. CASE e.kind # "session_close" /\ (IsResultEvent(e) \/ e.kind = "peer_cancel")
  <2>1. Releases(e) = {e.op} \ {NoOp}
    BY <1>3 DEF Releases, IsResultEvent
  <2> QED
    BY <1>1, <1>3, <2>1 DEF Ends, IsResultEvent
<1>4. CASE e.kind # "session_close" /\ ~(IsResultEvent(e) \/ e.kind = "peer_cancel")
  <2>1. Releases(e) = {}
    BY <1>4 DEF Releases, IsResultEvent
  <2> QED
    BY <1>4, <2>1 DEF Ends, IsResultEvent
<1> QED
  BY <1>2, <1>3, <1>4

(* Observing events unbinds exactly the operations they end. *)
LEMMA ObserveUnbinds ==
  ASSUME TypeOK, NEW s \in Seq(Event), NEW o \in Ops
  PROVE  /\ (\E e \in Elems(s) : Ends(e, o)) => ObservePolledEvents(s)[o] = 0
         /\ ~(\E e \in Elems(s) : Ends(e, o)) => ObservePolledEvents(s)[o] = operationFrames[o]
<1> DEFINE R == UNION {Releases(s[i]) : i \in DOMAIN s}
<1>1. operationFrames \in [Ops -> Nat]
  BY DEF TypeOK
<1>2. o \in R <=> \E i \in DOMAIN s : Ends(s[i], o)
  BY ReleasesWhatEnds
<1>3. (\E i \in DOMAIN s : Ends(s[i], o)) <=> \E e \in Elems(s) : Ends(e, o)
  BY DEF Elems
<1> HIDE DEF R
<1>4. Forget(operationFrames, R)[o] = IF o \in R THEN 0 ELSE operationFrames[o]
  BY <1>1, ForgetTypes
<1> QED
  BY <1>2, <1>3, <1>4 DEF ObservePolledEvents, R

(* The log has one event of each id. *)
LEMMA LogIds ==
  ASSUME QueuedWasSent, NEW e \in Elems(log), NEW f \in Elems(log), e.id = f.id
  PROVE  e = f
<1>1. PICK i \in DOMAIN log : e = log[i]
  BY DEF Elems
<1>2. PICK j \in DOMAIN log : f = log[j]
  BY DEF Elems
<1> QED
  BY <1>1, <1>2 DEF QueuedWasSent

(* What has left the native queue, as events of the log. *)
LEMMA ConsumedIs ==
  /\ \A e : e \in Consumed <=> e \in Elems(log) /\ e.id \notin Ids(native)
  /\ \A e : e \in Consumed' <=> e \in Elems(log') /\ e.id \notin Ids(native')
<1>1. \A e : e \in Consumed <=> e \in Elems(log) /\ e.id \notin Ids(native)
  BY DEF Consumed, Elems
<1>2. \A e : e \in Consumed' <=> e \in Elems(log') /\ e.id \notin Ids(native')
  BY DEF Consumed, Elems
<1> QED
  BY <1>1, <1>2

(* The batch of a native call is what that call consumes. *)
LEMMA BatchConsumed ==
  ASSUME QueueInv, QueuedWasSent, NEW n \in 0 .. Len(native),
         native' = SubSeq(native, n + 1, Len(native)), log' = log
  PROVE  /\ Elems(native') \subseteq Elems(native) /\ Ids(native') \subseteq Ids(native)
         /\ \A e \in Elems(SubSeq(native, 1, n)) : e \in Consumed'
         /\ \A e \in Consumed' : e \in Consumed \/ e \in Elems(SubSeq(native, 1, n))
<1> DEFINE B == SubSeq(native, 1, n)
           r == SubSeq(native, n + 1, Len(native))
<1>1. TypeOK /\ Accounted /\ native \in Seq(Event) /\ pendingEvents \in Seq(Event)
  BY DEF QueueInv, TypeOK
<1>2. /\ B \in Seq(Event) /\ r \in Seq(Event) /\ native = B \o r
      /\ Elems(native) = Elems(B) \cup Elems(r) /\ Ids(native) = Ids(B) \cup Ids(r)
  BY <1>1, BatchParts
<1>3. native' = r
  OBVIOUS
<1> HIDE DEF B, r
<1>4. Before(Ids(B), Ids(r))
  <2>1. Ordered(pendingEvents \o native)
    BY <1>1 DEF Accounted, Kept
  <2>2. Ordered(native)
    BY <1>1, <2>1, ConcatContents
  <2>3. Ordered(B \o r)
    BY <1>2, <2>2
  <2> QED
    BY <1>2, <2>3, ConcatContents
<1>5. ASSUME NEW e \in Elems(B) PROVE e \in Consumed'
  <2>1. e \in Elems(log)
    BY <1>2 DEF QueuedWasSent
  <2>2. e.id \in Ids(B) /\ e.id \in Nat
    <3>1. e \in Event
      BY <1>2, EventIds
    <3> QED
      BY <3>1, EventIds DEF Elems, Ids
  <2>3. e.id \notin Ids(r)
    BY <1>4, <2>2 DEF Before
  <2> QED
    BY <1>3, <2>1, <2>3, ConsumedIs
<1>6. ASSUME NEW e \in Consumed', e \notin Consumed PROVE e \in Elems(B)
  <2>1. e \in Elems(log) /\ e.id \notin Ids(r) /\ e.id \in Ids(native)
    BY <1>3, <1>6, ConsumedIs
  <2>2. e.id \in Ids(B)
    BY <1>2, <2>1
  <2>3. PICK f \in Elems(B) : f.id = e.id
    BY <2>2 DEF Ids, Elems
  <2>4. f \in Elems(log)
    BY <1>2 DEF QueuedWasSent
  <2> QED
    BY <2>1, <2>3, <2>4, LogIds
<1> QED
  BY <1>2, <1>3, <1>5, <1>6 DEF B

\* Nothing leaves the log, nothing comes back to the native queue, and closing and
\* cancelling are for good.
EvidenceStep ==
  /\ closed => closed'
  /\ cancelled \subseteq cancelled'
  /\ \A e \in Consumed : e \in Consumed'

(* So evidence is never taken back. *)
LEMMA EvidenceStays ==
  ASSUME EvidenceStep, NEW o, EvidenceFor(o)
  PROVE  EvidenceFor(o)'
BY DEF EvidenceStep, EvidenceFor

(* What a step owes to the binding of an operation whose submit returned. *)
BindingStep ==
  /\ \A o \in returned' : \/ o \in returned /\ operationFrames'[o] = operationFrames[o]
                          \/ operationFrames'[o] = FrameOf[o]
                          \/ operationFrames'[o] = 0 /\ EvidenceFor(o)'
  /\ \A o \in returned : VisibleEvidence(o)' => operationFrames'[o] = 0 \/ VisibleEvidence(o)

(* A step of that kind keeps bindings. *)
LEMMA BindingKept ==
  ASSUME LiveBindingKept, EvidenceStep, BindingStep
  PROVE  LiveBindingKept'
<1>1. \A o : EvidenceFor(o) => EvidenceFor(o)'
  BY EvidenceStays
<1>2. ASSUME NEW o \in returned'
      PROVE  operationFrames'[o] = FrameOf[o] \/ (operationFrames'[o] = 0 /\ EvidenceFor(o)')
  BY <1>1 DEF BindingStep, LiveBindingKept
<1> QED
  BY <1>2 DEF LiveBindingKept

(* A step that leaves the log, the queue and the bindings alone. *)
LEMMA UnboundStep ==
  ASSUME UNCHANGED <<closed, native, log, bindingVars>>, lost \subseteq lost'
  PROVE  EvidenceStep /\ BindingStep
<1>1. Consumed' = Consumed
  BY DEF Consumed
<1>2. EvidenceStep
  BY <1>1 DEF EvidenceStep, bindingVars
<1>3. \A o : VisibleEvidence(o)' => VisibleEvidence(o)
  BY <1>1 DEF VisibleEvidence, bindingVars
<1> QED
  BY <1>2, <1>3 DEF BindingStep, bindingVars

(* PollReturn unbinds what the batch ends. *)
LEMMA ReturnsBinding ==
  ASSUME QueueInv, QueuedWasSent, NEW t \in Threads, NEW n \in 0 .. Len(native), Returns(t, n)
  PROVE  QueuedWasSent' /\ EvidenceStep /\ BindingStep
<1> DEFINE B == SubSeq(native, 1, n)
<1>1. TypeOK /\ returned \subseteq Ops
  BY DEF QueueInv, TypeOK
<1>2. /\ native' = SubSeq(native, n + 1, Len(native)) /\ log' = log
      /\ operationFrames' = ObservePolledEvents(B)
      /\ closed' = closed /\ lost' = lost /\ returned' = returned /\ cancelled' = cancelled
  BY DEF Returns
<1>3. B \in Seq(Event)
  BY <1>1, BatchParts
<1>4. /\ Elems(native') \subseteq Elems(native) /\ Ids(native') \subseteq Ids(native)
      /\ \A e \in Elems(B) : e \in Consumed'
      /\ \A e \in Consumed' : e \in Consumed \/ e \in Elems(B)
  BY <1>2, BatchConsumed
<1> HIDE DEF B
<1>5. QueuedWasSent'
  BY <1>2, <1>4 DEF QueuedWasSent
<1>6. EvidenceStep
  BY <1>2, <1>4, ConsumedIs DEF EvidenceStep
<1>7. ASSUME NEW o \in returned
      PROVE  /\ operationFrames'[o] = operationFrames[o] \/ (operationFrames'[o] = 0 /\ EvidenceFor(o)')
             /\ VisibleEvidence(o)' => operationFrames'[o] = 0 \/ VisibleEvidence(o)
  <2>1. CASE \E e \in Elems(B) : Ends(e, o)
    <3>1. operationFrames'[o] = 0
      BY <1>1, <1>2, <1>3, <2>1, ObserveUnbinds
    <3>2. EvidenceFor(o)'
      BY <1>4, <2>1 DEF EvidenceFor
    <3> QED
      BY <3>1, <3>2
  <2>2. CASE ~\E e \in Elems(B) : Ends(e, o)
    <3>1. operationFrames'[o] = operationFrames[o]
      BY <1>1, <1>2, <1>3, <2>2, ObserveUnbinds
    <3>2. VisibleEvidence(o)' => VisibleEvidence(o)
      BY <1>2, <1>4, <2>2 DEF VisibleEvidence
    <3> QED
      BY <3>1, <3>2
  <2> QED
    BY <2>1, <2>2
<1> QED
  BY <1>2, <1>5, <1>6, <1>7 DEF BindingStep

(* PollDecodeFail unbinds what it observed; what it did not observe is lost. *)
LEMMA RaisesBinding ==
  ASSUME QueueInv, QueuedWasSent, NEW t \in Threads, NEW n \in 1 .. Len(native),
         NEW m \in 0 .. Len(native), NEW l \in 0 .. Len(native), NEW kept,
         RaisesAfter(t, n, m, l, kept)
  PROVE  QueuedWasSent' /\ EvidenceStep /\ BindingStep
<1> DEFINE B == SubSeq(native, 1, n)
           S == SubSeq(native, 1, m)
           G == SubSeq(native, 1, l)
           g == Ids(B) \ Ids(kept)
<1>1. TypeOK /\ returned \subseteq Ops /\ native \in Seq(Event) /\ Len(native) \in Nat
  BY LenProperties DEF QueueInv, TypeOK
<1>2. n \in 0 .. Len(native) /\ n \in Nat /\ m \in Nat /\ l \in Nat /\ l <= m /\ m <= n
  BY <1>1 DEF RaisesAfter
<1>3. B \in Seq(Event) /\ S \in Seq(Event) /\ G \in Seq(Event)
  BY <1>1, <1>2, BatchParts
<1>4. /\ native' = SubSeq(native, n + 1, Len(native)) /\ log' = log
      /\ operationFrames' = ObservePolledEvents(S)
      /\ kept \in {<<>>, Retained(G, call[t], Len(acc[t]))}
      /\ lost' = lost \cup Ids(acc[t]) \cup g
      /\ closed' = closed /\ returned' = returned /\ cancelled' = cancelled
  BY DEF RaisesAfter, Raise
<1>5. /\ Elems(native') \subseteq Elems(native) /\ Ids(native') \subseteq Ids(native)
      /\ \A e \in Elems(B) : e \in Consumed'
      /\ \A e \in Consumed' : e \in Consumed \/ e \in Elems(B)
  BY <1>2, <1>4, BatchConsumed
<1>6. /\ \A i \in DOMAIN S : i \in DOMAIN B /\ S[i] = B[i]
      /\ \A i \in DOMAIN G : i \in DOMAIN S /\ G[i] = S[i]
  <2>1. Len(B) = n /\ \A i \in 1 .. n : B[i] = native[i]
    BY <1>1, <1>2, SubSeqProperties
  <2>2. Len(S) = m /\ \A i \in 1 .. m : S[i] = native[i]
    BY <1>1, <1>2, SubSeqProperties
  <2>3. Len(G) = l /\ \A i \in 1 .. l : G[i] = native[i]
    BY <1>1, <1>2, SubSeqProperties
  <2> HIDE DEF S, B, G
  <2>4. DOMAIN S = 1 .. m /\ DOMAIN B = 1 .. n /\ DOMAIN G = 1 .. l
    BY <1>3, <2>1, <2>2, <2>3, LenProperties
  <2> QED
    BY <1>2, <2>1, <2>2, <2>3, <2>4
<1> HIDE DEF B, S, G
<1>7. Elems(S) \subseteq Elems(B) /\ Elems(G) \subseteq Elems(S)
  BY <1>6 DEF Elems
<1>8. Elems(kept) \subseteq Elems(S)
  <2>1. Elems(kept) \subseteq Elems(G)
    BY <1>3, <1>4, PassParts, EmptyList
  <2> QED
    BY <1>7, <2>1
<1>9. QueuedWasSent'
  BY <1>4, <1>5 DEF QueuedWasSent
<1>10. EvidenceStep
  BY <1>4, <1>5, ConsumedIs DEF EvidenceStep
<1>11. \A e \in Elems(B) : e.id \notin lost' => e \in Elems(S)
  <2> SUFFICES ASSUME NEW e \in Elems(B), e.id \notin lost' PROVE e \in Elems(S)
    OBVIOUS
  <2>1. e.id \in Ids(B)
    BY DEF Elems, Ids
  <2>2. e.id \in Ids(kept)
    BY <1>4, <2>1 DEF g
  <2>3. PICK f \in Elems(kept) : f.id = e.id
    BY <2>2 DEF Elems, Ids
  <2>4. f \in Elems(S) /\ f \in Elems(B)
    BY <1>7, <1>8
  <2>5. f \in Consumed' /\ e \in Consumed'
    BY <1>5, <2>4
  <2>6. f \in Elems(log) /\ e \in Elems(log)
    BY <1>4, <2>5, ConsumedIs
  <2> QED
    BY <2>3, <2>4, <2>6, LogIds
<1>12. ASSUME NEW o \in returned
       PROVE  /\ operationFrames'[o] = operationFrames[o] \/ (operationFrames'[o] = 0 /\ EvidenceFor(o)')
              /\ VisibleEvidence(o)' => operationFrames'[o] = 0 \/ VisibleEvidence(o)
  <2>1. CASE \E e \in Elems(S) : Ends(e, o)
    <3>1. operationFrames'[o] = 0
      BY <1>1, <1>3, <1>4, <2>1, ObserveUnbinds
    <3>2. EvidenceFor(o)'
      BY <1>5, <1>7, <2>1 DEF EvidenceFor
    <3> QED
      BY <3>1, <3>2
  <2>2. CASE ~\E e \in Elems(S) : Ends(e, o)
    <3>1. operationFrames'[o] = operationFrames[o]
      BY <1>1, <1>3, <1>4, <2>2, ObserveUnbinds
    <3>2. \A e \in Consumed' : e.id \notin lost' /\ Ends(e, o) => e \in Consumed /\ e.id \notin lost
      BY <1>4, <1>5, <1>11, <2>2
    <3>3. VisibleEvidence(o)' => VisibleEvidence(o)
      BY <1>4, <3>2 DEF VisibleEvidence
    <3> QED
      BY <3>1, <3>3
  <2> QED
    BY <2>1, <2>2
<1> QED
  BY <1>4, <1>9, <1>10, <1>12 DEF BindingStep

(* NativeEmit: what just arrived is not consumed yet. *)
LEMMA EmitBinding ==
  ASSUME QueueInv, QueuedWasSent, NEW k \in EventKinds, NEW o \in Ops \cup {NoOp}, NativeEmit(k, o)
  PROVE  QueuedWasSent' /\ EvidenceStep /\ BindingStep
<1>1. log \in Seq(Event) /\ native \in Seq(Event) /\ Len(log) \in Nat /\ DOMAIN log = 1 .. Len(log)
  BY LenProperties DEF QueueInv, TypeOK
<1>2. PICK e \in Event : e.id = Len(log) + 1 /\ native' = Append(native, e) /\ log' = Append(log, e)
  BY EmitKeeps
<1>3. /\ Elems(native') = Elems(native) \cup {e} /\ Ids(native') = Ids(native) \cup {e.id}
      /\ Elems(log') = Elems(log) \cup {e}
  BY <1>1, <1>2, AppendContents
<1>4. /\ log' \in Seq(Event) /\ Len(log') = Len(log) + 1
      /\ \A i \in 1 .. Len(log) : log'[i] = log[i]
      /\ log'[Len(log) + 1] = e
  BY <1>1, <1>2, AppendProperties
<1>5. DOMAIN log' = 1 .. (Len(log) + 1)
  BY <1>4, LenProperties
<1>6. QueuedWasSent'
  <2>1. \A i \in DOMAIN log' : log'[i].id = i
    BY <1>1, <1>2, <1>4, <1>5 DEF QueuedWasSent
  <2> QED
    BY <1>3, <2>1 DEF QueuedWasSent
<1>7. \A f \in Elems(log) : f.id # e.id
  BY <1>1, <1>2 DEF QueuedWasSent, Elems
<1>8. \A f : f \in Consumed' <=> f \in Consumed
  BY <1>3, <1>7, ConsumedIs
<1>9. /\ closed' = closed /\ lost' = lost
      /\ operationFrames' = operationFrames /\ returned' = returned /\ cancelled' = cancelled
  BY DEF NativeEmit, bindingVars
<1>10. EvidenceStep
  BY <1>8, <1>9 DEF EvidenceStep
<1>11. \A p : VisibleEvidence(p)' => VisibleEvidence(p)
  BY <1>8, <1>9 DEF VisibleEvidence
<1> QED
  BY <1>6, <1>9, <1>10, <1>11 DEF BindingStep

(* Submit, cancel, the operation-scoped frames and close. *)
LEMMA QuietBinding ==
  ASSUME QueueInv, QueuedWasSent, LiveBindingKept, NEW t \in Threads, QuietAction(t)
  PROVE  QueuedWasSent' /\ EvidenceStep /\ BindingStep
<1>1. TypeOK /\ Holding(t) /\ returned \subseteq Ops /\ operationFrames \in [Ops -> Nat]
  BY DEF QueueInv, ThreadInv, TypeOK
<1>2. native' = native /\ log' = log /\ lost' = lost
  BY <1>1, QuietTypes DEF QuietStep, queueVars
<1>3. QueuedWasSent'
  BY <1>2 DEF QueuedWasSent
<1>4. Consumed' = Consumed
  BY <1>2 DEF Consumed
<1>5. ASSUME closed' = closed, operationFrames' = operationFrames, returned' = returned,
             cancelled' = cancelled
      PROVE  EvidenceStep /\ BindingStep
  BY <1>2, <1>5, UnboundStep DEF bindingVars
<1>6. ASSUME NEW c \in PollCalls, PollBegin(t, c) PROVE EvidenceStep /\ BindingStep
  BY <1>5, <1>6 DEF PollBegin, bindingVars
<1>7. ASSUME NEW o \in Ops, SubmitNative(t, o) PROVE EvidenceStep /\ BindingStep
  BY <1>5, <1>7 DEF SubmitNative, bindingVars
<1>8. ASSUME NEW o \in Ops, ControlLookup(t, o) PROVE EvidenceStep /\ BindingStep
  BY <1>5, <1>8 DEF ControlLookup, bindingVars
<1>9. CASE RememberOperationFrame(t)
  <2>1. PICK o \in Ops : o = call[t].op
    BY <1>1, <1>9 DEF Holding, RememberOperationFrame
  <2>2. /\ closed' = closed /\ cancelled' = cancelled /\ returned' = returned \cup {o}
        /\ operationFrames' = [operationFrames EXCEPT ![o] = FrameOf[o]]
    BY <1>9, <2>1 DEF RememberOperationFrame
  <2>3. \A p \in Ops : operationFrames'[p] = IF p = o THEN FrameOf[o] ELSE operationFrames[p]
    BY <1>1, <2>1, <2>2
  <2>4. EvidenceStep
    BY <1>4, <2>2 DEF EvidenceStep
  <2>5. \A p : VisibleEvidence(p)' => VisibleEvidence(p)
    BY <1>2, <1>4, <2>2 DEF VisibleEvidence
  <2>6. \A p \in returned' : \/ p \in returned /\ operationFrames'[p] = operationFrames[p]
                             \/ operationFrames'[p] = FrameOf[p]
    BY <1>1, <2>2, <2>3
  <2> QED
    BY <1>3, <2>4, <2>5, <2>6 DEF BindingStep
<1>10. ASSUME NEW o \in Ops, Cancel(t, o) PROVE EvidenceStep /\ BindingStep
  <2> DEFINE R == {p \in Ops : operationFrames[p] = FrameOf[o]}
  <2>1. /\ o \in returned /\ closed' = closed /\ returned' = returned
        /\ cancelled' = cancelled \cup {o} /\ operationFrames' = Forget(operationFrames, R)
    BY <1>10 DEF Cancel
  <2>2. \A p \in Ops : p \in R <=> operationFrames[p] = FrameOf[o]
    OBVIOUS
  <2> HIDE DEF R
  <2>3. \A p \in Ops : operationFrames'[p] = IF p \in R THEN 0 ELSE operationFrames[p]
    BY <1>1, <2>1, ForgetTypes
  <2>4. EvidenceStep
    BY <1>4, <2>1 DEF EvidenceStep
  <2>5. ASSUME NEW p \in returned, p \in R PROVE p = o
    <3>1. operationFrames[p] = FrameOf[o] /\ FrameOf[o] # 0
      BY <1>1, <2>2, <2>5, FrameAssumption
    <3>2. operationFrames[p] = FrameOf[p]
      BY <3>1 DEF LiveBindingKept
    <3> QED
      BY <1>1, <3>1, <3>2, FrameAssumption
  <2>6. EvidenceFor(o)'
    BY <2>1 DEF EvidenceFor
  <2>7. operationFrames'[o] = 0
    <3>1. operationFrames[o] = FrameOf[o] \/ operationFrames[o] = 0
      BY <2>1 DEF LiveBindingKept
    <3> QED
      BY <2>2, <2>3, <3>1
  <2>8. \A p : VisibleEvidence(p)' => p = o \/ VisibleEvidence(p)
    BY <1>2, <1>4, <2>1 DEF VisibleEvidence
  <2>9. \A p \in returned : \/ operationFrames'[p] = operationFrames[p]
                            \/ operationFrames'[p] = 0 /\ EvidenceFor(p)'
    BY <1>1, <2>3, <2>5, <2>6
  <2> QED
    BY <2>1, <2>4, <2>7, <2>8, <2>9 DEF BindingStep
<1>11. CASE ControlSent(t)
  <2>1. PICK o \in Ops : o = call[t].op
    BY <1>1, <1>11 DEF Holding, ControlSent
  <2>2. /\ closed' = closed /\ returned' = returned
        /\ \/ operationFrames' = operationFrames /\ cancelled' = cancelled
           \/ operationFrames' = Forget(operationFrames, {o}) /\ cancelled' = cancelled \cup {o}
    BY <1>11, <2>1 DEF ControlSent
  <2>3. CASE operationFrames' = operationFrames /\ cancelled' = cancelled
    BY <1>3, <1>5, <2>2, <2>3
  <2>4. CASE operationFrames' = Forget(operationFrames, {o}) /\ cancelled' = cancelled \cup {o}
    <3>1. \A p \in Ops : operationFrames'[p] = IF p = o THEN 0 ELSE operationFrames[p]
      BY <1>1, <2>4 DEF Forget
    <3>2. EvidenceStep
      BY <1>4, <2>2, <2>4 DEF EvidenceStep
    <3>3. EvidenceFor(o)'
      BY <2>4 DEF EvidenceFor
    <3>4. \A p : VisibleEvidence(p)' => p = o \/ VisibleEvidence(p)
      BY <1>2, <1>4, <2>2, <2>4 DEF VisibleEvidence
    <3>5. \A p \in returned : \/ operationFrames'[p] = operationFrames[p]
                              \/ operationFrames'[p] = 0 /\ EvidenceFor(p)'
      BY <1>1, <3>1, <3>3
    <3>6. operationFrames'[o] = 0
      BY <3>1
    <3> QED
      BY <1>3, <2>2, <3>2, <3>4, <3>5, <3>6 DEF BindingStep
  <2> QED
    BY <2>2, <2>3, <2>4
<1>12. CASE Close(t)
  <2>1. /\ closed' = TRUE /\ operationFrames' = [o \in Ops |-> 0]
        /\ returned' = returned /\ cancelled' = cancelled
    BY <1>12 DEF Close
  <2>2. EvidenceStep
    BY <1>4, <2>1 DEF EvidenceStep
  <2>3. \A o : EvidenceFor(o)'
    BY <2>1 DEF EvidenceFor
  <2>4. \A o \in returned : operationFrames'[o] = 0
    BY <1>1, <2>1
  <2> QED
    BY <1>3, <2>1, <2>2, <2>3, <2>4 DEF BindingStep
<1> QED
  BY <1>3, <1>6, <1>7, <1>8, <1>9, <1>10, <1>11, <1>12 DEF QuietAction

\* The inductive invariant.
IInv == QueueInv /\ BindInv

(* What every step owes to the bindings. *)
LEMMA BindingSteps ==
  ASSUME IInv, [Next]_vars
  PROVE  QueuedWasSent' /\ EvidenceStep /\ BindingStep
<1>1. QueueInv /\ QueuedWasSent /\ LiveBindingKept /\ TypeOK
  BY DEF IInv, BindInv, QueueInv
<1>2. ASSUME UNCHANGED <<closed, native, log, bindingVars>>, lost \subseteq lost'
      PROVE  QueuedWasSent' /\ EvidenceStep /\ BindingStep
  BY <1>1, <1>2, UnboundStep DEF QueuedWasSent
<1>3. ASSUME NEW t \in Threads, ThreadStep(t) PROVE QueuedWasSent' /\ EvidenceStep /\ BindingStep
  <2>1. CASE QuietAction(t)
    BY <1>1, <2>1, QuietBinding
  <2>2. CASE PollTake(t)
    BY <1>2, <2>2 DEF PollTake
  <2>3. CASE PollReturn(t)
    BY <1>1, <2>3, PollReturns, ReturnsBinding
  <2>4. CASE PollAgain(t)
    BY <1>2, <2>4 DEF PollAgain, Raise
  <2>5. CASE PollFail(t)
    BY <1>2, <2>5 DEF PollFail, Raise
  <2>6. CASE PollDecodeFail(t)
    <3>1. PICK n \in 1 .. Len(native), m \in 0 .. Len(native), l \in 0 .. Len(native) :
                 \E kept : RaisesAfter(t, n, m, l, kept)
      BY <1>1, <2>6, DecodeRaises
    <3> QED
      BY <1>1, <3>1, RaisesBinding
  <2>7. CASE HandOut(t)
    BY <1>2, <2>7 DEF HandOut
  <2>8. CASE PollTakeFail(t)
    BY <1>2, <2>8 DEF PollTakeFail, Raise
  <2>9. CASE Convert(t)
    BY <1>2, <2>9 DEF Convert, Raise
  <2> QED
    BY <1>3, <2>1, <2>2, <2>3, <2>4, <2>5, <2>6, <2>7, <2>8, <2>9 DEF ThreadStep, QuietAction
<1>4. ASSUME NEW k \in EventKinds, NEW o \in Ops \cup {NoOp}, NativeEmit(k, o)
      PROVE  QueuedWasSent' /\ EvidenceStep /\ BindingStep
  BY <1>1, <1>4, EmitBinding
<1>5. CASE UNCHANGED vars
  BY <1>2, <1>5 DEF vars, bindingVars
<1> QED
  BY <1>3, <1>4, <1>5 DEF Next

(* The invariant holds at first, and every step keeps it. *)
LEMMA IInvHolds ==
  /\ Init => IInv
  /\ IInv /\ [Next]_vars => IInv'
<1>1. ASSUME Init PROVE IInv
  <2>1. QueuedWasSent
    <3>1. native = <<>> /\ log = <<>>
      BY <1>1 DEF Init
    <3>2. Elems(native) = {} /\ DOMAIN log = {}
      BY <3>1, EmptyList
    <3> QED
      BY <3>2 DEF QueuedWasSent
  <2>2. LiveBindingKept
    BY <1>1 DEF Init, LiveBindingKept
  <2> QED
    BY <1>1, <2>1, <2>2, QueueInvInit DEF IInv, BindInv
<1>2. ASSUME IInv, [Next]_vars PROVE IInv'
  <2>1. QueueInv'
    BY <1>2, QueueInvSteps DEF IInv
  <2>2. QueuedWasSent' /\ EvidenceStep /\ BindingStep
    BY <1>2, BindingSteps
  <2>3. LiveBindingKept'
    BY <1>2, <2>2, BindingKept DEF IInv, BindInv
  <2> QED
    BY <2>1, <2>2, <2>3 DEF IInv, BindInv
<1> QED
  BY <1>1, <1>2

(* Whichever threads receive, cancel, control and close: once submit returned, the
   operation stays bound to the frame it was submitted with until there is evidence
   that it ended. *)
THEOREM LiveBindingKeptHolds == Spec => []LiveBindingKept
<1>1. IInv => LiveBindingKept
  BY DEF IInv, BindInv
<1> QED
  BY <1>1, IInvHolds, PTL DEF Spec

(* The step that brings evidence the session can look at unbinds the operation,
   whichever thread takes it: no receiving call drops terminal evidence on the way
   to _observe_polled_event. *)
THEOREM ReleasedOnEvidenceHolds == Spec => ReleasedOnEvidence
<1> DEFINE Released == \A o \in returned :
             VisibleEvidence(o)' => operationFrames'[o] = 0 \/ VisibleEvidence(o)
<1>1. ASSUME IInv, [Next]_vars PROVE Released
  BY <1>1, BindingSteps DEF BindingStep
<1>2. IInv /\ [Next]_vars => [Released]_vars
  BY <1>1
<1> QED
  BY <1>2, IInvHolds, PTL DEF Spec, ReleasedOnEvidence

-----------------------------------------------------------------------------
(* Async submit and wait *)


\* dispatch_started is up exactly once the worker entered the native submit,
\* never after dispatch_allowed was withdrawn, and nothing is sent before.
DispatchGuarded ==
  /\ dispatched <=> submitter \in {"running", "ok", "failed"}
  /\ ~allowed => ~dispatched
  /\ ~dispatched => ~Made("SUBMIT") /\ ~Made("CANCEL")

\* What the await the task is suspended in says about its workers.
AwaitKnows ==
  /\ task = "new" => submitter = "none"
  /\ task \in {"new", "submit"} => allowed
  /\ task = "submit_handler" => dispatched
  /\ task \in {"new", "submit", "submit_handler"} => poller = "none"
  /\ task \in {"poll", "poll_handler"} => poller # "none"
  /\ poller # "none" => submitter = "ok"

\* Which cancellations the task has seen where it stands.
CancelsSeen ==
  /\ task \in {"new", "submit", "poll"} => cancels = 0
  /\ task = "submit_handler" => cancels >= 1
  /\ task = "poll_handler" => requested
  /\ requested => cancels >= 1

\* The poll worker gives way only when asked to, and gives up only after the
\* native cancellation.
PollerCancels ==
  /\ poller \in {"finish", "cancelled"} => requested
  /\ poller = "cancelled" => Made("CANCEL")
  /\ poller \in {"raise_timeout", "timeout"} => Made("CANCEL") /\ expired

\* What the caller was told, with the reason for it.
OutcomeExplained ==
  /\ task # "done" => outcome = "none"
  /\ TimeoutIsCancelled
  /\ outcome = "cancelled" /\ cancels <= 1 => ~allowed \/ Made("CANCEL") \/ poller = "result"

SubmitIInv ==
  /\ SubmitTypeOK
  /\ DispatchGuarded
  /\ AwaitKnows
  /\ CancelsSeen
  /\ PollerCancels
  /\ OutcomeExplained

-----------------------------------------------------------------------------
(* One more native call: Append adds exactly the call that is made. *)
LEMMA MadeAppend ==
  ASSUME SubmitTypeOK, NEW c \in {"SUBMIT", "CANCEL"}, calls' = Append(calls, c)
  PROVE  /\ calls' \in Seq({"DEADLINE", "SUBMIT", "CANCEL"})
         /\ Made(c)'
         /\ \A d : d # c => (Made(d)' <=> Made(d))
<1>1. calls \in Seq({"DEADLINE", "SUBMIT", "CANCEL"})
  BY DEF SubmitTypeOK
<1>2. /\ calls' \in Seq({"DEADLINE", "SUBMIT", "CANCEL"})
      /\ Len(calls') = Len(calls) + 1
      /\ calls'[Len(calls) + 1] = c
      /\ \A i \in 1 .. Len(calls) : calls'[i] = calls[i]
  BY <1>1
<1>3. DOMAIN calls = 1 .. Len(calls) /\ DOMAIN calls' = 1 .. (Len(calls) + 1) /\ Len(calls) \in Nat
  BY <1>1, <1>2
<1> QED
  BY <1>2, <1>3 DEF Made

(* A step without a native call. *)
LEMMA MadeSame ==
  ASSUME calls' = calls
  PROVE  \A d : Made(d)' <=> Made(d)
  BY DEF Made

(* A call that has not begun has done nothing. *)
LEMMA SubmitInitIInv == SubmitInit => SubmitIInv
<1> SUFFICES ASSUME SubmitInit PROVE SubmitIInv
  OBVIOUS
<1>1. ~Made("SUBMIT") /\ ~Made("CANCEL")
  BY DEF SubmitInit, Made
<1>2. SubmitTypeOK
  <2>1. calls \in Seq({"DEADLINE", "SUBMIT", "CANCEL"}) /\ cancels \in 0 .. MaxCancels
    BY MaxCancelsAssumption DEF SubmitInit
  <2> QED
    BY <2>1 DEF SubmitInit, SubmitTypeOK
<1> QED
  BY <1>1, <1>2 DEF SubmitInit, SubmitIInv, DispatchGuarded, AwaitKnows, CancelsSeen, PollerCancels,
     OutcomeExplained, TimeoutIsCancelled

(* Begin sends at most the deadline. *)
LEMMA BeginStep ==
  ASSUME SubmitIInv, Begin
  PROVE  SubmitIInv'
<1>1. calls' \in Seq({"DEADLINE", "SUBMIT", "CANCEL"}) /\ ~Made("SUBMIT")' /\ ~Made("CANCEL")'
  <2>1. calls' = <<"DEADLINE">> \/ calls' = <<>>
    BY DEF Begin
  <2>2. CASE calls' = <<"DEADLINE">>
    <3>1. DOMAIN calls' = {1} /\ calls'[1] = "DEADLINE"
      BY <2>2
    <3>2. calls' \in Seq({"DEADLINE", "SUBMIT", "CANCEL"})
      BY <2>2
    <3> QED
      BY <3>1, <3>2 DEF Made
  <2>3. CASE calls' = <<>>
    BY <2>3 DEF Made
  <2> QED
    BY <2>1, <2>2, <2>3
<1>2. SubmitTypeOK'
  BY <1>1 DEF SubmitIInv, SubmitTypeOK, Begin, End
<1>3. ~dispatched /\ ~dispatched' /\ poller = "none" /\ ~requested /\ cancels = 0
  BY DEF SubmitIInv, SubmitTypeOK, DispatchGuarded, AwaitKnows, CancelsSeen, Begin
<1>4. DispatchGuarded' /\ AwaitKnows'
  <2>1. task' \in {"submit", "done"} /\ submitter' \in {"none", "queued"} /\ poller' = "none"
    BY <1>3 DEF SubmitIInv, AwaitKnows, Begin, End
  <2>2. task' = "submit" => allowed'
    BY DEF Begin, End, SubmitIInv, AwaitKnows
  <2> QED
    BY <1>1, <1>3, <2>1, <2>2 DEF DispatchGuarded, AwaitKnows
<1>5. CancelsSeen' /\ PollerCancels' /\ OutcomeExplained'
  BY <1>1, <1>3 DEF SubmitIInv, CancelsSeen, PollerCancels, OutcomeExplained, TimeoutIsCancelled, Begin, End
<1> QED
  BY <1>2, <1>4, <1>5 DEF SubmitIInv

(* The task's steps that resume an await, other than the handlers. *)
LEMMA ResumeStep ==
  ASSUME SubmitIInv, ResumeSubmit \/ ResumePoll \/ ResumePollHandler
  PROVE  SubmitIInv'
<1>1. \A d : Made(d)' <=> Made(d)
  BY MadeSame DEF ResumeSubmit, ResumePoll, ResumePollHandler
<1>2. SubmitTypeOK'
  BY DEF SubmitIInv, SubmitTypeOK, ResumeSubmit, ResumePoll, ResumePollHandler, PollHandlerEnd, PollerOver, End
<1>3. CASE ResumeSubmit
  BY <1>1, <1>2, <1>3 DEF SubmitIInv, SubmitTypeOK, DispatchGuarded, AwaitKnows, CancelsSeen, PollerCancels,
     OutcomeExplained, TimeoutIsCancelled, ResumeSubmit, End
<1>4. CASE ResumePoll
  BY <1>1, <1>2, <1>4 DEF SubmitIInv, SubmitTypeOK, DispatchGuarded, AwaitKnows, CancelsSeen, PollerCancels,
     OutcomeExplained, TimeoutIsCancelled, ResumePoll, PollerOver, End
<1>5. CASE ResumePollHandler
  BY <1>1, <1>2, <1>5 DEF SubmitIInv, SubmitTypeOK, DispatchGuarded, AwaitKnows, CancelsSeen, PollerCancels,
     OutcomeExplained, TimeoutIsCancelled, ResumePollHandler, PollHandlerEnd, PollerOver, End
<1> QED
  BY <1>3, <1>4, <1>5

(* The handler of async_submit_operation, at its end: either no call was made, or
   the native cancellation. *)
LEMMA HandlerEndCalls ==
  ASSUME SubmitTypeOK, HandlerEnd
  PROVE  /\ calls' \in Seq({"DEADLINE", "SUBMIT", "CANCEL"})
         /\ Made("SUBMIT")' <=> Made("SUBMIT")
         /\ Made("CANCEL")' <=> Made("CANCEL") \/ submitter = "ok"
<1>1. CASE submitter = "failed" /\ calls' = calls
  BY <1>1, MadeSame DEF SubmitTypeOK
<1>2. CASE submitter = "ok" /\ calls' = Append(calls, "CANCEL")
  BY <1>2, MadeAppend
<1> QED
  BY <1>1, <1>2 DEF HandlerEnd

(* The bound on the cancellations is kept. *)
LEMMA CountCancel ==
  ASSUME SubmitTypeOK, cancels < MaxCancels, cancels' = cancels + 1
  PROVE  cancels' \in 0 .. MaxCancels
  BY MaxCancelsAssumption DEF SubmitTypeOK

(* Cancelled before dispatch the worker is stopped; cancelled after it the
   handler ends with the native cancellation. *)
LEMMA CancelSubmitStep ==
  ASSUME SubmitIInv, CancelSubmit
  PROVE  SubmitIInv'
<1>1. CASE ~dispatched
  <2>1. \A d : Made(d)' <=> Made(d)
    BY <1>1, MadeSame DEF CancelSubmit
  <2>2. SubmitTypeOK'
    BY <1>1, CountCancel, ZenonT(30) DEF SubmitIInv, SubmitTypeOK, CancelSubmit, End
  <2> QED
    BY <1>1, <2>1, <2>2 DEF SubmitIInv, SubmitTypeOK, DispatchGuarded, AwaitKnows, CancelsSeen, PollerCancels,
       OutcomeExplained, TimeoutIsCancelled, CancelSubmit, End
<1>2. CASE dispatched /\ submitter \in {"ok", "failed"}
  <2>1. HandlerEnd
    BY <1>2 DEF CancelSubmit
  <2>2. SubmitTypeOK'
    BY <1>2, <2>1, HandlerEndCalls, CountCancel
       DEF SubmitIInv, SubmitTypeOK, CancelSubmit, HandlerEnd, End
  <2> QED
    BY <1>2, <2>1, <2>2, HandlerEndCalls
       DEF SubmitIInv, SubmitTypeOK, DispatchGuarded, AwaitKnows, CancelsSeen, PollerCancels,
       OutcomeExplained, TimeoutIsCancelled, CancelSubmit, HandlerEnd, End
<1>3. CASE dispatched /\ submitter \notin {"ok", "failed"}
  <2>1. \A d : Made(d)' <=> Made(d)
    BY <1>3, MadeSame DEF CancelSubmit
  <2>2. SubmitTypeOK'
    BY <1>3, CountCancel DEF SubmitIInv, SubmitTypeOK, CancelSubmit
  <2> QED
    BY <1>3, <2>1, <2>2 DEF SubmitIInv, SubmitTypeOK, DispatchGuarded, AwaitKnows, CancelsSeen, PollerCancels,
       OutcomeExplained, TimeoutIsCancelled, CancelSubmit
<1> QED
  BY <1>1, <1>2, <1>3

(* The handler resumes once the dispatch is over. *)
LEMMA ResumeHandlerStep ==
  ASSUME SubmitIInv, ResumeHandler
  PROVE  SubmitIInv'
<1>1. HandlerEnd
  BY DEF ResumeHandler
<1>2. SubmitTypeOK'
  BY <1>1, HandlerEndCalls DEF SubmitIInv, SubmitTypeOK, ResumeHandler, HandlerEnd, End
<1> QED
  BY <1>1, <1>2, HandlerEndCalls
     DEF SubmitIInv, SubmitTypeOK, DispatchGuarded, AwaitKnows, CancelsSeen, PollerCancels,
     OutcomeExplained, TimeoutIsCancelled, ResumeHandler, HandlerEnd, End

(* The other cancellations: of a poll, and of either handler. *)
LEMMA CancelStep ==
  ASSUME SubmitIInv, CancelHandler \/ CancelPoll \/ CancelPollHandler
  PROVE  SubmitIInv'
<1>1. \A d : Made(d)' <=> Made(d)
  BY MadeSame DEF CancelHandler, CancelPoll, CancelPollHandler
<1>2. SubmitTypeOK'
  <2>1. requested' \in BOOLEAN
    BY DEF SubmitIInv, SubmitTypeOK, CancelHandler, CancelPoll, CancelPollHandler
  <2>2. cancels' \in 0 .. MaxCancels
    BY CountCancel DEF SubmitIInv, CancelHandler, CancelPoll, CancelPollHandler
  <2>3. /\ task' \in {"poll_handler", "done"}
        /\ outcome' \in {outcome, "result", "timeout", "would_block", "error", "cancelled"}
    BY DEF CancelHandler, CancelPoll, CancelPollHandler, PollHandlerEnd, PollerOver, End
  <2> QED
    BY <2>1, <2>2, <2>3 DEF SubmitIInv, SubmitTypeOK, CancelHandler, CancelPoll, CancelPollHandler
<1>3. CASE CancelHandler
  BY <1>1, <1>2, <1>3 DEF SubmitIInv, SubmitTypeOK, DispatchGuarded, AwaitKnows, CancelsSeen, PollerCancels,
     OutcomeExplained, TimeoutIsCancelled, CancelHandler, End
<1>4. CASE CancelPoll
  BY <1>1, <1>2, <1>4 DEF SubmitIInv, SubmitTypeOK, DispatchGuarded, AwaitKnows, CancelsSeen, PollerCancels,
     OutcomeExplained, TimeoutIsCancelled, CancelPoll, PollHandlerEnd, PollerOver, End
<1>5. CASE CancelPollHandler
  BY <1>1, <1>2, <1>5 DEF SubmitIInv, SubmitTypeOK, DispatchGuarded, AwaitKnows, CancelsSeen, PollerCancels,
     OutcomeExplained, TimeoutIsCancelled, CancelPollHandler, End
<1> QED
  BY <1>3, <1>4, <1>5

(* The dispatch worker: it looks at dispatch_allowed before it starts. *)
LEMMA DispatchStep ==
  ASSUME SubmitIInv, DispatchEnter \/ DispatchNative
  PROVE  SubmitIInv'
<1>1. CASE DispatchEnter
  <2>1. \A d : Made(d)' <=> Made(d)
    BY <1>1, MadeSame DEF DispatchEnter
  <2>2. SubmitTypeOK'
    <3>1. dispatched' \in BOOLEAN /\ submitter' \in {"running", "suppressed"}
      BY <1>1 DEF SubmitIInv, SubmitTypeOK, DispatchEnter
    <3> QED
      BY <1>1, <3>1 DEF SubmitIInv, SubmitTypeOK, DispatchEnter
  <2> QED
    BY <1>1, <2>1, <2>2 DEF SubmitIInv, SubmitTypeOK, DispatchGuarded, AwaitKnows, CancelsSeen, PollerCancels,
       OutcomeExplained, TimeoutIsCancelled, DispatchEnter
<1>2. CASE DispatchNative
  <2>1. calls' \in Seq({"DEADLINE", "SUBMIT", "CANCEL"}) /\ (Made("CANCEL")' <=> Made("CANCEL"))
    BY <1>2, MadeAppend DEF SubmitIInv, DispatchNative
  <2>2. SubmitTypeOK'
    BY <1>2, <2>1 DEF SubmitIInv, SubmitTypeOK, DispatchNative
  <2> QED
    BY <1>2, <2>1, <2>2 DEF SubmitIInv, SubmitTypeOK, DispatchGuarded, AwaitKnows, CancelsSeen, PollerCancels,
       OutcomeExplained, TimeoutIsCancelled, DispatchNative
<1> QED
  BY <1>1, <1>2

(* The poll worker's steps that make no call. *)
LEMMA PollQuietStep ==
  ASSUME SubmitIInv, calls' = calls, PollCheck \/ PollNative \/ PollGot \/ PollBlocked \/ PollRaise
  PROVE  SubmitIInv'
<1>1. \A d : Made(d)' <=> Made(d)
  BY MadeSame
<1>2. UNCHANGED restUnchanged
  BY DEF PollCheck, PollNative, PollGot, PollBlocked, PollRaise
<1>3. SubmitTypeOK'
  BY <1>2 DEF SubmitIInv, SubmitTypeOK, restUnchanged, PollCheck, PollNative, PollGot, PollBlocked, PollRaise, Poller
<1>4. /\ poller # "none" /\ poller' # "none" /\ poller # "result" /\ poller' # "cancelled"
      /\ poller' = "finish" => requested
      /\ poller' = "timeout" => poller = "raise_timeout"
  BY DEF PollCheck, PollNative, PollGot, PollBlocked, PollRaise, Poller
<1>5. poller' # "raise_timeout" \/ (Made("CANCEL") /\ expired)
  <2>1. CASE PollBlocked
    BY <2>1 DEF SubmitIInv, PollerCancels, PollBlocked, Poller
  <2> QED
    BY <2>1 DEF PollCheck, PollNative, PollGot, PollRaise, Poller
<1> QED
  BY <1>1, <1>2, <1>3, <1>4, <1>5 DEF SubmitIInv, SubmitTypeOK, DispatchGuarded, AwaitKnows, CancelsSeen,
     PollerCancels, OutcomeExplained, TimeoutIsCancelled, restUnchanged

(* The poll worker's steps that cancel natively: on request and on expiry. *)
LEMMA PollCancelStep ==
  ASSUME SubmitIInv, calls' = Append(calls, "CANCEL"), PollBlocked \/ PollFinish
  PROVE  SubmitIInv'
<1>1. /\ calls' \in Seq({"DEADLINE", "SUBMIT", "CANCEL"})
      /\ Made("CANCEL")'
      /\ Made("SUBMIT")' <=> Made("SUBMIT")
  BY MadeAppend DEF SubmitIInv
<1>2. UNCHANGED restUnchanged
  BY DEF PollBlocked, PollFinish
<1>3. SubmitTypeOK'
  BY <1>1, <1>2 DEF SubmitIInv, SubmitTypeOK, restUnchanged, PollBlocked, PollFinish, Poller
<1> QED
  BY <1>1, <1>2, <1>3 DEF SubmitIInv, SubmitTypeOK, DispatchGuarded, AwaitKnows, CancelsSeen, PollerCancels,
     OutcomeExplained, TimeoutIsCancelled, restUnchanged, PollBlocked, PollFinish, Poller

(* An answer that arrives, and the deadline that passes. *)
LEMMA SurroundingsStep ==
  ASSUME SubmitIInv, Answer \/ Expire
  PROVE  SubmitIInv'
<1>1. \A d : Made(d)' <=> Made(d)
  BY MadeSame DEF Answer, Expire
<1>2. SubmitTypeOK'
  <2>1. answered' \in BOOLEAN /\ expired' \in BOOLEAN
    BY DEF SubmitIInv, SubmitTypeOK, Answer, Expire
  <2> QED
    BY <2>1 DEF SubmitIInv, SubmitTypeOK, Answer, Expire
<1> QED
  BY <1>1, <1>2 DEF SubmitIInv, SubmitTypeOK, DispatchGuarded, AwaitKnows, CancelsSeen, PollerCancels,
     OutcomeExplained, TimeoutIsCancelled, Answer, Expire

(* Every step of the task, its callers, its workers and time keeps SubmitIInv. *)
LEMMA IInvStep ==
  ASSUME SubmitIInv, [SubmitNext]_submitVars
  PROVE  SubmitIInv'
<1>1. CASE Task
  BY <1>1, BeginStep, ResumeStep, ResumeHandlerStep DEF Task
<1>2. CASE Canceller
  BY <1>2, CancelSubmitStep, CancelStep DEF Canceller
<1>3. CASE Workers
  BY <1>3, DispatchStep DEF Workers
<1>4. CASE Polling
  <2>1. calls' = calls \/ calls' = Append(calls, "CANCEL")
    BY <1>4 DEF Polling, PollCheck, PollNative, PollGot, PollBlocked, PollRaise, PollFinish
  <2>2. CASE PollBlocked \/ PollFinish
    <3>1. CASE calls' = Append(calls, "CANCEL")
      BY <2>2, <3>1, PollCancelStep
    <3>2. CASE calls' = calls /\ PollBlocked
      BY <3>2, PollQuietStep
    <3> QED
      BY <2>1, <2>2, <3>1, <3>2 DEF PollFinish
  <2>3. CASE PollCheck \/ PollNative \/ PollGot \/ PollRaise
    BY <2>3, PollQuietStep DEF PollCheck, PollNative, PollGot, PollRaise
  <2> QED
    BY <1>4, <2>2, <2>3 DEF Polling
<1>5. CASE Answer \/ Expire
  BY <1>5, SurroundingsStep
<1>6. CASE UNCHANGED submitVars
  <2>1. \A d : Made(d)' <=> Made(d)
    BY <1>6, MadeSame DEF submitVars
  <2> QED
    BY <1>6, <2>1 DEF submitVars, SubmitIInv, SubmitTypeOK, DispatchGuarded, AwaitKnows, CancelsSeen, PollerCancels,
       OutcomeExplained, TimeoutIsCancelled
<1> QED
  BY <1>1, <1>2, <1>3, <1>4, <1>5, <1>6 DEF SubmitNext

(* The inductive invariant holds of every behaviour of the call. *)
LEMMA SubmitInvariance == SubmitSpec => []SubmitIInv
  BY SubmitInitIInv, IInvStep, PTL DEF SubmitSpec

-----------------------------------------------------------------------------
(* async_submit_operation, cancelled before its worker dispatched, sends neither
   the submit nor a cancellation, then or later, however often it is cancelled. *)
THEOREM QuietBeforeDispatchHolds == SubmitSpec => []QuietBeforeDispatch
<1>1. SubmitIInv => QuietBeforeDispatch
  BY DEF SubmitIInv, DispatchGuarded, QuietBeforeDispatch
<1> QED
  BY <1>1, SubmitInvariance, PTL

(* A caller that was told of a cancellation (delivered once) or of a timeout
   left no operation behind that is not cancelled natively. *)
THEOREM GivenUpIsCancelledHolds == SubmitSpec => []GivenUpIsCancelled
<1>1. SubmitIInv => GivenUpIsCancelled
  <2> SUFFICES ASSUME SubmitIInv PROVE OneCancelIsCancelled
    BY DEF SubmitIInv, OutcomeExplained, GivenUpIsCancelled
  <2> QED
    BY DEF SubmitIInv, DispatchGuarded, OutcomeExplained, OneCancelIsCancelled, CancelledIsCancelled,
       Quiescent
<1> QED
  BY <1>1, SubmitInvariance, PTL

=============================================================================
