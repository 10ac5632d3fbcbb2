------------------------- MODULE NativeClientProofs -------------------------
(***************************************************************************)
(* Proofs about the client connection: close leaves no session or native   *)
(* connection behind, and the bounded sets of cancelled identities         *)
(* suppress what was cancelled, and nothing else, for any number of        *)
(* threads that remember and trim without a lock, and for any sessions,    *)
(* operations, cancellations and limit.                                    *)
(***************************************************************************)
EXTENDS NativeClient, EventQueuesProofs

Ascending(x) == \A i, j \in DOMAIN x : i < j => x[i] < x[j]

\* Sessions are opened one after the other, and kept in that order.
OpenedInOrder ==
  /\ \A r, s \in Sessions : r < s /\ native[s] # "none" => native[r] # "none"
  /\ \A s \in Elems(sessions) \cup Elems(closing) \cup known : native[s] # "none"
  /\ \A s \in Sessions : sessionClosed[s] => native[s] = "closed"
  /\ Ascending(sessions) /\ Ascending(closing)

\* Nothing is queued behind a close.
CloseIsLast ==
  /\ \A i \in DOMAIN queue : queue[i].kind = "close" => i = Len(queue) /\ closeLock # NoThread
  /\ job.kind = "close" => queue = <<>> /\ closeLock # NoThread /\ ~closed
  /\ closed => queue = <<>> /\ job = NoJob

\* A session that could not be closed ends the loop over the older ones.
LeftBehind(s) == \E f \in failed \ {0} : s <= f

AllReleased ==
  /\ native[0] = "closed" \/ 0 \in failed
  /\ \A s \in Sessions : native[s] = "open" => LeftBehind(s)

\* Which sessions are open while the role thread works, up to the end of a close.
CloseProgress ==
  /\ ~cleared => \A s \in Sessions : native[s] = "open" => s \in Elems(sessions)
  /\ job.kind = "close" /\ ~cleared =>
       \A s \in Sessions : native[s] = "open" => s \in Elems(closing) \/ LeftBehind(s)
  /\ cleared => AllReleased /\ (closed \/ job.kind = "close")
  /\ closed => cleared

RoleTypes ==
  /\ closed \in BOOLEAN /\ cleared \in BOOLEAN
  /\ closeLock \in Threads \cup {NoThread}
  /\ queue \in Seq(Job) /\ job \in Job \cup {NoJob}
  /\ closing \in Seq(Sessions) /\ sessions \in Seq(Sessions)
  /\ native \in [Sessions \cup {0} -> {"none", "open", "closed"}]
  /\ sessionClosed \in [Sessions -> BOOLEAN]
  /\ known \subseteq Sessions /\ failed \subseteq Sessions \cup {0}

(* The sessions and the bounds are numbers. *)
LEMMA Numbers ==
  /\ Limit \in Nat /\ Limit >= 1
  /\ Cardinality(Threads) \in Nat /\ Room \in Int /\ Room = Limit + 1 - Cardinality(Threads)
  /\ Cardinality(Sessions) \in Nat /\ Sessions = 1 .. Cardinality(Sessions)
  /\ Sessions \subseteq Nat /\ 0 \notin Sessions
<1>1. Limit \in Nat /\ Limit >= 1 /\ IsFiniteSet(Sessions) /\ Sessions = 1 .. Cardinality(Sessions)
  BY BoundsAssumption
<1>2. Cardinality(Sessions) \in Nat /\ Cardinality(Threads) \in Nat
  BY <1>1, ThreadAssumption, FS_CardinalityType
<1> QED
  BY <1>1, <1>2 DEF Room

-----------------------------------------------------------------------------
(* The role thread: sessions and close. *)
RolePart == RoleTypes /\ OpenedInOrder /\ CloseIsLast /\ CloseProgress

roleState == <<closed, closeLock, roleVars, sessionVars, cleared>>

(* RolePart holds at first: nothing is open or queued. *)
LEMMA RoleInit == Init => RolePart
<1> SUFFICES ASSUME Init PROVE RolePart
  OBVIOUS
<1>1. Elems(<<>>) = {} /\ <<>> \in Seq(Job) /\ <<>> \in Seq(Sessions)
  BY EmptyList
<1>2. RoleTypes
  BY <1>1, ThreadAssumption DEF Init, RoleTypes
<1>3. OpenedInOrder
  <2>1. \A s \in Sessions : native[s] = "none"
    BY Numbers DEF Init
  <2>2. Ascending(<<>>)
    BY DEF Ascending
  <2>3. \A s \in Sessions : ~sessionClosed[s]
    BY DEF Init
  <2> QED
    BY <1>1, <2>1, <2>2, <2>3 DEF Init, OpenedInOrder
<1>4. CloseIsLast
  BY DEF Init, CloseIsLast, NoJob
<1>5. CloseProgress
  BY Numbers DEF Init, CloseProgress, NoJob
<1> QED
  BY <1>2, <1>3, <1>4, <1>5 DEF RolePart

(* Steps that leave the role thread, its queue and the sessions alone. *)
LEMMA RoleUntouched == RolePart /\ UNCHANGED roleState => RolePart'
<1> SUFFICES ASSUME RolePart, UNCHANGED roleState PROVE RolePart'
  OBVIOUS
<1> USE DEF roleState, roleVars, sessionVars
<1>1. RoleTypes'
  BY DEF RolePart, RoleTypes
<1>2. OpenedInOrder'
  BY DEF RolePart, OpenedInOrder
<1>3. CloseIsLast'
  BY DEF RolePart, CloseIsLast
<1>4. CloseProgress'
  BY DEF RolePart, CloseProgress, AllReleased, LeftBehind
<1> QED
  BY <1>1, <1>2, <1>3, <1>4 DEF RolePart

(* open_session queues its job behind others of its kind: no close is queued
   while _close_lock is free. *)
LEMMA OpenSessionKeepsRole ==
  ASSUME NEW t \in Threads, RolePart, OpenSession(t)
  PROVE  RolePart'
<1> DEFINE j == [kind |-> "open", by |-> t]
<1>1. UNCHANGED <<closed, closeLock, job, closing, sessions, native, sessionClosed, known, failed, cleared>>
  BY DEF OpenSession, sessionVars, cancelVars
<1>2. queue' = Append(queue, j) /\ closeLock = NoThread /\ ~closed
  BY DEF OpenSession
<1>3. queue \in Seq(Job) /\ j \in Job
  BY DEF RolePart, RoleTypes, Job
<1>4. RoleTypes'
  BY <1>1, <1>2, <1>3, AppendProperties DEF RolePart, RoleTypes
<1>5. OpenedInOrder'
  BY <1>1 DEF RolePart, OpenedInOrder
<1>6. CloseIsLast'
  <2>1. Len(queue) \in Nat /\ DOMAIN queue = 1 .. Len(queue)
    BY <1>3, LenProperties
  <2>2. /\ DOMAIN queue' = 1 .. (Len(queue) + 1)
        /\ \A i \in 1 .. Len(queue) : queue'[i] = queue[i]
        /\ queue'[Len(queue) + 1] = j
    BY <1>2, <1>3, AppendProperties
  <2>3. \A i \in DOMAIN queue : queue[i].kind # "close"
    BY <1>2 DEF RolePart, CloseIsLast
  <2>4. ASSUME NEW i \in DOMAIN queue' PROVE queue'[i].kind # "close"
    <3>1. i \in 1 .. Len(queue) \/ i = Len(queue) + 1
      BY <2>1, <2>2
    <3> QED
      BY <2>1, <2>2, <2>3, <3>1
  <2>5. job'.kind # "close" /\ ~closed'
    BY <1>1, <1>2 DEF RolePart, CloseIsLast
  <2> QED
    BY <2>4, <2>5 DEF CloseIsLast
<1>7. CloseProgress'
  BY <1>1 DEF RolePart, CloseProgress, AllReleased, LeftBehind
<1> QED
  BY <1>4, <1>5, <1>6, <1>7 DEF RolePart

(* close queues its job last, and holds _close_lock from then on. *)
LEMMA CloseKeepsRole ==
  ASSUME NEW t \in Threads, RolePart, Close(t)
  PROVE  RolePart'
<1> DEFINE j == [kind |-> "close", by |-> t]
<1>1. UNCHANGED <<closed, job, closing, sessions, native, sessionClosed, known, failed, cleared>>
  BY DEF Close, sessionVars, cancelVars
<1>2. queue' = Append(queue, j) /\ closeLock = NoThread /\ closeLock' = t /\ ~closed
  BY DEF Close
<1>3. queue \in Seq(Job) /\ j \in Job
  BY DEF RolePart, RoleTypes, Job
<1>4. RoleTypes'
  BY <1>1, <1>2, <1>3, AppendProperties DEF RolePart, RoleTypes
<1>5. OpenedInOrder'
  BY <1>1 DEF RolePart, OpenedInOrder
<1>6. CloseIsLast'
  <2>1. Len(queue) \in Nat /\ DOMAIN queue = 1 .. Len(queue)
    BY <1>3, LenProperties
  <2>2. /\ DOMAIN queue' = 1 .. (Len(queue) + 1) /\ Len(queue') = Len(queue) + 1
        /\ \A i \in 1 .. Len(queue) : queue'[i] = queue[i]
    BY <1>2, <1>3, AppendProperties
  <2>3. \A i \in DOMAIN queue : queue[i].kind # "close"
    BY <1>2 DEF RolePart, CloseIsLast
  <2>4. ASSUME NEW i \in DOMAIN queue', queue'[i].kind = "close" PROVE i = Len(queue')
    <3>1. i \in 1 .. Len(queue) \/ i = Len(queue) + 1
      BY <2>1, <2>2
    <3> QED
      BY <2>1, <2>2, <2>3, <2>4, <3>1
  <2>5. job'.kind # "close" /\ ~closed' /\ closeLock' # NoThread
    BY <1>1, <1>2, ThreadAssumption DEF RolePart, CloseIsLast
  <2> QED
    BY <2>4, <2>5 DEF CloseIsLast
<1>7. CloseProgress'
  BY <1>1 DEF RolePart, CloseProgress, AllReleased, LeftBehind
<1> QED
  BY <1>4, <1>5, <1>6, <1>7 DEF RolePart

(* A withdrawn job leaves the others in their order: what was last stays last. *)
LEMMA LastStaysLast ==
  ASSUME NEW s \in Seq(Job), NEW I \in SUBSET (DOMAIN s),
         \A i \in DOMAIN s : s[i].kind = "close" => i = Len(s)
  PROVE  \A k \in DOMAIN At(s, I) : At(s, I)[k].kind = "close" => k = Len(At(s, I))
<1> DEFINE a == At(s, I)
           n == Cardinality(I)
<1>1. I \in SUBSET Nat /\ IsFiniteSet(I) /\ n \in Nat
  BY IndexSet
<1>2. a \in Seq(Job) /\ Len(a) = n
  BY AtProperties
<1>3. DOMAIN a = 1 .. n /\ \A k \in 1 .. n : a[k] = s[Pos(I, k)]
  BY DEF At, Pos
<1>4. DOMAIN s = 1 .. Len(s) /\ Len(s) \in Nat
  BY LenProperties
<1>5. \A k \in 1 .. n : Pos(I, k) \in I
  BY <1>1, PosProperties
<1>6. \A j, k \in 1 .. n : j < k => Pos(I, j) < Pos(I, k)
  BY <1>1, PosProperties
<1> HIDE DEF a, n
<1>7. ASSUME NEW k \in DOMAIN a, a[k].kind = "close", k # n PROVE FALSE
  <2>1. k \in 1 .. n /\ n \in 1 .. n /\ k < n
    BY <1>1, <1>3, <1>7
  <2>2. Pos(I, k) = Len(s)
    BY <1>3, <1>5, <1>7, <2>1
  <2>3. Pos(I, k) < Pos(I, n) /\ Pos(I, n) \in 1 .. Len(s)
    BY <1>4, <1>5, <1>6, <2>1
  <2> QED
    BY <1>4, <2>2, <2>3
<1> QED
  BY <1>2, <1>7 DEF a

(* A cancelled open_session withdraws its job, or leaves it to run unwatched. *)
LEMMA CancelOpenKeepsRole ==
  ASSUME NEW t \in Threads, RolePart, CancelOpen(t)
  PROVE  RolePart'
<1> DEFINE I == {i \in DOMAIN queue : queue[i].by # t}
<1>1. UNCHANGED <<closed, closeLock, closing, sessions, native, sessionClosed, known, failed, cleared>>
  BY DEF CancelOpen, sessionVars, cancelVars
<1>2. queue' = At(queue, I)
  BY DEF CancelOpen
<1>3. queue \in Seq(Job) /\ job \in Job \cup {NoJob} /\ I \in SUBSET (DOMAIN queue)
  BY DEF RolePart, RoleTypes
<1>4. queue' \in Seq(Job) /\ Len(queue') = Cardinality(I)
  BY <1>2, <1>3, AtProperties
<1>5. job' \in Job \cup {NoJob} /\ job'.kind = job.kind /\ (job = NoJob => job' = NoJob)
  <2>1. CASE job.by = t
    <3>1. job' = [job EXCEPT !.by = NoThread] /\ job # NoJob
      BY <2>1, ThreadAssumption DEF CancelOpen, NoJob
    <3> QED
      BY <1>3, <3>1 DEF Job
  <2>2. CASE job.by # t
    BY <1>3, <2>2 DEF CancelOpen
  <2> QED
    BY <2>1, <2>2
<1>6. RoleTypes'
  BY <1>1, <1>4, <1>5 DEF RolePart, RoleTypes
<1>7. OpenedInOrder'
  BY <1>1 DEF RolePart, OpenedInOrder
<1>8. CloseIsLast'
  <2>1. \A i \in DOMAIN queue : queue[i].kind = "close" => i = Len(queue)
    BY DEF RolePart, CloseIsLast
  <2> HIDE DEF I
  <2>2. \A k \in DOMAIN queue' : queue'[k].kind = "close" => k = Len(queue')
    BY <1>2, <1>3, <2>1, LastStaysLast
  <2>3. Elems(queue') = {queue[i] : i \in I}
    BY <1>2, <1>3, AtProperties
  <2>4. ASSUME NEW k \in DOMAIN queue', queue'[k].kind = "close" PROVE closeLock' # NoThread
    <3>1. PICK i \in I : queue'[k] = queue[i]
      BY <2>3 DEF Elems
    <3> QED
      BY <1>1, <1>3, <2>4, <3>1 DEF RolePart, CloseIsLast
  <2>5. queue = <<>> => queue' = <<>>
    <3>1. queue = <<>> => I = {}
      BY <1>3
    <3>2. Cardinality({}) = 0
      BY FS_EmptySet
    <3> QED
      BY <1>4, <3>1, <3>2, EmptySeq
  <2> QED
    BY <1>1, <1>5, <2>2, <2>4, <2>5 DEF RolePart, CloseIsLast
<1>9. CloseProgress'
  BY <1>1, <1>5 DEF RolePart, CloseProgress, AllReleased, LeftBehind
<1> QED
  BY <1>6, <1>7, <1>8, <1>9 DEF RolePart

(* The role thread takes a close when nothing is behind it. *)
LEMMA RoleTakeKeepsRole ==
  ASSUME RolePart, RoleTake
  PROVE  RolePart'
<1>1. UNCHANGED <<closed, closeLock, sessions, native, sessionClosed, known, failed, cleared>>
  BY DEF RoleTake, sessionVars, cancelVars
<1>2. /\ job = NoJob /\ queue # <<>> /\ job' = Head(queue) /\ queue' = Tail(queue)
      /\ closing' = IF Head(queue).kind = "close" THEN sessions ELSE <<>>
  BY DEF RoleTake
<1>3. queue \in Seq(Job) /\ Len(queue) \in Nat /\ DOMAIN queue = 1 .. Len(queue)
  BY LenProperties DEF RolePart, RoleTypes
<1>4. /\ Head(queue) = queue[1] /\ Head(queue) \in Job /\ Tail(queue) \in Seq(Job)
      /\ Len(Tail(queue)) = Len(queue) - 1
      /\ \A i \in 1 .. Len(Tail(queue)) : Tail(queue)[i] = queue[i + 1]
  BY <1>2, <1>3, HeadTailProperties
<1>5. Len(queue) >= 1
  BY <1>2, <1>3, EmptySeq
<1>6. <<>> \in Seq(Sessions) /\ Elems(<<>>) = {} /\ Ascending(<<>>)
  BY EmptyList DEF Ascending
<1>7. RoleTypes'
  BY <1>1, <1>2, <1>4, <1>6 DEF RolePart, RoleTypes
<1>8. OpenedInOrder'
  BY <1>1, <1>2, <1>6 DEF RolePart, OpenedInOrder
<1>9. ~closed /\ ~cleared
  BY <1>2 DEF RolePart, CloseIsLast, CloseProgress, NoJob
<1>10. CloseIsLast'
  <2>1. ASSUME NEW i \in DOMAIN queue', queue'[i].kind = "close" PROVE i = Len(queue') /\ closeLock' # NoThread
    <3>1. i \in 1 .. (Len(queue) - 1) /\ queue'[i] = queue[i + 1]
      BY <1>2, <1>4, LenProperties
    <3>2. i + 1 \in DOMAIN queue
      BY <1>3, <3>1
    <3>3. i + 1 = Len(queue) /\ closeLock # NoThread
      BY <2>1, <3>1, <3>2 DEF RolePart, CloseIsLast
    <3> QED
      BY <1>1, <1>2, <1>3, <1>4, <3>1, <3>3
  <2>2. ASSUME job'.kind = "close" PROVE queue' = <<>> /\ closeLock' # NoThread /\ ~closed'
    <3>1. 1 \in DOMAIN queue
      BY <1>3, <1>5
    <3>2. 1 = Len(queue) /\ closeLock # NoThread
      BY <1>2, <1>4, <2>2, <3>1 DEF RolePart, CloseIsLast
    <3>3. Len(queue') = 0
      BY <1>2, <1>4, <3>2
    <3> QED
      BY <1>1, <1>2, <1>4, <1>9, <3>2, <3>3, EmptySeq
  <2> QED
    BY <1>1, <1>9, <2>1, <2>2 DEF CloseIsLast
<1>11. CloseProgress'
  <2>1. \A s \in Sessions : native'[s] = "open" => s \in Elems(sessions')
    BY <1>1, <1>9 DEF RolePart, CloseProgress
  <2>2. job'.kind = "close" => closing' = sessions'
    BY <1>1, <1>2
  <2> QED
    BY <1>1, <1>9, <2>1, <2>2 DEF CloseProgress
<1> QED
  BY <1>7, <1>8, <1>10, <1>11 DEF RolePart

(* A session the role thread opens is the newest, and is kept for close whether
   or not somebody still waits for it. *)
LEMMA RoleOpenKeepsRole ==
  ASSUME RolePart, RoleOpen
  PROVE  RolePart'
<1>1. UNCHANGED <<closed, closeLock, queue, closing, sessionClosed, failed, cleared>> /\ job' = NoJob
  BY DEF RoleOpen, cancelVars
<1>2. job.kind = "open" /\ ~closed /\ ~cleared
  BY DEF RoleOpen, RolePart, CloseIsLast, CloseProgress, NoJob
<1>3. CloseIsLast'
  BY <1>1, <1>2 DEF RolePart, CloseIsLast, NoJob
<1>4. CASE UNCHANGED <<native, sessions, known>>
  <2>1. RoleTypes'
    BY <1>1, <1>4 DEF RolePart, RoleTypes
  <2>2. OpenedInOrder'
    BY <1>1, <1>4 DEF RolePart, OpenedInOrder
  <2>3. CloseProgress'
    BY <1>1, <1>2, <1>4 DEF RolePart, CloseProgress, NoJob
  <2> QED
    BY <1>3, <2>1, <2>2, <2>3 DEF RolePart
<1>5. ASSUME NEW s \in Sessions, native[s] = "none", s > 1 => native[s - 1] # "none",
             native' = [native EXCEPT ![s] = "open"], sessions' = Opened(s),
             known' = IF job.by = NoThread THEN known ELSE known \cup {s}
      PROVE  RolePart'
  <2>1. sessions \in Seq(Sessions) /\ native \in [Sessions \cup {0} -> {"none", "open", "closed"}]
    BY DEF RolePart, RoleTypes
  <2>2. /\ sessions' \in Seq(Sessions) /\ DOMAIN sessions' = 1 .. (Len(sessions) + 1)
        /\ (\A i \in 1 .. Len(sessions) : sessions'[i] = sessions[i])
        /\ sessions'[Len(sessions) + 1] = s
    BY <1>5, <2>1, AppendProperties DEF Opened
  <2>3. Elems(sessions') = Elems(sessions) \cup {s}
    BY <1>5, <2>1, AppendContents DEF Opened
  <2>4. Len(sessions) \in Nat /\ DOMAIN sessions = 1 .. Len(sessions)
    BY <2>1, LenProperties
  <2>5. known' \subseteq known \cup {s} /\ known' \subseteq Sessions
    BY <1>5 DEF RolePart, RoleTypes
  <2>6. RoleTypes'
    BY <1>1, <1>5, <2>1, <2>2, <2>5 DEF RolePart, RoleTypes
  <2>7. native'[s] = "open" /\ \A r \in Sessions : r # s => native'[r] = native[r]
    BY <1>5, <2>1
  <2>8. ASSUME NEW r \in Sessions, r < s PROVE native[r] # "none"
    <3>1. s \in Nat /\ r \in Nat /\ s > 1 /\ s - 1 \in Sessions
      BY <2>8, Numbers
    <3>2. r = s - 1 \/ r < s - 1
      BY <2>8, <3>1
    <3>3. native[s - 1] # "none"
      BY <1>5, <3>1
    <3> QED
      BY <3>1, <3>2, <3>3 DEF RolePart, OpenedInOrder
  <2>9. ASSUME NEW r \in Sessions, native[r] # "none" PROVE r < s
    <3>1. r \in Nat /\ s \in Nat /\ r # s
      BY <1>5, <2>9, Numbers
    <3>2. ~(s < r)
      BY <1>5, <2>9 DEF RolePart, OpenedInOrder
    <3> QED
      BY <3>1, <3>2
  <2>10. OpenedInOrder'
    <3>1. ASSUME NEW q \in Sessions, NEW r \in Sessions, q < r, native'[r] # "none" PROVE native'[q] # "none"
      <4>1. CASE r = s
        BY <2>7, <2>8, <3>1, <4>1, Numbers
      <4>2. CASE r # s
        <5>1. native[q] # "none"
          BY <2>7, <3>1, <4>2 DEF RolePart, OpenedInOrder
        <5> QED
          BY <1>5, <2>7, <5>1
      <4> QED
        BY <4>1, <4>2
    <3>2. ASSUME NEW r \in Elems(sessions') \cup Elems(closing') \cup known' PROVE native'[r] # "none"
      <4>1. r = s \/ r \in Elems(sessions) \cup Elems(closing) \cup known
        BY <1>1, <2>3, <2>5
      <4>2. Elems(sessions) \cup Elems(closing) \cup known \subseteq Sessions
        BY DEF RolePart, RoleTypes, Elems
      <4> QED
        BY <2>7, <4>1, <4>2 DEF RolePart, OpenedInOrder
    <3>3. ASSUME NEW r \in Sessions, sessionClosed'[r] PROVE native'[r] = "closed"
      <4>1. native[r] = "closed"
        BY <1>1, <3>3 DEF RolePart, OpenedInOrder
      <4> QED
        BY <1>5, <2>7, <4>1
    <3>4. ASSUME NEW i \in DOMAIN sessions', NEW j \in DOMAIN sessions', i < j PROVE sessions'[i] < sessions'[j]
      <4>1. i \in 1 .. Len(sessions) /\ (j \in 1 .. Len(sessions) \/ j = Len(sessions) + 1)
        BY <2>2, <2>4, <3>4
      <4>2. sessions'[i] = sessions[i] /\ sessions[i] \in Elems(sessions) /\ sessions[i] \in Sessions
        BY <2>1, <2>2, <2>4, <4>1 DEF Elems
      <4>3. CASE j \in 1 .. Len(sessions)
        BY <2>2, <2>4, <3>4, <4>1, <4>2, <4>3 DEF RolePart, OpenedInOrder, Ascending
      <4>4. CASE j = Len(sessions) + 1
        <5>1. sessions[i] < s
          BY <2>9, <4>2 DEF RolePart, OpenedInOrder
        <5> QED
          BY <2>2, <4>2, <4>4, <5>1
      <4> QED
        BY <4>1, <4>3, <4>4
    <3>5. Ascending(sessions') /\ Ascending(closing')
      BY <1>1, <3>4 DEF RolePart, OpenedInOrder, Ascending
    <3> QED
      BY <3>1, <3>2, <3>3, <3>5 DEF OpenedInOrder
  <2>11. CloseProgress'
    <3>1. ASSUME NEW r \in Sessions, native'[r] = "open" PROVE r \in Elems(sessions')
      <4>1. r = s \/ native[r] = "open"
        BY <2>7, <3>1
      <4> QED
        BY <1>2, <2>3, <4>1 DEF RolePart, CloseProgress
    <3> QED
      BY <1>1, <1>2, <3>1 DEF CloseProgress, NoJob
  <2> QED
    BY <1>3, <2>6, <2>10, <2>11 DEF RolePart
<1> QED
  BY <1>4, <1>5 DEF RoleOpen

(* A session that closes was open, and closes for good. *)
LEMMA ClosedSession ==
  ASSUME RolePart, NEW s \in Sessions, native[s] # "none",
         native' = [native EXCEPT ![s] = "closed"],
         sessionClosed' = [sessionClosed EXCEPT ![s] = TRUE]
  PROVE  /\ native' \in [Sessions \cup {0} -> {"none", "open", "closed"}]
         /\ sessionClosed' \in [Sessions -> BOOLEAN]
         /\ \A r \in Sessions : native'[r] # "none" <=> native[r] # "none"
         /\ \A r \in Sessions : native'[r] = "open" => native[r] = "open" /\ r # s
         /\ \A r \in Sessions : sessionClosed'[r] => native'[r] = "closed"
         /\ native'[0] = native[0]
<1>1. native \in [Sessions \cup {0} -> {"none", "open", "closed"}] /\ sessionClosed \in [Sessions -> BOOLEAN]
  BY DEF RolePart, RoleTypes
<1>2. native'[s] = "closed" /\ (\A r \in Sessions : r # s => native'[r] = native[r]) /\ native'[0] = native[0]
  BY <1>1, Numbers
<1>3. \A r \in Sessions : r # s => sessionClosed'[r] = sessionClosed[r]
  BY <1>1
<1>4. \A r \in Sessions : sessionClosed[r] => native[r] = "closed"
  BY DEF RolePart, OpenedInOrder
<1>5. native' \in [Sessions \cup {0} -> {"none", "open", "closed"}] /\ sessionClosed' \in [Sessions -> BOOLEAN]
  BY <1>1
<1>6. \A r \in Sessions : native'[r] # "none" <=> native[r] # "none"
  BY <1>2
<1>7. \A r \in Sessions : native'[r] = "open" => native[r] = "open" /\ r # s
  BY <1>2
<1>8. \A r \in Sessions : sessionClosed'[r] => native'[r] = "closed"
  BY <1>2, <1>3, <1>4
<1> QED
  BY <1>2, <1>5, <1>6, <1>7, <1>8

(* The application closes a session it was given. *)
LEMMA CloseSessionKeepsRole ==
  ASSUME RolePart, NEW s \in Sessions, CloseSession(s)
  PROVE  RolePart'
<1>1. UNCHANGED <<closed, closeLock, queue, job, closing, sessions, known, failed, cleared>>
  BY DEF CloseSession, roleVars, cancelVars
<1>2. /\ native' = [native EXCEPT ![s] = "closed"]
      /\ sessionClosed' = [sessionClosed EXCEPT ![s] = TRUE]
      /\ native[s] # "none"
  BY DEF CloseSession, Usable, RolePart, OpenedInOrder
<1>3. /\ native' \in [Sessions \cup {0} -> {"none", "open", "closed"}]
      /\ sessionClosed' \in [Sessions -> BOOLEAN]
      /\ \A r \in Sessions : native'[r] # "none" <=> native[r] # "none"
      /\ \A r \in Sessions : native'[r] = "open" => native[r] = "open" /\ r # s
      /\ \A r \in Sessions : sessionClosed'[r] => native'[r] = "closed"
      /\ native'[0] = native[0]
  BY <1>2, ClosedSession
<1>4. RoleTypes'
  BY <1>1, <1>3 DEF RolePart, RoleTypes
<1>5. OpenedInOrder'
  <2>1. Elems(sessions) \cup Elems(closing) \cup known \subseteq Sessions
    BY DEF RolePart, RoleTypes, Elems
  <2>2. \A r \in Elems(sessions') \cup Elems(closing') \cup known' : native'[r] # "none"
    BY <1>1, <1>3, <2>1 DEF RolePart, OpenedInOrder
  <2> QED
    BY <1>1, <1>3, <2>2 DEF RolePart, OpenedInOrder
<1>6. CloseIsLast'
  BY <1>1 DEF RolePart, CloseIsLast
<1>7. CloseProgress'
  BY <1>1, <1>3 DEF RolePart, CloseProgress, AllReleased, LeftBehind
<1> QED
  BY <1>4, <1>5, <1>6, <1>7 DEF RolePart

(* The list of sessions still to close, without its last one. *)
LEMMA WithoutLast ==
  ASSUME NEW c \in Seq(Sessions), c # <<>>, Ascending(c)
  PROVE  LET s == c[Len(c)]
             rest == SubSeq(c, 1, Len(c) - 1)
         IN /\ s \in Sessions /\ s \in Elems(c)
            /\ rest \in Seq(Sessions) /\ Ascending(rest)
            /\ \A r : r \in Elems(c) <=> r \in Elems(rest) \/ r = s
            /\ \A r \in Elems(c) : r <= s
<1> DEFINE n == Len(c)
           s == c[n]
           rest == SubSeq(c, 1, n - 1)
<1>1. n \in Nat /\ DOMAIN c = 1 .. n /\ n >= 1
  BY LenProperties, EmptySeq
<1>2. n \in DOMAIN c /\ \A i \in DOMAIN c : c[i] \in Sessions
  BY <1>1
<1>3. rest \in Seq(Sessions) /\ DOMAIN rest = 1 .. (n - 1) /\ \A i \in 1 .. (n - 1) : rest[i] = c[i]
  <2>1. \A i \in 1 .. (n - 1) : c[i] \in Sessions
    BY <1>1, <1>2
  <2>2. rest \in Seq(Sessions) /\ Len(rest) = (n - 1)
    BY <1>1, <2>1, SubSeqProperties
  <2>3. \A i \in 1 .. (n - 1) : rest[i] = c[i]
    BY <1>1, <2>1, SubSeqProperties
  <2> QED
    BY <2>2, <2>3, LenProperties
<1>4. s \in Sessions /\ s \in Elems(c)
  BY <1>2 DEF Elems
<1> HIDE DEF rest
<1>5. Ascending(rest)
  BY <1>1, <1>3 DEF Ascending
<1>6. \A i \in DOMAIN c : i \in 1 .. (n - 1) \/ i = n
  BY <1>1
<1>7. \A i \in 1 .. (n - 1) : i \in DOMAIN c
  BY <1>1
<1>8. \A r : r \in Elems(c) <=> r \in Elems(rest) \/ r = s
  BY <1>2, <1>3, <1>6, <1>7 DEF Elems
<1>9. ASSUME NEW r \in Elems(c) PROVE r <= s
  <2>1. PICK i \in DOMAIN c : r = c[i]
    BY DEF Elems
  <2>2. r \in Nat /\ s \in Nat
    BY <1>2, <2>1, Numbers
  <2>3. i = n \/ i < n
    BY <1>1
  <2>4. i < n => c[i] < c[n]
    BY <1>2 DEF Ascending
  <2> QED
    BY <2>1, <2>2, <2>3, <2>4
<1> QED
  BY <1>3, <1>4, <1>5, <1>8, <1>9 DEF rest

(* Closing one session of the list: it is closed already, it closes, or its close
   fails and the older ones are left behind with it. *)
LEMMA RoleCloseSessionKeepsRole ==
  ASSUME RolePart, RoleCloseSession
  PROVE  RolePart'
<1> DEFINE s == closing[Len(closing)]
           rest == SubSeq(closing, 1, Len(closing) - 1)
<1>1. UNCHANGED <<closed, closeLock, queue, job, sessions, known, cleared>>
  BY DEF RoleCloseSession, cancelVars
<1>2. job.kind = "close" /\ closing # <<>> /\ closing \in Seq(Sessions) /\ Ascending(closing)
  BY DEF RoleCloseSession, RolePart, RoleTypes, OpenedInOrder
<1>3. /\ s \in Sessions /\ s \in Elems(closing)
      /\ rest \in Seq(Sessions) /\ Ascending(rest)
      /\ \A r : r \in Elems(closing) <=> r \in Elems(rest) \/ r = s
      /\ \A r \in Elems(closing) : r <= s
  BY <1>2, WithoutLast
<1>4. native[s] # "none"
  BY <1>3 DEF RolePart, OpenedInOrder
<1>5. CloseIsLast'
  BY <1>1 DEF RolePart, CloseIsLast
<1>6. Elems(sessions) \cup Elems(closing) \cup known \subseteq Sessions
  BY DEF RolePart, RoleTypes, Elems
<1>7. ~cleared => \A r \in Sessions : native[r] = "open" => r \in Elems(closing) \/ LeftBehind(r)
  BY <1>2 DEF RolePart, CloseProgress
<1>8. (cleared => AllReleased) /\ ~closed
  BY <1>2 DEF RolePart, CloseProgress, CloseIsLast
<1>9. ~cleared => \A r \in Sessions : native[r] = "open" => r \in Elems(sessions)
  BY DEF RolePart, CloseProgress
<1> HIDE DEF s, rest
<1>10. CASE sessionClosed[s] /\ closing' = rest /\ UNCHANGED <<native, sessionClosed, failed>>
  <2>1. RoleTypes'
    BY <1>1, <1>3, <1>10 DEF RolePart, RoleTypes
  <2>2. OpenedInOrder'
    BY <1>1, <1>3, <1>10 DEF RolePart, OpenedInOrder
  <2>3. native[s] = "closed"
    BY <1>3, <1>10 DEF RolePart, OpenedInOrder
  <2>4. ~cleared' => \A r \in Sessions : native'[r] = "open" => r \in Elems(closing') \/ LeftBehind(r)'
    BY <1>1, <1>3, <1>7, <1>10, <2>3 DEF LeftBehind
  <2>5. CloseProgress'
    BY <1>1, <1>2, <1>8, <1>9, <1>10, <2>4 DEF CloseProgress, AllReleased, LeftBehind
  <2> QED
    BY <1>5, <2>1, <2>2, <2>5 DEF RolePart
<1>11. CASE /\ native' = [native EXCEPT ![s] = "closed"]
            /\ sessionClosed' = [sessionClosed EXCEPT ![s] = TRUE]
            /\ closing' = rest /\ UNCHANGED failed
  <2>1. /\ native' \in [Sessions \cup {0} -> {"none", "open", "closed"}]
        /\ sessionClosed' \in [Sessions -> BOOLEAN]
        /\ \A r \in Sessions : native'[r] # "none" <=> native[r] # "none"
        /\ \A r \in Sessions : native'[r] = "open" => native[r] = "open" /\ r # s
        /\ \A r \in Sessions : sessionClosed'[r] => native'[r] = "closed"
        /\ native'[0] = native[0]
    BY <1>3, <1>4, <1>11, ClosedSession
  <2>2. RoleTypes'
    BY <1>1, <1>3, <1>11, <2>1 DEF RolePart, RoleTypes
  <2>3. \A r \in Elems(sessions') \cup Elems(closing') \cup known' : native'[r] # "none"
    BY <1>1, <1>3, <1>6, <1>11, <2>1 DEF RolePart, OpenedInOrder
  <2>4. OpenedInOrder'
    BY <1>1, <1>3, <1>11, <2>1, <2>3 DEF RolePart, OpenedInOrder
  <2>5. ~cleared' => \A r \in Sessions : native'[r] = "open" => r \in Elems(closing') \/ LeftBehind(r)'
    BY <1>1, <1>3, <1>7, <1>11, <2>1 DEF LeftBehind
  <2>6. CloseProgress'
    BY <1>1, <1>2, <1>8, <1>9, <1>11, <2>1, <2>5 DEF CloseProgress, AllReleased, LeftBehind
  <2> QED
    BY <1>5, <2>2, <2>4, <2>6 DEF RolePart
<1>12. CASE failed' = failed \cup {s} /\ closing' = <<>> /\ UNCHANGED <<native, sessionClosed>>
  <2>1. <<>> \in Seq(Sessions) /\ Elems(<<>>) = {} /\ Ascending(<<>>)
    BY EmptyList DEF Ascending
  <2>2. RoleTypes'
    BY <1>1, <1>3, <1>12, <2>1 DEF RolePart, RoleTypes
  <2>3. OpenedInOrder'
    BY <1>1, <1>12, <2>1 DEF RolePart, OpenedInOrder
  <2>4. s \in failed' \ {0} /\ failed \ {0} \subseteq failed' \ {0}
    BY <1>3, <1>12, Numbers
  <2>5. \A r \in Sessions : LeftBehind(r) => LeftBehind(r)'
    BY <2>4 DEF LeftBehind
  <2>6. \A r \in Elems(closing) : LeftBehind(r)'
    BY <1>3, <2>4 DEF LeftBehind
  <2>7. ~cleared' => \A r \in Sessions : native'[r] = "open" => LeftBehind(r)'
    BY <1>1, <1>7, <1>12, <2>5, <2>6
  <2>8. cleared' => AllReleased'
    BY <1>1, <1>8, <1>12, <2>5 DEF AllReleased
  <2>9. CloseProgress'
    BY <1>1, <1>2, <1>8, <1>9, <1>12, <2>7, <2>8 DEF CloseProgress
  <2> QED
    BY <1>5, <2>2, <2>3, <2>9 DEF RolePart
<1> QED
  BY <1>10, <1>11, <1>12 DEF RoleCloseSession, s, rest

(* The native connection closes, or its close fails. *)
LEMMA RoleCloseConnectionKeepsRole ==
  ASSUME RolePart, RoleCloseConnection
  PROVE  RolePart'
<1>1. UNCHANGED <<closed, closeLock, queue, job, closing, sessions, known, sessionClosed, cleared>>
  BY DEF RoleCloseConnection, roleVars, cancelVars
<1>2. native \in [Sessions \cup {0} -> {"none", "open", "closed"}] /\ failed \subseteq Sessions \cup {0}
  BY DEF RolePart, RoleTypes
<1>3. /\ native' \in [Sessions \cup {0} -> {"none", "open", "closed"}] /\ failed' \subseteq Sessions \cup {0}
      /\ \A r \in Sessions : native'[r] = native[r]
      /\ failed' \ {0} = failed \ {0}
      /\ native'[0] = "closed" \/ 0 \in failed'
  BY <1>2, Numbers DEF RoleCloseConnection
<1>4. RoleTypes'
  BY <1>1, <1>3 DEF RolePart, RoleTypes
<1>5. OpenedInOrder'
  <2>1. Elems(sessions) \cup Elems(closing) \cup known \subseteq Sessions
    BY DEF RolePart, RoleTypes, Elems
  <2>2. \A r \in Elems(sessions') \cup Elems(closing') \cup known' : native'[r] # "none"
    BY <1>1, <1>3, <2>1 DEF RolePart, OpenedInOrder
  <2> QED
    BY <1>1, <1>3, <2>2 DEF RolePart, OpenedInOrder
<1>6. CloseIsLast'
  BY <1>1 DEF RolePart, CloseIsLast
<1>7. CloseProgress'
  BY <1>1, <1>3 DEF RolePart, CloseProgress, AllReleased, LeftBehind
<1> QED
  BY <1>4, <1>5, <1>6, <1>7 DEF RolePart

(* Everything is released when the role thread forgets the sessions. *)
LEMMA RoleClearKeepsRole ==
  ASSUME RolePart, RoleClear
  PROVE  RolePart'
<1>1. UNCHANGED <<closed, closeLock, queue, job, closing, native, sessionClosed, known, failed>>
  BY DEF RoleClear, sessionVars
<1>2. /\ job.kind = "close" /\ closing = <<>> /\ ~cleared /\ cleared' = TRUE /\ sessions' = <<>>
      /\ native[0] = "closed" \/ 0 \in failed
  BY DEF RoleClear
<1>3. <<>> \in Seq(Sessions) /\ Elems(<<>>) = {} /\ Ascending(<<>>)
  BY EmptyList DEF Ascending
<1>4. RoleTypes'
  BY <1>1, <1>2, <1>3 DEF RolePart, RoleTypes
<1>5. OpenedInOrder'
  BY <1>1, <1>2, <1>3 DEF RolePart, OpenedInOrder
<1>6. CloseIsLast'
  BY <1>1 DEF RolePart, CloseIsLast
<1>7. AllReleased
  <2>1. \A s \in Sessions : native[s] = "open" => s \in Elems(closing) \/ LeftBehind(s)
    BY <1>2 DEF RolePart, CloseProgress
  <2> QED
    BY <1>2, <1>3, <2>1 DEF AllReleased
<1>8. CloseProgress'
  BY <1>1, <1>2, <1>7 DEF CloseProgress, AllReleased, LeftBehind
<1> QED
  BY <1>4, <1>5, <1>6, <1>8 DEF RolePart

(* _closed is set with nothing queued, and the lock released after it. *)
LEMMA ClosedKeepsRole ==
  ASSUME RolePart, RoleClosed \/ \E t \in Threads : CloseReturn(t)
  PROVE  RolePart'
<1>1. UNCHANGED <<queue, closing, sessions, native, sessionClosed, known, failed, cleared>> /\ closed'
  BY DEF RoleClosed, CloseReturn, sessionVars, cancelVars, roleVars
<1>2. cleared /\ queue = <<>> /\ job' = NoJob
  BY DEF RoleClosed, CloseReturn, roleVars, RolePart, CloseIsLast, CloseProgress
<1>3. closeLock' \in Threads \cup {NoThread} /\ closed' \in BOOLEAN
  <2>1. CASE RoleClosed
    BY <2>1 DEF RoleClosed, RolePart, RoleTypes
  <2>2. CASE \E t \in Threads : CloseReturn(t)
    BY <2>2 DEF CloseReturn, RolePart, RoleTypes
  <2> QED
    BY <2>1, <2>2
<1>4. RoleTypes'
  BY <1>1, <1>2, <1>3 DEF RolePart, RoleTypes
<1>5. OpenedInOrder'
  BY <1>1 DEF RolePart, OpenedInOrder
<1>6. CloseIsLast'
  <2>1. DOMAIN <<>> = {}
    OBVIOUS
  <2> QED
    BY <1>1, <1>2, <2>1 DEF CloseIsLast, NoJob
<1>7. CloseProgress'
  BY <1>1, <1>2 DEF RolePart, CloseProgress, AllReleased, LeftBehind
<1> QED
  BY <1>4, <1>5, <1>6, <1>7 DEF RolePart

-----------------------------------------------------------------------------
\* What each cancellation in turn remembered in one set.
Remembered(kind, s) == [i \in 1 .. Len(log) |-> Logged(i, kind, s)]

\* What was remembered after the i-th of n identities.
After(L, n, i) == UNION {L[j] : j \in i + 1 .. n}

\* Of the values x of a set: each is there once, and was remembered.
EachOnce(x, L, n) ==
  /\ \A p, q \in DOMAIN x : x[p] = x[q] => p = q
  /\ \A v \in Elems(x) : \E i \in 1 .. n : v \in L[i]

\* A recent value has only later ones behind it.
IsRecent(L, n, i, v) ==
  (\A j \in 1 .. (i - 1) : v \notin L[j]) /\ Cardinality(After(L, n, i) \ {v}) < Room
HasOnlyLater(x, L, n, i, v) ==
  \E p \in DOMAIN x : x[p] = v /\ \A q \in DOMAIN x : p < q => x[q] \in After(L, n, i) \ {v}
KeepsRecent(x, L, n) ==
  \A i \in 1 .. n : \A v \in L[i] : IsRecent(L, n, i, v) => HasOnlyLater(x, L, n, i, v)
Outlived(L, n, v) == \A i \in 1 .. n : v \in L[i] => ~IsRecent(L, n, i, v)

\* The threads in the loop over a set: where each is, and what it has read.
Place(t, kind, s) ==
  IF Trims(t, kind, s) THEN [at |-> pc[t], seen |-> seen[t]] ELSE [at |-> "away", seen |-> 0]
Looping(kind, s) == [t \in Threads |-> Place(t, kind, s)]

\* The threads that have found the set x too large and have not popped yet, and those
\* that will go on to, or look again.
Committed(w) == {t \in Threads : w[t].at \in {"iterate", "oldest", "pop"}}
Fresh(x, r) ==
  \/ r.at \in {"trim", "iterate"}
  \/ r.at = "oldest" /\ r.seen = Len(x)
  \/ r.at = "pop" /\ r.seen \in Elems(x)

\* The thread that changed the set last is the one that trims it when it is too large.
Trimmed(x, w) == Len(x) > Limit => \E t \in Threads : Fresh(x, w[t])

\* However many threads are about to pop, the set stays near its limit.
EnoughLeft(x, w) ==
  Committed(w) # {} => Len(x) + Cardinality(Threads) >= Limit + 1 + Cardinality(Committed(w))

\* What a thread is about to pop is still the oldest value, or is not there, or was
\* popped by another thread and remembered again.
HeldAreOld(x, L, n, w) ==
  \A t \in Threads : w[t].at = "pop" =>
    /\ \E i \in 1 .. n : w[t].seen \in L[i]
    /\ w[t].seen \in Elems(x) => x[1] = w[t].seen \/ Outlived(L, n, w[t].seen)

SetKept(x, L, n, w) == EachOnce(x, L, n) /\ Trimmed(x, w) /\ EnoughLeft(x, w)
RecentKept(x, L, n, w) == KeepsRecent(x, L, n) /\ HeldAreOld(x, L, n, w)

\* Both hold of a set, the second until close has emptied it.
SetHolds(kind, s) ==
  /\ SetKept(Values(kind, s), Remembered(kind, s), Len(log), Looping(kind, s))
  /\ ~cleared => RecentKept(Values(kind, s), Remembered(kind, s), Len(log), Looping(kind, s))
SetsKept == \A kind \in Kinds, s \in Sessions : SetHolds(kind, s)

-----------------------------------------------------------------------------
(* The cancelled identities. *)

\* A list of the values that successive cancellations remembered.
RememberLog(L, n) == n \in Nat /\ L \in [1 .. n -> SUBSET Nat] /\ \A i \in 1 .. n : IsFiniteSet(L[i])

(* The values remembered later are finitely many. *)
LEMMA AfterFinite ==
  ASSUME NEW n, NEW L, RememberLog(L, n), NEW i \in 1 .. n
  PROVE  IsFiniteSet(After(L, n, i))
<1> DEFINE J == i + 1 .. n
           S == {L[j] : j \in J}
<1>1. n \in Nat /\ i \in Nat
  BY DEF RememberLog
<1>2. IsFiniteSet(J)
  BY <1>1, FS_Interval
<1>3. IsFiniteSet(S)
  <2> DEFINE f == [j \in J |-> L[j]]
  <2>1. f \in Surjection(J, S)
    BY DEF Surjection
  <2> HIDE DEF J, S, f
  <2> QED
    BY <1>2, <2>1, FS_Surjection
<1>4. \A T \in S : IsFiniteSet(T)
  BY <1>1 DEF RememberLog
<1> HIDE DEF S
<1>5. IsFiniteSet(UNION S)
  BY <1>3, <1>4, FS_UNION
<1> QED
  BY <1>5 DEF After, S

\* M is L and what one more cancellation remembered.
Extends(M, L, n) == RememberLog(L, n) /\ RememberLog(M, n + 1) /\ \A i \in 1 .. n : M[i] = L[i]

(* Another identity makes nothing recent that was not, and is later than everything. *)
LEMMA OneMore ==
  ASSUME NEW n, NEW L, NEW M, Extends(M, L, n), NEW i \in 1 .. n
  PROVE  /\ After(M, n + 1, i) = After(L, n, i) \cup M[n + 1]
         /\ \A w : IsRecent(M, n + 1, i, w) => IsRecent(L, n, i, w)
<1>1. n \in Nat /\ RememberLog(L, n) /\ RememberLog(M, n + 1) /\ \A j \in 1 .. n : M[j] = L[j]
  BY DEF Extends, RememberLog
<1>2. After(M, n + 1, i) = After(L, n, i) \cup M[n + 1]
  <2>1. \A j : j \in i + 1 .. (n + 1) <=> j \in i + 1 .. n \/ j = n + 1
    BY <1>1
  <2>2. \A j \in i + 1 .. n : M[j] = L[j]
    BY <1>1
  <2>3. \A u : u \in After(M, n + 1, i) <=> u \in After(L, n, i) \/ u \in M[n + 1]
    BY <2>1, <2>2 DEF After
  <2> QED
    BY <2>3
<1>3. ASSUME NEW w, IsRecent(M, n + 1, i, w) PROVE IsRecent(L, n, i, w)
  <2> DEFINE A == After(L, n, i) \ {w}
             B == After(M, n + 1, i) \ {w}
  <2>1. IsFiniteSet(B)
    <3>1. i \in 1 .. (n + 1)
      BY <1>1
    <3>2. IsFiniteSet(After(M, n + 1, i))
      BY <1>1, <3>1, AfterFinite
    <3> QED
      BY <3>2, FS_Subset
  <2>2. Cardinality(A) <= Cardinality(B) /\ Cardinality(A) \in Nat /\ Cardinality(B) \in Nat
    <3>1. A \in SUBSET B
      BY <1>2
    <3> HIDE DEF A, B
    <3> QED
      BY <2>1, <3>1, FS_Subset, FS_CardinalityType
  <2>3. Cardinality(A) < Room
    <3>1. Cardinality(B) < Room
      BY <1>3 DEF IsRecent
    <3> QED
      BY <2>2, <3>1, Numbers
  <2>4. \A j \in 1 .. (i - 1) : M[j] = L[j]
    BY <1>1
  <2> QED
    BY <1>3, <2>3, <2>4 DEF IsRecent
<1> QED
  BY <1>2, <1>3

(* A value that is no longer recent stays so, though it be remembered again. *)
LEMMA OutlivedStays ==
  ASSUME NEW n, NEW L, NEW M, Extends(M, L, n), NEW k, Outlived(L, n, k), \E j \in 1 .. n : k \in L[j]
  PROVE  Outlived(M, n + 1, k) /\ \E j \in 1 .. (n + 1) : k \in M[j]
<1>1. n \in Nat /\ \A j \in 1 .. n : M[j] = L[j]
  BY DEF Extends, RememberLog
<1>2. PICK j \in 1 .. n : k \in L[j]
  OBVIOUS
<1>3. ASSUME NEW i \in 1 .. (n + 1), k \in M[i] PROVE ~IsRecent(M, n + 1, i, k)
  <2>1. CASE i = n + 1
    <3>1. j \in 1 .. (i - 1) /\ k \in M[j]
      BY <1>1, <1>2, <2>1
    <3> QED
      BY <3>1 DEF IsRecent
  <2>2. CASE i \in 1 .. n
    BY <1>1, <1>3, <2>2, OneMore DEF Outlived
  <2> QED
    BY <1>1, <2>1, <2>2
<1> QED
  BY <1>1, <1>2, <1>3 DEF Outlived

(* Nothing is remembered in a set, or a value that it holds already. *)
LEMMA SameSetKept ==
  ASSUME NEW n, NEW L, NEW M, Extends(M, L, n), NEW x, M[n + 1] \subseteq Elems(x), EachOnce(x, L, n)
  PROVE  EachOnce(x, M, n + 1) /\ (KeepsRecent(x, L, n) => KeepsRecent(x, M, n + 1))
<1>1. n \in Nat /\ \A i \in 1 .. n : M[i] = L[i]
  BY DEF Extends, RememberLog
<1>2. EachOnce(x, M, n + 1)
  <2>1. \A i \in 1 .. n : i \in 1 .. (n + 1)
    BY <1>1
  <2> QED
    BY <1>1, <2>1 DEF EachOnce
<1>3. ASSUME KeepsRecent(x, L, n), NEW i \in 1 .. (n + 1), NEW w \in M[i], IsRecent(M, n + 1, i, w)
      PROVE  HasOnlyLater(x, M, n + 1, i, w)
  <2>1. CASE i = n + 1
    <3>1. w \in Elems(x)
      BY <2>1
    <3>2. PICK j \in 1 .. n : w \in L[j]
      BY <3>1 DEF EachOnce
    <3>3. j \in 1 .. (i - 1) /\ w \in M[j]
      BY <1>1, <2>1, <3>2
    <3> QED
      BY <1>3, <3>3 DEF IsRecent
  <2>2. CASE i \in 1 .. n
    <3>1. After(L, n, i) \subseteq After(M, n + 1, i) /\ IsRecent(L, n, i, w)
      BY <1>3, <2>2, OneMore
    <3>2. HasOnlyLater(x, L, n, i, w)
      BY <1>1, <1>3, <2>2, <3>1 DEF KeepsRecent
    <3> QED
      BY <3>1, <3>2 DEF HasOnlyLater
  <2> QED
    BY <1>1, <2>1, <2>2
<1> QED
  BY <1>2, <1>3 DEF KeepsRecent

(* What Append adds is last. *)
LEMMA AppendedShape ==
  ASSUME NEW x \in Seq(Nat), NEW v \in Nat, NEW y, y = Append(x, v)
  PROVE  /\ y \in Seq(Nat) /\ Len(x) \in Nat /\ DOMAIN x = 1 .. Len(x) /\ DOMAIN y = 1 .. (Len(x) + 1)
         /\ Len(y) = Len(x) + 1 /\ y[Len(x) + 1] = v /\ \A q \in DOMAIN x : y[q] = x[q] /\ q \in DOMAIN y
         /\ \A q \in DOMAIN y : q \in DOMAIN x \/ q = Len(x) + 1
         /\ Elems(y) = Elems(x) \cup {v}
<1>1. Len(x) \in Nat /\ DOMAIN x = 1 .. Len(x)
  BY LenProperties
<1>2. y \in Seq(Nat) /\ Len(y) = Len(x) + 1 /\ (\A q \in 1 .. Len(x) : y[q] = x[q]) /\ y[Len(x) + 1] = v
  BY AppendProperties
<1>3. DOMAIN y = 1 .. (Len(x) + 1)
  BY <1>2, LenProperties
<1>4. \A q \in 1 .. (Len(x) + 1) : q \in 1 .. Len(x) \/ q = Len(x) + 1
  BY <1>1
<1>5. \A q \in 1 .. Len(x) : q \in 1 .. (Len(x) + 1)
  BY <1>1
<1>6. Len(x) + 1 \in 1 .. (Len(x) + 1)
  BY <1>1
<1>7. Elems(y) = Elems(x) \cup {v}
  <2>1. ASSUME NEW u PROVE u \in Elems(y) <=> u \in Elems(x) \/ u = v
    <3>1. u \in Elems(y) <=> \E q \in 1 .. (Len(x) + 1) : u = y[q]
      BY <1>3 DEF Elems
    <3>2. u \in Elems(x) <=> \E q \in 1 .. Len(x) : u = x[q]
      BY <1>1 DEF Elems
    <3> QED
      BY <1>2, <1>4, <1>5, <1>6, <3>1, <3>2
  <2> QED
    BY <2>1
<1> QED
  BY <1>1, <1>2, <1>3, <1>4, <1>5, <1>7

(* A new value is added. *)
LEMMA NewValueKept ==
  ASSUME NEW n, NEW L, NEW M, Extends(M, L, n), NEW x \in Seq(Nat), NEW v \in Nat, v \notin Elems(x),
         M[n + 1] = {v}, NEW y, y = Append(x, v), EachOnce(x, L, n)
  PROVE  EachOnce(y, M, n + 1) /\ (KeepsRecent(x, L, n) => KeepsRecent(y, M, n + 1))
<1>1. n \in Nat /\ \A i \in 1 .. n : M[i] = L[i]
  BY DEF Extends, RememberLog
<1>2. PICK m \in Nat : m = Len(x) + 1
  BY AppendedShape
<1>3. /\ DOMAIN x = 1 .. (m - 1) /\ DOMAIN y = 1 .. m /\ m \in DOMAIN y /\ y[m] = v
      /\ \A q \in DOMAIN y : (q \in DOMAIN x /\ y[q] = x[q]) \/ q = m
      /\ \A q \in DOMAIN x : q \in DOMAIN y /\ y[q] = x[q]
  <2>1. Len(x) \in Nat /\ m - 1 = Len(x)
    BY <1>2, AppendedShape
  <2>2. m \in 1 .. m
    BY <1>2, <2>1
  <2> QED
    BY <1>2, <2>1, <2>2, AppendedShape
<1>4. \A p \in DOMAIN x : x[p] # v
  BY DEF Elems
<1>5. EachOnce(y, M, n + 1)
  <2>1. \A p, q \in DOMAIN y : y[p] = y[q] => p = q
    BY <1>3, <1>4 DEF EachOnce
  <2>2. ASSUME NEW w \in Elems(y) PROVE \E i \in 1 .. (n + 1) : w \in M[i]
    <3>1. w \in Elems(x) \/ w = v
      <4>1. Elems(y) = Elems(x) \cup {v}
        BY AppendedShape
      <4> QED
        BY <4>1
    <3>2. n + 1 \in 1 .. (n + 1) /\ \A i \in 1 .. n : i \in 1 .. (n + 1)
      BY <1>1
    <3> QED
      BY <1>1, <3>1, <3>2 DEF EachOnce
  <2> QED
    BY <2>1, <2>2 DEF EachOnce
<1>6. ASSUME KeepsRecent(x, L, n), NEW i \in 1 .. (n + 1), NEW w \in M[i], IsRecent(M, n + 1, i, w)
      PROVE  HasOnlyLater(y, M, n + 1, i, w)
  <2>1. CASE i = n + 1
    <3>1. w = v
      BY <2>1
    <3>2. \A q \in DOMAIN y : ~(m < q)
      BY <1>2, <1>3
    <3> QED
      BY <1>3, <3>1, <3>2 DEF HasOnlyLater
  <2>2. CASE i \in 1 .. n
    <3>1. After(M, n + 1, i) = After(L, n, i) \cup {v} /\ IsRecent(L, n, i, w)
      BY <1>6, <2>2, OneMore
    <3>2. HasOnlyLater(x, L, n, i, w)
      BY <1>1, <1>6, <2>2, <3>1 DEF KeepsRecent
    <3>3. PICK p \in DOMAIN x : x[p] = w /\ \A q \in DOMAIN x : p < q => x[q] \in After(L, n, i) \ {w}
      BY <3>2 DEF HasOnlyLater
    <3>4. w # v
      BY <1>4, <3>3
    <3>5. \A q \in DOMAIN y : p < q => y[q] \in After(M, n + 1, i) \ {w}
      BY <1>3, <3>1, <3>3, <3>4
    <3> QED
      BY <1>3, <3>3, <3>5 DEF HasOnlyLater
  <2> QED
    BY <1>1, <2>1, <2>2
<1> QED
  BY <1>5, <1>6 DEF KeepsRecent

\* Where the values of y were in x: all but k, in the same order.
KeptPlaces(g, x, k, y) ==
  /\ g \in [DOMAIN y -> DOMAIN x] /\ \A a \in DOMAIN y : y[a] = x[g[a]]
  /\ \A a, b \in DOMAIN y : a < b => g[a] < g[b]
  /\ \A p \in DOMAIN x : x[p] # k => \E a \in DOMAIN y : g[a] = p

(* What pop leaves: everything but the value, in the same order. *)
LEMMA PoppedShape ==
  ASSUME NEW x \in Seq(Nat), \A p, q \in DOMAIN x : x[p] = x[q] => p = q,
         NEW k \in Elems(x), NEW y, y = Popped(x, k)
  PROVE  /\ y \in Seq(Nat) /\ Len(x) \in Nat /\ Len(y) = Len(x) - 1 /\ Elems(y) = Elems(x) \ {k}
         /\ \E g : KeptPlaces(g, x, k, y)
<1>1. PICK I : I = {i \in DOMAIN x : x[i] # k}
  OBVIOUS
<1>2. I \in SUBSET (DOMAIN x) /\ DOMAIN x = 1 .. Len(x) /\ Len(x) \in Nat
  BY <1>1, LenProperties
<1>3. I \in SUBSET Nat /\ IsFiniteSet(I) /\ Cardinality(I) \in Nat
  BY <1>2, IndexSet
<1>4. y = At(x, I) /\ y \in Seq(Nat) /\ Len(y) = Cardinality(I) /\ Elems(y) = {x[i] : i \in I}
  <2>1. y = At(x, I)
    BY <1>1 DEF Popped
  <2> QED
    BY <1>2, <2>1, AtProperties
<1>5. Elems(y) = Elems(x) \ {k}
  BY <1>1, <1>4 DEF Elems
<1>6. Cardinality(I) = Len(x) - 1
  <2>1. PICK p \in DOMAIN x : x[p] = k
    BY DEF Elems
  <2>2. PICK n \in Nat : n = Len(x)
    BY <1>2
  <2>3. PICK D : D = 1 .. n
    OBVIOUS
  <2>4. IsFiniteSet(D) /\ Cardinality(D) = n
    <3>1. n >= 1
      BY <1>2, <2>1, <2>2
    <3> QED
      BY <2>3, <3>1, FS_Interval
  <2>5. I = D \ {p} /\ p \in D
    BY <1>1, <1>2, <2>1, <2>2, <2>3
  <2>6. Cardinality(D \ {p}) = Cardinality(D) - 1
    BY <2>4, <2>5, FS_RemoveElement
  <2> QED
    BY <2>2, <2>4, <2>5, <2>6
<1>7. DOMAIN y = 1 .. Cardinality(I) /\ \A a \in DOMAIN y : y[a] = x[Pos(I, a)]
  BY <1>4 DEF At, Pos
<1>8. PICK g : g = [a \in DOMAIN y |-> Pos(I, a)]
  OBVIOUS
<1>9. /\ \A a \in DOMAIN y : Pos(I, a) \in I
      /\ \A i \in I : Rank(I, i) \in DOMAIN y /\ Pos(I, Rank(I, i)) = i
      /\ \A a, b \in DOMAIN y : a < b => Pos(I, a) < Pos(I, b)
  <2>1. /\ \A a \in 1 .. Cardinality(I) : Pos(I, a) \in I
        /\ \A i \in I : Rank(I, i) \in 1 .. Cardinality(I) /\ Pos(I, Rank(I, i)) = i
        /\ \A a, b \in 1 .. Cardinality(I) : a < b => Pos(I, a) < Pos(I, b)
    BY <1>3, PosProperties
  <2> QED
    BY <1>7, <2>1
<1>10. ASSUME NEW p \in DOMAIN x, x[p] # k PROVE \E a \in DOMAIN y : g[a] = p
  <2>1. p \in I
    BY <1>1, <1>10
  <2>2. Rank(I, p) \in DOMAIN y /\ g[Rank(I, p)] = p
    BY <1>8, <1>9, <2>1
  <2> QED
    BY <2>2
<1>11. g \in [DOMAIN y -> DOMAIN x]
  BY <1>2, <1>8, <1>9
<1>12. (\A a \in DOMAIN y : y[a] = x[g[a]]) /\ \A a, b \in DOMAIN y : a < b => g[a] < g[b]
  BY <1>7, <1>8, <1>9
<1>13. KeptPlaces(g, x, k, y)
  BY <1>10, <1>11, <1>12 DEF KeptPlaces
<1> QED
  BY <1>2, <1>4, <1>5, <1>6, <1>13

(* Values that are all different, and all but the first in a set, are that many. *)
LEMMA BehindTheFirst ==
  ASSUME NEW x \in Seq(Nat), Len(x) >= 1, \A p, q \in DOMAIN x : x[p] = x[q] => p = q,
         NEW S, IsFiniteSet(S), \A q \in DOMAIN x : 1 < q => x[q] \in S
  PROVE  Len(x) - 1 <= Cardinality(S) /\ Cardinality(S) \in Nat
<1>1. DOMAIN x = 1 .. Len(x) /\ Len(x) \in Nat
  BY LenProperties
<1>2. PICK n \in Nat : n = Len(x)
  BY <1>1
<1>3. \A q \in 2 .. n : q \in DOMAIN x /\ 1 < q
  BY <1>1, <1>2
<1>4. PICK f : f = [q \in 2 .. n |-> x[q]]
  OBVIOUS
<1>5. f \in Injection(2 .. n, S)
  <2>1. f \in [2 .. n -> S]
    BY <1>3, <1>4
  <2> QED
    BY <1>3, <1>4, <2>1 DEF Injection, IsInjective
<1>6. Cardinality(2 .. n) = n - 1
  BY <1>2, FS_Interval
<1>7. Cardinality(2 .. n) <= Cardinality(S) /\ Cardinality(S) \in Nat
  BY <1>5, FS_Injection, FS_CardinalityType
<1> QED
  BY <1>2, <1>6, <1>7

(* The threads that are about to pop are no more than there are threads. *)
LEMMA CommittedCount ==
  ASSUME NEW w
  PROVE  /\ IsFiniteSet(Committed(w)) /\ Cardinality(Committed(w)) \in Nat
         /\ Cardinality(Committed(w)) <= Cardinality(Threads)
<1>1. Committed(w) \in SUBSET Threads
  BY DEF Committed
<1> QED
  BY <1>1, ThreadAssumption, FS_Subset, FS_CardinalityType

(* A thread moves in the loop, and the set stays as it is. *)
LEMMA MoveKeepsSet ==
  ASSUME NEW n, NEW L, NEW x \in Seq(Nat), NEW w, NEW w2, NEW t \in Threads,
         \A u \in Threads \ {t} : w2[u] = w[u],
         Len(x) > Limit /\ Fresh(x, w[t]) => Fresh(x, w2[t]),
         Len(x) > Limit \/ (t \in Committed(w2) => t \in Committed(w)),
         w2[t].at = "pop" => x # <<>> /\ w2[t].seen = x[1],
         SetKept(x, L, n, w)
  PROVE  SetKept(x, L, n, w2) /\ (RecentKept(x, L, n, w) => RecentKept(x, L, n, w2))
<1>1. Trimmed(x, w2)
  BY DEF SetKept, Trimmed
<1>2. Len(x) \in Nat /\ DOMAIN x = 1 .. Len(x)
  BY LenProperties
<1>3. EnoughLeft(x, w2)
  <2>1. ASSUME Committed(w2) # {} PROVE Len(x) + Cardinality(Threads) >= Limit + 1 + Cardinality(Committed(w2))
    <3>1. CASE Len(x) > Limit
      BY <1>2, <3>1, CommittedCount, Numbers
    <3>2. CASE ~(Len(x) > Limit)
      <4>1. Committed(w2) \subseteq Committed(w)
        BY <3>2 DEF Committed
      <4>2. Cardinality(Committed(w2)) <= Cardinality(Committed(w)) /\ Cardinality(Committed(w2)) \in Nat
            /\ Cardinality(Committed(w)) \in Nat
        BY <4>1, CommittedCount, FS_Subset
      <4>3. Len(x) + Cardinality(Threads) >= Limit + 1 + Cardinality(Committed(w))
        BY <2>1, <4>1 DEF SetKept, EnoughLeft
      <4> QED
        BY <1>2, <4>2, <4>3, Numbers
    <3> QED
      BY <3>1, <3>2
  <2> QED
    BY <2>1 DEF EnoughLeft
<1>4. ASSUME RecentKept(x, L, n, w) PROVE HeldAreOld(x, L, n, w2)
  <2>1. ASSUME NEW u \in Threads, w2[u].at = "pop"
        PROVE  /\ \E i \in 1 .. n : w2[u].seen \in L[i]
               /\ w2[u].seen \in Elems(x) => x[1] = w2[u].seen \/ Outlived(L, n, w2[u].seen)
    <3>1. CASE u = t
      <4>1. x # <<>> /\ w2[t].seen = x[1]
        BY <2>1, <3>1
      <4>2. x[1] \in Elems(x)
        <5>1. Len(x) # 0
          BY <4>1, EmptySeq
        <5> QED
          BY <1>2, <5>1 DEF Elems
      <4> QED
        BY <3>1, <4>1, <4>2 DEF SetKept, EachOnce
    <3>2. CASE u # t
      BY <1>4, <2>1, <3>2 DEF RecentKept, HeldAreOld
    <3> QED
      BY <3>1, <3>2
  <2> QED
    BY <2>1 DEF HeldAreOld
<1> QED
  BY <1>1, <1>3, <1>4 DEF SetKept, RecentKept

(* A thread pops the value it has read. *)
LEMMA PopKeepsSet ==
  ASSUME NEW n, NEW L, RememberLog(L, n), NEW x \in Seq(Nat), NEW w, NEW w2, NEW t \in Threads,
         \A u \in Threads \ {t} : w2[u] = w[u],
         w[t].at = "pop", w2[t].at = "trim", w[t].seen \in Elems(x),
         NEW y, y = Popped(x, w[t].seen), SetKept(x, L, n, w)
  PROVE  SetKept(y, L, n, w2) /\ (RecentKept(x, L, n, w) => RecentKept(y, L, n, w2))
<1>1. PICK k : k = w[t].seen
  OBVIOUS
<1>2. k \in Elems(x) /\ y = Popped(x, k) /\ \A p, q \in DOMAIN x : x[p] = x[q] => p = q
  BY <1>1 DEF SetKept, EachOnce
<1>3. y \in Seq(Nat) /\ Len(x) \in Nat /\ Len(y) = Len(x) - 1 /\ Elems(y) = Elems(x) \ {k}
  BY <1>2, PoppedShape
<1>4. PICK g :
        /\ g \in [DOMAIN y -> DOMAIN x] /\ \A a \in DOMAIN y : y[a] = x[g[a]]
        /\ \A a, b \in DOMAIN y : a < b => g[a] < g[b]
        /\ \A p \in DOMAIN x : x[p] # k => \E a \in DOMAIN y : g[a] = p
  <2>1. \E g : KeptPlaces(g, x, k, y)
    BY <1>2, PoppedShape
  <2> QED
    BY <2>1 DEF KeptPlaces
<1>5. DOMAIN x = 1 .. Len(x) /\ DOMAIN y = 1 .. Len(y) /\ Len(y) \in Nat
  BY <1>3, LenProperties
<1>6. \A a, b \in DOMAIN y : a \in Nat /\ b \in Nat /\ g[a] \in Nat /\ g[b] \in Nat /\ 1 <= g[a]
  <2>1. PICK l \in Nat : l = Len(x)
    BY <1>3
  <2>2. PICK l2 \in Nat : l2 = Len(y)
    BY <1>5
  <2>3. \A a \in DOMAIN y : a \in 1 .. l2 /\ g[a] \in 1 .. l
    BY <1>4, <1>5, <2>1, <2>2
  <2> QED
    BY <2>3
<1>7. ASSUME NEW a \in DOMAIN y, NEW b \in DOMAIN y, g[a] < g[b] PROVE a < b
  <2>1. ~(b < a)
    <3>1. ~(g[b] < g[a])
      BY <1>6, <1>7
    <3> QED
      BY <1>4, <3>1
  <2>2. a # b
    BY <1>6, <1>7
  <2> QED
    BY <1>6, <2>1, <2>2
<1>8. EachOnce(y, L, n)
  <2>1. ASSUME NEW a \in DOMAIN y, NEW b \in DOMAIN y, y[a] = y[b] PROVE a = b
    <3>1. g[a] = g[b]
      BY <1>2, <1>4, <2>1
    <3>2. ~(a < b) /\ ~(b < a)
      BY <1>4, <1>6, <3>1
    <3> QED
      BY <1>6, <3>2
  <2>2. \A v \in Elems(y) : \E i \in 1 .. n : v \in L[i]
    BY <1>3 DEF SetKept, EachOnce
  <2> QED
    BY <2>1, <2>2 DEF EachOnce
<1>9. Trimmed(y, w2)
  BY DEF Trimmed, Fresh
<1>10. Len(x) + Cardinality(Threads) >= Limit + 1 + Cardinality(Committed(w)) /\ t \in Committed(w)
  BY DEF SetKept, EnoughLeft, Committed
<1>11. PICK c \in Nat, c2 \in Nat : c = Cardinality(Committed(w)) /\ c2 = Cardinality(Committed(w2))
  BY CommittedCount
<1>12. c2 = c - 1
  <2>1. Committed(w2) = Committed(w) \ {t}
    BY DEF Committed
  <2>2. IsFiniteSet(Committed(w))
    BY CommittedCount
  <2> QED
    BY <1>10, <1>11, <2>1, <2>2, FS_RemoveElement
<1>13. EnoughLeft(y, w2)
  <2>1. PICK l \in Nat : l = Len(x)
    BY <1>3
  <2>2. PICK m \in Nat : m = Cardinality(Threads)
    BY Numbers
  <2>3. PICK b \in Nat : b = Limit
    BY Numbers
  <2>4. l + m >= b + 1 + c
    BY <1>10, <1>11, <2>1, <2>2, <2>3
  <2>5. (l - 1) + m >= b + 1 + c2
    BY <1>12, <2>4
  <2> QED
    BY <1>3, <1>11, <2>1, <2>2, <2>3, <2>5 DEF EnoughLeft
<1>14. Len(x) - 1 >= Room
  <2>1. c >= 1
    <3>1. Committed(w) # {}
      BY <1>10
    <3> QED
      BY <1>11, <3>1, CommittedCount, FS_EmptySet
  <2>2. PICK l \in Nat : l = Len(x)
    BY <1>3
  <2>3. PICK m \in Nat, b \in Nat : m = Cardinality(Threads) /\ b = Limit
    BY Numbers
  <2>4. l + m >= b + 1 + c
    BY <1>10, <1>11, <2>2, <2>3
  <2>5. Room = b + 1 - m
    BY <2>3, Numbers
  <2>6. l - 1 >= b + 1 - m
    BY <2>1, <2>4
  <2> QED
    BY <2>2, <2>5, <2>6
<1>15. ASSUME RecentKept(x, L, n, w) PROVE KeepsRecent(y, L, n)
  <2>1. ASSUME NEW i \in 1 .. n, NEW v \in L[i], IsRecent(L, n, i, v) PROVE HasOnlyLater(y, L, n, i, v)
    <3>1. PICK p \in DOMAIN x : x[p] = v /\ \A q \in DOMAIN x : p < q => x[q] \in After(L, n, i) \ {v}
      BY <1>15, <2>1 DEF RecentKept, KeepsRecent, HasOnlyLater
    <3>2. v # k
      <4> SUFFICES ASSUME v = k PROVE FALSE
        OBVIOUS
      <4>1. x[1] = k
        BY <1>1, <1>2, <1>15, <2>1 DEF RecentKept, HeldAreOld, Outlived
      <4>2. 1 \in DOMAIN x /\ Len(x) >= 1
        BY <1>3, <1>5, <3>1
      <4>3. p = 1
        BY <1>2, <3>1, <4>1, <4>2
      <4>4. IsFiniteSet(After(L, n, i) \ {v})
        BY AfterFinite, FS_Subset
      <4>5. Len(x) - 1 <= Cardinality(After(L, n, i) \ {v}) /\ Cardinality(After(L, n, i) \ {v}) \in Nat
        BY <1>2, <3>1, <4>2, <4>3, <4>4, BehindTheFirst
      <4>6. Cardinality(After(L, n, i) \ {v}) < Room
        BY <2>1 DEF IsRecent
      <4> QED
        BY <1>3, <1>14, <4>5, <4>6, Numbers
    <3>3. PICK a \in DOMAIN y : g[a] = p
      BY <1>4, <3>1, <3>2
    <3>4. \A b \in DOMAIN y : a < b => y[b] \in After(L, n, i) \ {v}
      BY <1>4, <3>1, <3>3
    <3> QED
      BY <1>4, <3>1, <3>3, <3>4 DEF HasOnlyLater
  <2> QED
    BY <2>1 DEF KeepsRecent
<1>16. ASSUME RecentKept(x, L, n, w) PROVE HeldAreOld(y, L, n, w2)
  <2>1. ASSUME NEW u \in Threads, w2[u].at = "pop"
        PROVE  /\ \E i \in 1 .. n : w2[u].seen \in L[i]
               /\ w2[u].seen \in Elems(y) => y[1] = w2[u].seen \/ Outlived(L, n, w2[u].seen)
    <3>1. PICK v : v = w2[u].seen
      OBVIOUS
    <3>2. u # t /\ w2[u] = w[u]
      BY <2>1
    <3>3. (\E i \in 1 .. n : v \in L[i]) /\ (v \in Elems(x) => x[1] = v \/ Outlived(L, n, v))
      BY <1>16, <2>1, <3>1, <3>2 DEF RecentKept, HeldAreOld
    <3>4. ASSUME v \in Elems(y), x[1] = v PROVE y[1] = v
      <4>1. v # k /\ Len(x) >= 1 /\ 1 \in DOMAIN x
        <5>1. v # k /\ v \in Elems(x)
          BY <1>3, <3>4
        <5>2. \E p \in DOMAIN x : v = x[p]
          BY <5>1 DEF Elems
        <5> QED
          BY <1>3, <1>5, <5>1, <5>2
      <4>2. PICK a \in DOMAIN y : g[a] = 1
        BY <1>4, <3>4, <4>1
      <4>3. 1 \in DOMAIN y /\ a \in Nat /\ 1 <= a
        BY <1>5, <4>2
      <4>4. ~(1 < a)
        BY <1>4, <1>6, <4>2, <4>3
      <4>5. a = 1
        BY <4>3, <4>4
      <4> QED
        BY <1>4, <3>4, <4>2, <4>5
    <3> QED
      BY <1>3, <3>1, <3>3, <3>4
  <2> QED
    BY <2>1 DEF HeldAreOld
<1> QED
  BY <1>8, <1>9, <1>13, <1>15, <1>16 DEF SetKept, RecentKept

(* A thread remembers v in a set and goes on to trim it. *)
LEMMA InsertKeepsSet ==
  ASSUME NEW n, NEW L, NEW M, Extends(M, L, n), NEW v \in Nat, M[n + 1] = {v},
         NEW x \in Seq(Nat), NEW y, y = Inserted(x, v), NEW w, NEW w2, NEW t \in Threads,
         \A u \in Threads \ {t} : w2[u] = w[u], w[t].at = "away", w2[t].at = "trim", SetKept(x, L, n, w)
  PROVE  SetKept(y, M, n + 1, w2) /\ (RecentKept(x, L, n, w) => RecentKept(y, M, n + 1, w2))
<1>1. EachOnce(x, L, n)
  BY DEF SetKept
<1>2. Inserted(x, v) = IF v \in Elems(x) THEN x ELSE Append(x, v)
  BY DEF Inserted, Elements, Elems
<1>3. EachOnce(y, M, n + 1) /\ (KeepsRecent(x, L, n) => KeepsRecent(y, M, n + 1))
  <2>1. CASE v \in Elems(x)
    BY <1>1, <1>2, <2>1, SameSetKept
  <2>2. CASE v \notin Elems(x)
    BY <1>1, <1>2, <2>2, NewValueKept
  <2> QED
    BY <2>1, <2>2
<1>4. Len(x) \in Nat /\ Len(y) \in Nat /\ Len(y) >= Len(x) /\ Elems(y) = Elems(x) \cup {v}
  <2>1. Len(x) \in Nat
    BY LenProperties
  <2>2. CASE v \in Elems(x)
    BY <1>2, <2>1, <2>2
  <2>3. CASE v \notin Elems(x)
    <3>1. y = Append(x, v)
      BY <1>2, <2>3
    <3>2. Len(y) = Len(x) + 1
      BY <2>1, <3>1, AppendProperties
    <3>3. Elems(y) = Elems(x) \cup {v}
      BY <3>1, AppendContents
    <3>4. PICK l \in Nat : l = Len(x)
      BY <2>1
    <3>5. Len(y) = l + 1 /\ l + 1 \in Nat /\ l + 1 >= l
      BY <3>2, <3>4
    <3> QED
      BY <2>1, <3>3, <3>4, <3>5
  <2> QED
    BY <2>2, <2>3
<1>5. Trimmed(y, w2)
  BY DEF Trimmed, Fresh
<1>6. EnoughLeft(y, w2)
  <2>1. Committed(w2) = Committed(w)
    BY DEF Committed
  <2>2. EnoughLeft(x, w) /\ Cardinality(Committed(w)) \in Nat
    BY CommittedCount DEF SetKept
  <2> QED
    BY <1>4, <2>1, <2>2, Numbers DEF EnoughLeft
<1>7. ASSUME RecentKept(x, L, n, w) PROVE HeldAreOld(y, M, n + 1, w2)
  <2>1. ASSUME NEW u \in Threads, w2[u].at = "pop"
        PROVE  /\ \E i \in 1 .. (n + 1) : w2[u].seen \in M[i]
               /\ w2[u].seen \in Elems(y) => y[1] = w2[u].seen \/ Outlived(M, n + 1, w2[u].seen)
    <3>1. PICK k : k = w2[u].seen
      OBVIOUS
    <3>2. u # t /\ w2[u] = w[u]
      BY <2>1
    <3>3. (\E i \in 1 .. n : k \in L[i]) /\ (k \in Elems(x) => x[1] = k \/ Outlived(L, n, k))
      BY <1>7, <2>1, <3>1, <3>2 DEF RecentKept, HeldAreOld
    <3>4. Outlived(L, n, k) => Outlived(M, n + 1, k)
      BY <3>3, OutlivedStays
    <3>5. \E i \in 1 .. (n + 1) : k \in M[i]
      BY <3>3 DEF Extends, RememberLog
    <3>6. CASE k \in Elems(x)
      <4>1. x[1] = k => y[1] = k
        <5>1. CASE v \in Elems(x)
          BY <1>2, <5>1
        <5>2. CASE v \notin Elems(x)
          <6>1. y = Append(x, v)
            BY <1>2, <5>2
          <6>2. (\A q \in DOMAIN x : y[q] = x[q]) /\ DOMAIN x = 1 .. Len(x) /\ Len(x) \in Nat
            BY <6>1, AppendedShape
          <6>3. 1 \in DOMAIN x
            <7>1. \E q \in DOMAIN x : k = x[q]
              BY <3>6 DEF Elems
            <7> QED
              BY <6>2, <7>1
          <6> QED
            BY <6>2, <6>3
        <5> QED
          BY <5>1, <5>2
      <4> QED
        BY <3>1, <3>3, <3>4, <3>5, <3>6, <4>1
    <3>7. CASE k \notin Elems(x)
      <4>1. Outlived(L, n, k)
        <5>1. ASSUME NEW i \in 1 .. n, k \in L[i], IsRecent(L, n, i, k) PROVE FALSE
          <6>1. HasOnlyLater(x, L, n, i, k)
            BY <1>7, <5>1 DEF RecentKept, KeepsRecent
          <6> QED
            BY <3>7, <6>1 DEF HasOnlyLater, Elems
        <5> QED
          BY <5>1 DEF Outlived
      <4> QED
        BY <3>1, <3>4, <3>5, <4>1
    <3> QED
      BY <3>6, <3>7
  <2> QED
    BY <2>1 DEF HeldAreOld
<1> QED
  BY <1>3, <1>5, <1>6, <1>7 DEF SetKept, RecentKept

(* An identity that is remembered in another set. *)
LEMMA OtherSetKept ==
  ASSUME NEW n, NEW L, NEW M, Extends(M, L, n), M[n + 1] = {}, NEW x \in Seq(Nat), NEW w, SetKept(x, L, n, w)
  PROVE  SetKept(x, M, n + 1, w) /\ (RecentKept(x, L, n, w) => RecentKept(x, M, n + 1, w))
<1>1. EachOnce(x, M, n + 1) /\ (KeepsRecent(x, L, n) => KeepsRecent(x, M, n + 1))
  BY SameSetKept DEF SetKept
<1>2. ASSUME HeldAreOld(x, L, n, w) PROVE HeldAreOld(x, M, n + 1, w)
  <2>1. ASSUME NEW u \in Threads, w[u].at = "pop"
        PROVE  /\ \E i \in 1 .. (n + 1) : w[u].seen \in M[i]
               /\ w[u].seen \in Elems(x) => x[1] = w[u].seen \/ Outlived(M, n + 1, w[u].seen)
    <3>1. PICK k : k = w[u].seen
      OBVIOUS
    <3>2. (\E i \in 1 .. n : k \in L[i]) /\ (k \in Elems(x) => x[1] = k \/ Outlived(L, n, k))
      BY <1>2, <2>1, <3>1 DEF HeldAreOld
    <3>3. Outlived(L, n, k) => Outlived(M, n + 1, k)
      BY <3>2, OutlivedStays
    <3>4. \E i \in 1 .. (n + 1) : k \in M[i]
      BY <3>2 DEF Extends, RememberLog
    <3> QED
      BY <3>1, <3>2, <3>3, <3>4
  <2> QED
    BY <2>1 DEF HeldAreOld
<1> QED
  BY <1>1, <1>2 DEF SetKept, RecentKept

-----------------------------------------------------------------------------
(* The sets, and the threads that work on them. *)
Entry == [kind : Kinds, session : Sessions, value : Nat]

CancelTypes ==
  /\ frames \in [Sessions -> Seq(Nat)] /\ operations \in [Sessions -> Seq(Nat)]
  /\ log \in Seq(Entry)

\* The part of the state that remembers cancellations.
CancelPart == CancelTypes /\ SetsKept

\* What each entry of a log says of one set.
OfSet(g, kind, s) ==
  [i \in 1 .. Len(g) |-> IF g[i].kind = kind /\ g[i].session = s THEN {g[i].value} ELSE {}]

(* It is a value or nothing. *)
LEMMA EntriesOfSet ==
  ASSUME NEW g \in Seq(Entry), NEW kind, NEW s, NEW L, L = OfSet(g, kind, s)
  PROVE  RememberLog(L, Len(g))
<1>1. PICK n \in Nat : n = Len(g)
  BY LenProperties
<1>2. \A i \in 1 .. n : g[i] \in Entry
  BY <1>1, ElementOfSeq
<1>3. \A i \in 1 .. n : g[i].value \in Nat
  BY <1>2 DEF Entry
<1>4. IsFiniteSet({}) /\ \A v : IsFiniteSet({v})
  BY FS_EmptySet, FS_Singleton
<1>5. ASSUME NEW i \in 1 .. n PROVE L[i] \in SUBSET Nat /\ IsFiniteSet(L[i])
  <2>1. L[i] = {} \/ L[i] = {g[i].value}
    BY <1>1 DEF OfSet
  <2> QED
    BY <1>3, <1>4, <2>1
<1>6. L \in [1 .. n -> SUBSET Nat]
  BY <1>1, <1>5 DEF OfSet
<1> QED
  BY <1>1, <1>5, <1>6 DEF RememberLog

(* The log of a set, and its values. *)
LEMMA RememberedLog ==
  ASSUME CancelTypes, NEW kind \in Kinds, NEW s \in Sessions
  PROVE  RememberLog(Remembered(kind, s), Len(log)) /\ Values(kind, s) \in Seq(Nat)
<1>1. log \in Seq(Entry)
  BY DEF CancelTypes
<1>2. Remembered(kind, s) = OfSet(log, kind, s)
  BY DEF Remembered, Logged, OfSet
<1>3. RememberLog(Remembered(kind, s), Len(log))
  BY <1>1, <1>2, EntriesOfSet
<1> QED
  BY <1>3 DEF CancelTypes, Values

(* An identity is remembered in one set. *)
LEMMA LogGrows ==
  ASSUME CancelTypes, NEW e \in Entry, log' = Append(log, e), NEW kind \in Kinds, NEW s \in Sessions
  PROVE  /\ log' \in Seq(Entry) /\ Len(log') = Len(log) + 1
         /\ \A i \in 1 .. Len(log) : Logged(i, kind, s)' = Logged(i, kind, s)
         /\ Extends(Remembered(kind, s)', Remembered(kind, s), Len(log))
         /\ Remembered(kind, s)'[Len(log) + 1] = IF e.kind = kind /\ e.session = s THEN {e.value} ELSE {}
<1>1. log \in Seq(Entry)
  BY DEF CancelTypes
<1>2. PICK n \in Nat : n = Len(log)
  BY <1>1, LenProperties
<1>3. log' \in Seq(Entry) /\ Len(log') = n + 1 /\ (\A i \in 1 .. n : log'[i] = log[i]) /\ log'[n + 1] = e
  <2> HIDE DEF Entry
  <2> QED
    BY <1>1, <1>2, AppendProperties
<1>4. PICK L : L = Remembered(kind, s)
  OBVIOUS
<1>5. PICK M : M = Remembered(kind, s)'
  OBVIOUS
<1>6. L = OfSet(log, kind, s)
  BY <1>4 DEF Remembered, Logged, OfSet
<1>7. M = OfSet(log', kind, s)
  BY <1>5 DEF Remembered, Logged, OfSet
<1>8. RememberLog(L, n)
  BY <1>1, <1>2, <1>6, EntriesOfSet
<1>9. RememberLog(M, n + 1)
  BY <1>3, <1>7, EntriesOfSet
<1>10. \A i \in 1 .. n : i \in 1 .. (n + 1)
  BY <1>2
<1>11. \A i \in 1 .. n : M[i] = L[i]
  BY <1>2, <1>3, <1>6, <1>7, <1>10 DEF OfSet
<1>12. M[n + 1] = IF e.kind = kind /\ e.session = s THEN {e.value} ELSE {}
  <2>1. n + 1 \in 1 .. (n + 1)
    BY <1>2
  <2> QED
    BY <1>3, <1>7, <2>1 DEF OfSet
<1>13. \A i \in 1 .. n : Logged(i, kind, s)' = Logged(i, kind, s)
  BY <1>3 DEF Logged
<1> QED
  BY <1>2, <1>3, <1>4, <1>5, <1>8, <1>9, <1>11, <1>12, <1>13 DEF Extends

\* A thread that a step leaves alone.
Same(t) ==
  /\ pc'[t] = pc[t] /\ arg'[t] = arg[t] /\ todo'[t] = todo[t] /\ seen'[t] = seen[t]
  /\ t \in detached' <=> t \in detached

(* The threads in the loop over a set, when none comes, goes or moves. *)
LEMMA LoopingStays ==
  ASSUME NEW kind, NEW s, \A t \in Threads : Same(t) \/ (~Trims(t, kind, s) /\ ~Trims(t, kind, s)')
  PROVE  Looping(kind, s)' = Looping(kind, s)
<1>1. ASSUME NEW t \in Threads PROVE Place(t, kind, s)' = Place(t, kind, s)
  <2>1. CASE Same(t)
    BY <2>1 DEF Same, Place, Trims
  <2>2. CASE ~Trims(t, kind, s) /\ ~Trims(t, kind, s)'
    BY <2>2 DEF Place
  <2> QED
    BY <2>1, <2>2
<1> QED
  BY <1>1 DEF Looping

(* A set that nobody touches. *)
LEMMA SetStays ==
  ASSUME NEW kind \in Kinds, NEW s \in Sessions, SetHolds(kind, s),
         Values(kind, s)' = Values(kind, s), UNCHANGED <<log, cleared>>,
         Looping(kind, s)' = Looping(kind, s)
  PROVE  SetHolds(kind, s)'
<1>1. Remembered(kind, s)' = Remembered(kind, s)
  BY DEF Remembered, Logged
<1> QED
  BY <1>1 DEF SetHolds

(* A thread moves in the loop over a set, which stays as it is. *)
LEMMA SetMoves ==
  ASSUME CancelTypes, NEW kind \in Kinds, NEW s \in Sessions, SetHolds(kind, s),
         NEW x, x = Values(kind, s), Values(kind, s)' = Values(kind, s), UNCHANGED <<log, cleared>>,
         NEW t \in Threads, \A u \in Threads \ {t} : Same(u),
         NEW r, r = Place(t, kind, s)',
         Len(x) > Limit /\ Fresh(x, Place(t, kind, s)) => Fresh(x, r),
         Len(x) > Limit \/ (r.at \in {"iterate", "oldest", "pop"} =>
                              Place(t, kind, s).at \in {"iterate", "oldest", "pop"}),
         r.at = "pop" => x # <<>> /\ r.seen = x[1]
  PROVE  SetHolds(kind, s)'
<1>1. PICK n : n = Len(log)
  OBVIOUS
<1>2. PICK L : L = Remembered(kind, s)
  OBVIOUS
<1>3. PICK w : w = Looping(kind, s)
  OBVIOUS
<1>4. PICK w2 : w2 = Looping(kind, s)'
  OBVIOUS
<1>5. Remembered(kind, s)' = L
  BY <1>2 DEF Remembered, Logged
<1>6. x \in Seq(Nat)
  BY RememberedLog
<1>7. \A u \in Threads \ {t} : w2[u] = w[u]
  BY <1>3, <1>4 DEF Looping, Same, Place, Trims
<1>8. w[t] = Place(t, kind, s) /\ w2[t] = r
  BY <1>3, <1>4 DEF Looping
<1>9. SetKept(x, L, n, w) /\ (~cleared => RecentKept(x, L, n, w))
  BY <1>1, <1>2, <1>3 DEF SetHolds
<1>10. Len(x) > Limit \/ (t \in Committed(w2) => t \in Committed(w))
  BY <1>8 DEF Committed
<1>11. SetKept(x, L, n, w2) /\ (RecentKept(x, L, n, w) => RecentKept(x, L, n, w2))
  <2>1. Len(x) > Limit /\ Fresh(x, w[t]) => Fresh(x, w2[t])
    BY <1>8
  <2>2. w2[t].at = "pop" => x # <<>> /\ w2[t].seen = x[1]
    BY <1>8
  <2>3. SetKept(x, L, n, w)
    BY <1>9
  <2> QED
    BY <1>6, <1>7, <1>10, <2>1, <2>2, <2>3, MoveKeepsSet
<1> QED
  BY <1>1, <1>4, <1>5, <1>9, <1>11 DEF SetHolds

(* A thread pops the value it has read. *)
LEMMA SetPopped ==
  ASSUME CancelTypes, NEW kind \in Kinds, NEW s \in Sessions, SetHolds(kind, s),
         UNCHANGED <<log, cleared>>, NEW t \in Threads, \A u \in Threads \ {t} : Same(u),
         NEW k, k = seen[t], k \in Elems(Values(kind, s)), Values(kind, s)' = Popped(Values(kind, s), k),
         Trims(t, kind, s), pc[t] = "pop", Trims(t, kind, s)', pc'[t] = "trim"
  PROVE  SetHolds(kind, s)'
<1>1. PICK n : n = Len(log)
  OBVIOUS
<1>2. PICK L : L = Remembered(kind, s)
  OBVIOUS
<1>3. PICK w : w = Looping(kind, s)
  OBVIOUS
<1>4. PICK w2 : w2 = Looping(kind, s)'
  OBVIOUS
<1>5. Remembered(kind, s)' = L
  BY <1>2 DEF Remembered, Logged
<1>6. PICK x : x = Values(kind, s)
  OBVIOUS
<1>7. PICK y : y = Values(kind, s)'
  OBVIOUS
<1>8. x \in Seq(Nat) /\ RememberLog(L, n)
  BY <1>1, <1>2, <1>6, RememberedLog
<1>9. \A u \in Threads \ {t} : w2[u] = w[u]
  BY <1>3, <1>4 DEF Looping, Same, Place, Trims
<1>10. w[t].at = "pop" /\ w[t].seen = k /\ w2[t].at = "trim"
  BY <1>3, <1>4 DEF Looping, Place
<1>11. SetKept(x, L, n, w) /\ (~cleared => RecentKept(x, L, n, w))
  BY <1>1, <1>2, <1>3, <1>6 DEF SetHolds
<1>12. y = Popped(x, w[t].seen) /\ w[t].seen \in Elems(x)
  BY <1>6, <1>7, <1>10
<1>13. SetKept(y, L, n, w2) /\ (RecentKept(x, L, n, w) => RecentKept(y, L, n, w2))
  BY <1>8, <1>9, <1>10, <1>11, <1>12, PopKeepsSet
<1> QED
  BY <1>1, <1>4, <1>5, <1>7, <1>11, <1>13 DEF SetHolds

(* A thread remembers an identity in a set, or in another one. *)
LEMMA SetInserted ==
  ASSUME CancelTypes, NEW kind \in Kinds, NEW s \in Sessions, SetHolds(kind, s),
         NEW e \in Entry, log' = Append(log, e), UNCHANGED cleared,
         NEW t \in Threads, \A u \in Threads \ {t} : Same(u), ~Trims(t, kind, s),
         \/ /\ e.kind = kind /\ e.session = s /\ Values(kind, s)' = Inserted(Values(kind, s), e.value)
            /\ Trims(t, kind, s)' /\ pc'[t] = "trim"
         \/ /\ ~(e.kind = kind /\ e.session = s) /\ Values(kind, s)' = Values(kind, s)
            /\ ~Trims(t, kind, s)'
  PROVE  SetHolds(kind, s)'
<1>1. PICK n : n = Len(log)
  OBVIOUS
<1>2. PICK L : L = Remembered(kind, s)
  OBVIOUS
<1>3. PICK w : w = Looping(kind, s)
  OBVIOUS
<1>4. PICK w2 : w2 = Looping(kind, s)'
  OBVIOUS
<1>5. PICK M : M = Remembered(kind, s)'
  OBVIOUS
<1>6. PICK x : x = Values(kind, s)
  OBVIOUS
<1>7. PICK y : y = Values(kind, s)'
  OBVIOUS
<1>8. x \in Seq(Nat)
  BY <1>6, RememberedLog
<1>9. /\ Extends(M, L, n) /\ Len(log') = n + 1
      /\ M[n + 1] = IF e.kind = kind /\ e.session = s THEN {e.value} ELSE {}
  BY <1>1, <1>2, <1>5, LogGrows
<1>10. \A u \in Threads \ {t} : w2[u] = w[u]
  BY <1>3, <1>4 DEF Looping, Same, Place, Trims
<1>11. SetKept(x, L, n, w) /\ (~cleared => RecentKept(x, L, n, w))
  BY <1>1, <1>2, <1>3, <1>6 DEF SetHolds
<1>12. SetKept(y, M, n + 1, w2) /\ (RecentKept(x, L, n, w) => RecentKept(y, M, n + 1, w2))
  <2>1. CASE /\ e.kind = kind /\ e.session = s /\ Values(kind, s)' = Inserted(Values(kind, s), e.value)
             /\ Trims(t, kind, s)' /\ pc'[t] = "trim"
    <3>1. w[t].at = "away" /\ w2[t].at = "trim"
      BY <1>3, <1>4, <2>1 DEF Looping, Place
    <3>2. M[n + 1] = {e.value} /\ y = Inserted(x, e.value)
      BY <1>6, <1>7, <1>9, <2>1
    <3>3. e.value \in Nat
      BY DEF Entry
    <3> QED
      BY <1>8, <1>9, <1>10, <1>11, <3>1, <3>2, <3>3, InsertKeepsSet
  <2>2. CASE ~(e.kind = kind /\ e.session = s) /\ Values(kind, s)' = Values(kind, s) /\ ~Trims(t, kind, s)'
    <3>1. w2 = w
      <4>1. Looping(kind, s)' = Looping(kind, s)
        BY <2>2, LoopingStays
      <4> QED
        BY <1>3, <1>4, <4>1
    <3>2. M[n + 1] = {} /\ y = x
      BY <1>6, <1>7, <1>9, <2>2
    <3> QED
      BY <1>8, <1>9, <1>11, <3>1, <3>2, OtherSetKept
  <2> QED
    BY <2>1, <2>2
<1> QED
  BY <1>1, <1>4, <1>5, <1>7, <1>9, <1>11, <1>12 DEF SetHolds

(* A set is over its limit only while somebody trims it. *)
LEMMA KeptAreTrimmed == SetsKept => SetsTrimmed
<1> SUFFICES ASSUME SetsKept, NEW kind \in Kinds, NEW s \in Sessions, Len(Values(kind, s)) > Limit
             PROVE  \E t \in Threads : Trims(t, kind, s)
  BY DEF SetsTrimmed
<1>1. PICK t \in Threads : Fresh(Values(kind, s), Looping(kind, s)[t])
  BY DEF SetsKept, SetHolds, SetKept, Trimmed
<1>2. Looping(kind, s)[t].at # "away"
  BY <1>1 DEF Fresh
<1>3. Looping(kind, s)[t] = Place(t, kind, s)
  BY DEF Looping
<1> QED
  BY <1>2, <1>3 DEF Place

-----------------------------------------------------------------------------
(* The callers. *)
Points == {"idle", "opening", "lock", "polling", "closing", "insert"} \cup Kinds \cup Trimming
Args == Ops \cup {NoOp} \cup {c.op : c \in Cancels}

CallerTypes ==
  /\ result \in [Ops -> {"none", "submitted", "taken"}] /\ got \subseteq Ops /\ dropped \subseteq Ops
  /\ pc \in [Threads -> Points] /\ arg \in [Threads -> Args]
  /\ todo \in [Threads -> Cancelling \cup {<<>>}] /\ seen \in [Threads -> Nat]
  /\ detached \subseteq {t \in Threads : pc[t] \in Trimming}

\* What a thread in the middle of a call is about.
ArgsKnown ==
  \A t \in Threads :
    /\ pc[t] \in {"lock", "polling"} \cup Kinds => arg[t] \in Ops
    /\ pc[t] \in {"insert"} \cup Trimming => arg[t] \in Op /\ todo[t] \in Cancelling

CallerPart == CallerTypes /\ ArgsKnown

(* What the cancellations and the operations are. *)
LEMMA OpTypes ==
  /\ Ops \subseteq Op
  /\ \A c \in Cancels : c.op \in Op /\ c.how \in Cancelling /\ c.op \in Args
  /\ NoOp \in Args /\ Ops \subseteq Args
BY OpsAssumption DEF Args

(* The kinds that are still to remember. *)
LEMMA KindsToDo ==
  ASSUME NEW h \in Cancelling
  PROVE  /\ Head(h) \in Kinds /\ Tail(h) \in Cancelling \cup {<<>>}
         /\ Len(h) > 1 => Tail(h) \in Cancelling
<1>1. CASE h = <<"frame">>
  <2>1. Head(h) = "frame" /\ Tail(h) = <<>> /\ Len(h) = 1
    BY <1>1
  <2> QED
    BY <2>1 DEF Kinds
<1>2. CASE h = <<"operation">>
  <2>1. Head(h) = "operation" /\ Tail(h) = <<>> /\ Len(h) = 1
    BY <1>2
  <2> QED
    BY <2>1 DEF Kinds
<1>3. CASE h = <<"frame", "operation">>
  <2>1. Head(h) = "frame" /\ Tail(h) = <<"operation">>
    BY <1>3
  <2> QED
    BY <2>1 DEF Kinds, Cancelling
<1> QED
  BY <1>1, <1>2, <1>3 DEF Cancelling

\* A step that moves no thread but t.
Moves(t) ==
  /\ pc' = [pc EXCEPT ![t] = pc'[t]] /\ arg' = [arg EXCEPT ![t] = arg'[t]]
  /\ todo' = [todo EXCEPT ![t] = todo'[t]] /\ seen' = [seen EXCEPT ![t] = seen'[t]]
  /\ detached' = detached \ {t}

(* The other threads stay where they are. *)
LEMMA OthersSame ==
  ASSUME CallerPart, NEW t \in Threads, Moves(t)
  PROVE  \A u \in Threads \ {t} : Same(u)
<1>1. DOMAIN pc = Threads /\ DOMAIN arg = Threads /\ DOMAIN todo = Threads /\ DOMAIN seen = Threads
  BY DEF CallerPart, CallerTypes
<1> QED
  BY <1>1 DEF Moves, Same

\* Where t is and what it is about.
Knows(t) ==
  /\ pc[t] \in Points /\ arg[t] \in Args /\ todo[t] \in Cancelling \cup {<<>>} /\ seen[t] \in Nat
  /\ pc[t] \in {"lock", "polling"} \cup Kinds => arg[t] \in Ops
  /\ pc[t] \in {"insert"} \cup Trimming => arg[t] \in Op /\ todo[t] \in Cancelling

(* Every thread is somewhere. *)
LEMMA AllKnow == CallerPart => \A t \in Threads : Knows(t)
BY DEF CallerPart, CallerTypes, ArgsKnown, Knows

(* A thread that moves to where it knows what it is about. *)
LEMMA CallerMoves ==
  ASSUME CallerPart, NEW t \in Threads, Moves(t), Knows(t)',
         result' \in [Ops -> {"none", "submitted", "taken"}], got' \subseteq Ops, dropped' \subseteq Ops
  PROVE  CallerPart'
<1>1. /\ pc \in [Threads -> Points] /\ arg \in [Threads -> Args] /\ seen \in [Threads -> Nat]
      /\ todo \in [Threads -> Cancelling \cup {<<>>}]
      /\ detached \subseteq {u \in Threads : pc[u] \in Trimming}
  BY DEF CallerPart, CallerTypes
<1>2. /\ pc'[t] \in Points /\ arg'[t] \in Args /\ todo'[t] \in Cancelling \cup {<<>>} /\ seen'[t] \in Nat
  BY DEF Knows
<1> HIDE DEF Points, Args
<1>3. pc' \in [Threads -> Points] /\ arg' \in [Threads -> Args]
  BY <1>1, <1>2 DEF Moves
<1>4. seen' \in [Threads -> Nat] /\ todo' \in [Threads -> Cancelling \cup {<<>>}]
  <2>1. PICK T : T = Cancelling \cup {<<>>}
    OBVIOUS
  <2>2. todo \in [Threads -> T] /\ todo'[t] \in T
    BY <1>1, <1>2, <2>1
  <2>3. todo' \in [Threads -> T]
    BY <2>2 DEF Moves
  <2> QED
    BY <1>1, <1>2, <2>1, <2>3 DEF Moves
<1>5. \A u \in Threads \ {t} : Same(u)
  BY OthersSame
<1>6. detached' \subseteq {u \in Threads : pc'[u] \in Trimming}
  BY <1>1, <1>5 DEF Moves, Same
<1>7. CallerTypes'
  BY <1>3, <1>4, <1>6 DEF CallerTypes
<1>8. ArgsKnown'
  <2>1. ASSUME NEW u \in Threads
        PROVE  /\ pc'[u] \in {"lock", "polling"} \cup Kinds => arg'[u] \in Ops
               /\ pc'[u] \in {"insert"} \cup Trimming => arg'[u] \in Op /\ todo'[u] \in Cancelling
    <3>1. CASE u = t
      BY <3>1 DEF Knows
    <3>2. CASE u # t
      <4>1. pc'[u] = pc[u] /\ arg'[u] = arg[u] /\ todo'[u] = todo[u]
        BY <1>5, <3>2 DEF Same
      <4> QED
        BY <4>1 DEF CallerPart, ArgsKnown
    <3> QED
      BY <3>1, <3>2
  <2> QED
    BY <2>1 DEF ArgsKnown
<1> QED
  BY <1>7, <1>8 DEF CallerPart

(* A call outside the cancellations moves t. *)
LEMMA PlainMove ==
  ASSUME CallerPart, NEW t \in Threads, pc[t] \notin Trimming, UNCHANGED <<todo, seen, detached>>,
         NEW to, NEW o, pc' = [pc EXCEPT ![t] = to], arg' = [arg EXCEPT ![t] = o],
         to \in {"idle", "opening", "lock", "polling", "closing"} \cup Kinds, o \in Args,
         to \in {"lock", "polling"} \cup Kinds => o \in Ops
  PROVE  Moves(t) /\ Knows(t)'
<1>1. /\ pc \in [Threads -> Points] /\ arg \in [Threads -> Args] /\ seen \in [Threads -> Nat]
      /\ todo \in [Threads -> Cancelling \cup {<<>>}]
      /\ detached \subseteq {u \in Threads : pc[u] \in Trimming}
  BY DEF CallerPart, CallerTypes
<1>2. pc'[t] = to /\ arg'[t] = o /\ todo'[t] = todo[t] /\ seen'[t] = seen[t] /\ t \notin detached
  BY <1>1
<1>3. todo = [todo EXCEPT ![t] = todo[t]] /\ seen = [seen EXCEPT ![t] = seen[t]]
  BY <1>1
<1>4. Moves(t)
  <2>1. pc' = [pc EXCEPT ![t] = pc'[t]] /\ arg' = [arg EXCEPT ![t] = arg'[t]]
    BY <1>2
  <2>2. detached' = detached \ {t}
    BY <1>2
  <2> QED
    BY <1>2, <1>3, <2>1, <2>2 DEF Moves
<1>5. to \in Points /\ to \notin {"insert"} \cup Trimming
  BY DEF Points, Kinds, Trimming
<1>6. todo[t] \in Cancelling \cup {<<>>} /\ seen[t] \in Nat
  BY <1>1
<1> QED
  BY <1>2, <1>4, <1>5, <1>6 DEF Knows

\* The steps of a call that is no cancellation.
Plain(t) ==
  \/ OpenSession(t) \/ Close(t) \/ CancelOpen(t) \/ CloseReturn(t)
  \/ \E o \in Ops : PollResult(t, o) \/ SubmitAndPoll(t, o)
  \/ PollLock(t) \/ PollReturn(t) \/ PollCheck(t)

(* They touch no set, and move one thread. *)
LEMMA PlainSteps ==
  ASSUME CallerPart, NEW t \in Threads, Plain(t)
  PROVE  UNCHANGED cancelVars /\ Moves(t) /\ CallerPart' /\ pc[t] \notin Trimming /\ pc'[t] \notin Trimming
<1>1. /\ result \in [Ops -> {"none", "submitted", "taken"}] /\ got \subseteq Ops /\ dropped \subseteq Ops
      /\ arg \in [Threads -> Args] /\ DOMAIN pc = Threads
      /\ pc[t] \in {"lock", "polling"} \cup Kinds => arg[t] \in Ops
  BY DEF CallerPart, CallerTypes, ArgsKnown
<1>2. UNCHANGED cancelVars
  BY DEF Plain, OpenSession, Close, CancelOpen, CloseReturn, PollResult, SubmitAndPoll, PollLock, PollReturn,
         PollCheck
<1>3. UNCHANGED <<todo, seen, detached>>
  BY <1>2 DEF cancelVars
<1>4. pc[t] \in {"idle", "opening", "lock", "polling", "closing"} \cup Kinds
  BY DEF Plain, OpenSession, Close, CancelOpen, CloseReturn, PollResult, SubmitAndPoll, PollLock, PollReturn,
         PollCheck
<1>5. pc[t] \notin Trimming
  BY <1>4 DEF Trimming, Kinds
<1>6. ASSUME NEW to \in {"idle", "opening", "lock", "polling", "closing"} \cup Kinds, NEW o \in Args,
             to \in {"lock", "polling"} \cup Kinds => o \in Ops,
             pc' = [pc EXCEPT ![t] = to], arg' = [arg EXCEPT ![t] = o],
             result' \in [Ops -> {"none", "submitted", "taken"}], got' \subseteq Ops, dropped' \subseteq Ops
      PROVE  Moves(t) /\ CallerPart' /\ pc'[t] \notin Trimming
  <2>1. Moves(t) /\ Knows(t)'
    BY <1>3, <1>5, <1>6, PlainMove
  <2>2. pc'[t] = to /\ to \notin Trimming
    BY <1>1, <1>6 DEF Trimming, Kinds
  <2> QED
    BY <1>6, <2>1, <2>2, CallerMoves
<1>7. UNCHANGED arg => arg' = [arg EXCEPT ![t] = arg[t]] /\ arg[t] \in Args
  BY <1>1
<1>8. ASSUME End(t), result' \in [Ops -> {"none", "submitted", "taken"}], got' \subseteq Ops, dropped' \subseteq Ops
      PROVE  Moves(t) /\ CallerPart' /\ pc'[t] \notin Trimming
  <2>1. pc' = [pc EXCEPT ![t] = "idle"] /\ arg' = [arg EXCEPT ![t] = NoOp] /\ NoOp \in Args
    BY <1>8, OpTypes DEF End, Goto
  <2>2. "idle" \notin {"lock", "polling"} \cup Kinds
    BY DEF Kinds
  <2> QED
    BY <1>6, <1>8, <2>1, <2>2
<1>9. ASSUME NEW o \in Ops, Begin(t, o, "lock"), result' \in [Ops -> {"none", "submitted", "taken"}],
             UNCHANGED <<got, dropped>>
      PROVE  Moves(t) /\ CallerPart' /\ pc'[t] \notin Trimming
  <2>1. pc' = [pc EXCEPT ![t] = "lock"] /\ arg' = [arg EXCEPT ![t] = o] /\ o \in Args
    BY <1>9, OpTypes DEF Begin, Goto
  <2> QED
    BY <1>1, <1>6, <1>9, <2>1
<1>10. ASSUME NEW to \in {"opening", "closing", "polling"} \cup Kinds, Goto(t, to), UNCHANGED arg,
              to \in {"polling"} \cup Kinds => arg[t] \in Ops,
              result' \in [Ops -> {"none", "submitted", "taken"}], UNCHANGED <<got, dropped>>
       PROVE  Moves(t) /\ CallerPart' /\ pc'[t] \notin Trimming
  <2>1. pc' = [pc EXCEPT ![t] = to] /\ arg' = [arg EXCEPT ![t] = arg[t]] /\ arg[t] \in Args
    BY <1>7, <1>10 DEF Goto
  <2>2. to \in {"lock", "polling"} \cup Kinds => to \in {"polling"} \cup Kinds
    BY <1>10 DEF Kinds
  <2> QED
    BY <1>1, <1>6, <1>10, <2>1, <2>2
<1>11. CASE OpenSession(t) \/ Close(t)
  <2>1. /\ Goto(t, "opening") \/ Goto(t, "closing")
        /\ UNCHANGED <<arg, result, got, dropped>>
    BY <1>11 DEF OpenSession, Close, resultVars
  <2>2. {"opening", "closing"} \cap ({"polling"} \cup Kinds) = {}
    BY DEF Kinds
  <2> QED
    BY <1>1, <1>2, <1>5, <1>10, <2>1, <2>2
<1>12. CASE CancelOpen(t) \/ CloseReturn(t)
  <2>1. End(t) /\ UNCHANGED <<result, got, dropped>>
    BY <1>12 DEF CancelOpen, CloseReturn, resultVars
  <2> QED
    BY <1>1, <1>2, <1>5, <1>8, <2>1
<1>13. ASSUME NEW o \in Ops, PollResult(t, o) \/ SubmitAndPoll(t, o)
       PROVE  Moves(t) /\ CallerPart' /\ pc'[t] \notin Trimming
  <2>1. Begin(t, o, "lock") /\ UNCHANGED <<got, dropped>>
    BY <1>13 DEF PollResult, SubmitAndPoll, resultVars
  <2>2. result' \in [Ops -> {"none", "submitted", "taken"}]
    BY <1>1, <1>13 DEF PollResult, SubmitAndPoll, resultVars
  <2> QED
    BY <1>9, <2>1, <2>2
<1>14. CASE PollLock(t)
  <2>1. Goto(t, "polling") /\ arg[t] \in Ops /\ UNCHANGED <<arg, result, got, dropped>>
    BY <1>1, <1>14 DEF PollLock, resultVars
  <2> QED
    BY <1>1, <1>2, <1>5, <1>10, <2>1
<1>15. CASE PollReturn(t)
  <2>1. UNCHANGED <<got, dropped>> /\ arg[t] \in Ops
    BY <1>1, <1>15 DEF PollReturn
  <2>2. CASE result' = [result EXCEPT ![arg[t]] = "taken"] /\ Goto(t, "frame") /\ UNCHANGED arg
    <3>1. result' \in [Ops -> {"none", "submitted", "taken"}] /\ "frame" \in Kinds
      BY <1>1, <2>1, <2>2 DEF Kinds
    <3> QED
      BY <1>2, <1>5, <1>10, <2>1, <2>2, <3>1
  <2>3. CASE End(t) /\ UNCHANGED result
    BY <1>1, <1>2, <1>5, <1>8, <2>1, <2>3
  <2> QED
    BY <1>15, <2>2, <2>3 DEF PollReturn
<1>16. CASE PollCheck(t)
  <2>1. got' \subseteq Ops /\ dropped' \subseteq Ops /\ UNCHANGED result /\ arg[t] \in Ops
    BY <1>1, <1>16 DEF PollCheck
  <2>2. CASE End(t)
    BY <1>1, <1>2, <1>5, <1>8, <2>1, <2>2
  <2>3. CASE Goto(t, "operation") /\ UNCHANGED <<arg, got, dropped>>
    <3>1. "operation" \in Kinds
      BY DEF Kinds
    <3> QED
      BY <1>1, <1>2, <1>5, <1>10, <2>1, <2>3, <3>1
  <2> QED
    BY <1>16, <2>2, <2>3 DEF PollCheck
<1> QED
  BY <1>2, <1>5, <1>11, <1>12, <1>13, <1>14, <1>15, <1>16 DEF Plain

(* The steps that are no caller's keep the callers too. *)
LEMMA OtherStepsKeepCallers ==
  /\ Init => CallerPart
  /\ CallerPart /\ UNCHANGED <<cancelVars, resultVars, threadVars>> => CallerPart'
  /\ CallerPart /\ RoleOpen => CallerPart'
  /\ CallerPart /\ RoleClear => CallerPart'
  /\ CallerPart /\ (\E o \in Ops : Submit(o)) => CallerPart'
<1>1. "idle" \notin {"lock", "polling", "insert"} \cup Kinds \cup Trimming /\ "idle" \in Points
  BY DEF Kinds, Trimming, Points
<1>2. ASSUME Init PROVE CallerPart
  <2>1. /\ pc = [t \in Threads |-> "idle"] /\ arg = [t \in Threads |-> NoOp]
        /\ todo = [t \in Threads |-> <<>>] /\ seen = [t \in Threads |-> 0] /\ detached = {}
        /\ result = [o \in Ops |-> "none"] /\ got = {} /\ dropped = {}
    BY <1>2 DEF Init
  <2>2. CallerTypes
    BY <1>1, <2>1, OpTypes DEF CallerTypes
  <2>3. ArgsKnown
    BY <1>1, <2>1 DEF ArgsKnown
  <2> QED
    BY <2>2, <2>3 DEF CallerPart
<1>3. CallerPart /\ UNCHANGED <<cancelVars, resultVars, threadVars>> => CallerPart'
  BY DEF cancelVars, resultVars, threadVars, CallerPart, CallerTypes, ArgsKnown
<1>4. ASSUME CallerPart, RoleOpen PROVE CallerPart'
  <2>1. /\ UNCHANGED <<result, got, dropped, arg, todo, seen, detached>>
        /\ pc' = [t \in Threads |-> IF t = job.by /\ pc[t] = "opening" THEN "idle" ELSE pc[t]]
    BY <1>4 DEF RoleOpen, cancelVars, resultVars
  <2>2. "opening" \notin Trimming
    BY DEF Trimming
  <2>3. CallerTypes'
    BY <1>1, <1>4, <2>1, <2>2 DEF CallerPart, CallerTypes
  <2>4. ArgsKnown'
    BY <1>1, <1>4, <2>1 DEF CallerPart, ArgsKnown
  <2> QED
    BY <2>3, <2>4 DEF CallerPart
<1>5. ASSUME CallerPart, RoleClear PROVE CallerPart'
  <2>1. /\ UNCHANGED <<result, got, dropped, pc, arg, todo, seen>>
        /\ detached' = {t \in Threads : pc[t] \in Trimming}
    BY <1>5 DEF RoleClear, resultVars, threadVars
  <2> QED
    BY <1>5, <2>1 DEF CallerPart, CallerTypes, ArgsKnown
<1>6. ASSUME CallerPart, NEW o \in Ops, Submit(o) PROVE CallerPart'
  <2>1. UNCHANGED <<got, dropped, pc, arg, todo, seen, detached>> /\ result' = [result EXCEPT ![o] = "submitted"]
    BY <1>6 DEF Submit, threadVars, cancelVars
  <2>2. CallerTypes'
    BY <1>6, <2>1 DEF CallerPart, CallerTypes
  <2>3. ArgsKnown'
    BY <1>6, <2>1 DEF CallerPart, ArgsKnown
  <2> QED
    BY <2>2, <2>3 DEF CallerPart
<1> QED
  BY <1>2, <1>3, <1>4, <1>5, <1>6

-----------------------------------------------------------------------------
(* The cancellations, one step at a time. *)

(* The sets stay when nobody in a loop over them moves. *)
LEMMA SetsStay ==
  ASSUME SetsKept, UNCHANGED <<frames, operations, log, cleared>>,
         \A t \in Threads : Same(t) \/ ((pc[t] \in Trimming => t \in detached)
                                          /\ (pc'[t] \in Trimming => t \in detached'))
  PROVE  SetsKept'
<1>1. ASSUME NEW kind \in Kinds, NEW s \in Sessions PROVE SetHolds(kind, s)'
  <2>1. Values(kind, s)' = Values(kind, s)
    BY DEF Values
  <2>2. Looping(kind, s)' = Looping(kind, s)
    <3>1. \A t \in Threads : Same(t) \/ (~Trims(t, kind, s) /\ ~Trims(t, kind, s)')
      BY DEF Trims
    <3> QED
      BY <3>1, LoopingStays
  <2>3. SetHolds(kind, s)
    BY DEF SetsKept
  <2> QED
    BY <2>1, <2>2, <2>3, SetStays
<1> QED
  BY <1>1 DEF SetsKept

(* A set in which t does not work. *)
LEMMA OtherSet ==
  ASSUME CallerPart, NEW t \in Threads, Moves(t), UNCHANGED <<log, cleared>>,
         NEW kind \in Kinds, NEW s \in Sessions, SetHolds(kind, s), Values(kind, s)' = Values(kind, s),
         ~(kind = Head(todo[t]) /\ s = arg[t].session),
         pc'[t] \in Trimming => todo'[t] = todo[t] /\ arg'[t] = arg[t]
  PROVE  SetHolds(kind, s)'
<1>1. ~Trims(t, kind, s) /\ ~Trims(t, kind, s)'
  BY DEF Trims
<1>2. \A u \in Threads : Same(u) \/ (~Trims(u, kind, s) /\ ~Trims(u, kind, s)')
  BY <1>1, OthersSame
<1>3. Looping(kind, s)' = Looping(kind, s)
  BY <1>2, LoopingStays
<1> QED
  BY <1>3, SetStays

\* Where t is in its loop, after a step.
Reached(t) ==
  IF pc[t] \in Trimming THEN [at |-> pc[t], seen |-> seen[t]] ELSE [at |-> "away", seen |-> 0]

(* t moves in the loop over its set, which stays as it is. *)
LEMMA LoopStep ==
  ASSUME CancelPart, CallerPart, NEW t \in Threads, pc[t] \in Trimming, t \notin detached, Moves(t),
         UNCHANGED <<frames, operations, log, cleared>>,
         pc'[t] \in Trimming => todo'[t] = todo[t] /\ arg'[t] = arg[t],
         NEW x, x = SetOf(t), NEW r, r = Reached(t)',
         Len(x) > Limit /\ Fresh(x, Reached(t)) => Fresh(x, r),
         Len(x) > Limit \/ (r.at \in {"iterate", "oldest", "pop"} => pc[t] \in {"iterate", "oldest", "pop"}),
         r.at = "pop" => x # <<>> /\ r.seen = x[1]
  PROVE  SetsKept'
<1>1. arg[t] \in Op /\ todo[t] \in Cancelling
  BY DEF CallerPart, ArgsKnown
<1>2. PICK k \in Kinds : k = Head(todo[t])
  BY <1>1, KindsToDo
<1>3. PICK a \in Sessions : a = arg[t].session
  BY <1>1 DEF Op
<1>4. \A kind \in Kinds, s \in Sessions : Values(kind, s)' = Values(kind, s)
  BY DEF Values
<1>5. SetHolds(k, a)'
  <2>1. x = Values(k, a) /\ SetHolds(k, a)
    BY <1>2, <1>3 DEF SetOf, CancelPart, SetsKept
  <2>2. Place(t, k, a) = Reached(t) /\ Reached(t).at = pc[t]
    BY <1>2, <1>3 DEF Place, Trims, Reached
  <2>3. r = Place(t, k, a)'
    <3>1. t \notin detached'
      BY DEF Moves
    <3>2. pc'[t] \in Trimming <=> Trims(t, k, a)'
      BY <1>2, <1>3, <3>1 DEF Trims
    <3> QED
      BY <3>2 DEF Place, Reached
  <2>4. \A u \in Threads \ {t} : Same(u)
    BY OthersSame
  <2>5. Len(x) > Limit /\ Fresh(x, Place(t, k, a)) => Fresh(x, r)
    BY <2>2
  <2>6. Len(x) > Limit \/ (r.at \in {"iterate", "oldest", "pop"} => Place(t, k, a).at \in {"iterate", "oldest", "pop"})
    BY <2>2
  <2>7. Values(k, a)' = Values(k, a) /\ CancelTypes
    BY <1>4 DEF CancelPart
  <2> QED
    BY <2>1, <2>3, <2>4, <2>5, <2>6, <2>7, SetMoves
<1>6. ASSUME NEW kind \in Kinds, NEW s \in Sessions, ~(kind = k /\ s = a) PROVE SetHolds(kind, s)'
  <2>1. SetHolds(kind, s) /\ Values(kind, s)' = Values(kind, s)
    BY <1>4 DEF CancelPart, SetsKept
  <2> QED
    BY <1>2, <1>3, <1>6, <2>1, OtherSet
<1> QED
  BY <1>5, <1>6 DEF SetsKept

(* What becomes of the sets when t changes its own. *)
LEMMA SetBecomesThat ==
  ASSUME CancelTypes, NEW t \in Threads, Head(todo[t]) \in Kinds, arg[t].session \in Sessions,
         NEW x \in Seq(Nat), SetBecomes(t, x)
  PROVE  /\ frames' \in [Sessions -> Seq(Nat)] /\ operations' \in [Sessions -> Seq(Nat)]
         /\ \A kind \in Kinds, s \in Sessions :
              Values(kind, s)' = IF kind = Head(todo[t]) /\ s = arg[t].session THEN x ELSE Values(kind, s)
<1>1. PICK k \in Kinds : k = Head(todo[t])
  OBVIOUS
<1>2. PICK a \in Sessions : a = arg[t].session
  OBVIOUS
<1>3. frames \in [Sessions -> Seq(Nat)] /\ operations \in [Sessions -> Seq(Nat)]
  BY DEF CancelTypes
<1>4. /\ frames' = IF k = "frame" THEN [frames EXCEPT ![a] = x] ELSE frames
      /\ operations' = IF k = "operation" THEN [operations EXCEPT ![a] = x] ELSE operations
  BY <1>1, <1>2 DEF SetBecomes
<1>5. k = "frame" \/ k = "operation"
  BY <1>1 DEF Kinds
<1>6. frames' \in [Sessions -> Seq(Nat)] /\ operations' \in [Sessions -> Seq(Nat)]
  BY <1>3, <1>4
<1>7. ASSUME NEW kind \in Kinds, NEW s \in Sessions
      PROVE  Values(kind, s)' = IF kind = k /\ s = a THEN x ELSE Values(kind, s)
  <2>1. CASE kind = "frame"
    <3>1. Values(kind, s) = frames[s] /\ Values(kind, s)' = frames'[s]
      BY <2>1 DEF Values
    <3> QED
      BY <1>3, <1>4, <1>5, <2>1, <3>1
  <2>2. CASE kind = "operation"
    <3>1. Values(kind, s) = operations[s] /\ Values(kind, s)' = operations'[s]
      BY <2>2 DEF Values
    <3> QED
      BY <1>3, <1>4, <1>5, <2>2, <3>1
  <2> QED
    BY <2>1, <2>2 DEF Kinds
<1> QED
  BY <1>1, <1>2, <1>6, <1>7

(* An identity is remembered, and the set has to be trimmed. *)
LEMMA InsertStep ==
  ASSUME CancelPart, CallerPart, NEW t \in Threads, RememberInsert(t)
  PROVE  CancelPart' /\ Moves(t) /\ Knows(t)'
<1>1. arg[t] \in Op /\ todo[t] \in Cancelling /\ pc[t] = "insert"
  BY DEF RememberInsert, CallerPart, ArgsKnown
<1>2. PICK k \in Kinds : k = Head(todo[t])
  BY <1>1, KindsToDo
<1>3. PICK a \in Sessions : a = arg[t].session
  BY <1>1 DEF Op
<1>4. PICK v \in Nat : v = ValueOf(t)
  BY <1>1 DEF Op, ValueOf, IdOf
<1>5. PICK e \in Entry : e = [kind |-> k, session |-> a, value |-> v]
  BY DEF Entry
<1>6. /\ SetBecomes(t, Inserted(Values(k, a), v)) /\ log' = Append(log, e)
      /\ pc' = [pc EXCEPT ![t] = "trim"] /\ UNCHANGED <<arg, todo, seen, detached, cleared>>
  BY <1>2, <1>3, <1>4, <1>5 DEF RememberInsert, SetOf, Goto
<1>7. CancelTypes /\ Values(k, a) \in Seq(Nat)
  BY RememberedLog DEF CancelPart
<1>8. Inserted(Values(k, a), v) \in Seq(Nat)
  BY <1>7, AppendProperties DEF Inserted
<1>9. /\ frames' \in [Sessions -> Seq(Nat)] /\ operations' \in [Sessions -> Seq(Nat)]
      /\ \A kind \in Kinds, s \in Sessions :
           Values(kind, s)' = IF kind = k /\ s = a THEN Inserted(Values(k, a), v) ELSE Values(kind, s)
  BY <1>2, <1>3, <1>6, <1>7, <1>8, SetBecomesThat
<1>10. /\ pc \in [Threads -> Points] /\ arg \in [Threads -> Args] /\ seen \in [Threads -> Nat]
       /\ todo \in [Threads -> Cancelling \cup {<<>>}]
       /\ detached \subseteq {u \in Threads : pc[u] \in Trimming}
  BY DEF CallerPart, CallerTypes
<1>11. t \notin detached /\ "trim" \in Trimming /\ "insert" \notin Trimming /\ pc'[t] = "trim"
  BY <1>1, <1>6, <1>10 DEF Trimming
<1>12. Moves(t)
  <2>1. arg = [arg EXCEPT ![t] = arg[t]] /\ seen = [seen EXCEPT ![t] = seen[t]]
        /\ todo = [todo EXCEPT ![t] = todo[t]]
    BY <1>10
  <2> QED
    BY <1>6, <1>11, <2>1 DEF Moves
<1>13. Knows(t)'
  <2>1. "trim" \in Points /\ "trim" \notin {"lock", "polling"} \cup Kinds
    BY DEF Points, Trimming, Kinds
  <2> QED
    BY <1>1, <1>6, <1>10, <1>11, <2>1 DEF Knows
<1>14. \A u \in Threads \ {t} : Same(u)
  BY <1>12, OthersSame
<1>15. log' \in Seq(Entry)
  BY <1>6, <1>7, AppendProperties DEF CancelTypes
<1>16. CancelTypes'
  BY <1>9, <1>15 DEF CancelTypes
<1>17. ASSUME NEW kind \in Kinds, NEW s \in Sessions PROVE SetHolds(kind, s)'
  <2>1. SetHolds(kind, s)
    BY DEF CancelPart, SetsKept
  <2>2. ~Trims(t, kind, s)
    BY <1>1, <1>11 DEF Trims
  <2>3. e.kind = k /\ e.session = a /\ e.value = v
    BY <1>5
  <2>4. Trims(t, kind, s)' <=> kind = k /\ s = a
    BY <1>2, <1>3, <1>6, <1>11 DEF Trims
  <2>5. \/ /\ e.kind = kind /\ e.session = s /\ Values(kind, s)' = Inserted(Values(kind, s), e.value)
           /\ Trims(t, kind, s)' /\ pc'[t] = "trim"
        \/ /\ ~(e.kind = kind /\ e.session = s) /\ Values(kind, s)' = Values(kind, s)
           /\ ~Trims(t, kind, s)'
    BY <1>9, <1>11, <2>3, <2>4
  <2> QED
    BY <1>6, <1>7, <1>14, <2>1, <2>2, <2>5, SetInserted
<1> QED
  BY <1>12, <1>13, <1>16, <1>17 DEF CancelPart, SetsKept

(* A thread that stays in its loop. *)
LEMMA StayInLoop ==
  ASSUME CallerPart, NEW t \in Threads, pc[t] \in Trimming, t \notin detached,
         NEW to \in Trimming, Goto(t, to), UNCHANGED <<arg, todo, detached>>,
         NEW n \in Nat, seen' = [seen EXCEPT ![t] = n]
  PROVE  Moves(t) /\ Knows(t)' /\ pc'[t] = to /\ seen'[t] = n
<1>1. /\ pc \in [Threads -> Points] /\ arg \in [Threads -> Args] /\ seen \in [Threads -> Nat]
      /\ todo \in [Threads -> Cancelling \cup {<<>>}]
      /\ arg[t] \in Op /\ todo[t] \in Cancelling
  BY DEF CallerPart, CallerTypes, ArgsKnown
<1>2. pc' = [pc EXCEPT ![t] = to] /\ pc'[t] = to /\ seen'[t] = n
  BY <1>1 DEF Goto
<1>3. arg = [arg EXCEPT ![t] = arg[t]] /\ todo = [todo EXCEPT ![t] = todo[t]]
  BY <1>1
<1>4. Moves(t)
  BY <1>2, <1>3 DEF Moves
<1>5. to \in Points /\ to \notin {"lock", "polling"} \cup Kinds
  BY DEF Points, Trimming, Kinds
<1> QED
  BY <1>1, <1>2, <1>4, <1>5 DEF Knows

(* A thread that has ended its loop, or that raises. *)
LEMMA LeaveLoop ==
  ASSUME CallerPart, NEW t \in Threads, pc[t] \in Trimming,
         (NextKind(t) /\ (UNCHANGED seen \/ seen' = [seen EXCEPT ![t] = 0])) \/ Raise(t)
  PROVE  Moves(t) /\ Knows(t)' /\ pc'[t] \notin Trimming
<1>1. /\ pc \in [Threads -> Points] /\ arg \in [Threads -> Args] /\ seen \in [Threads -> Nat]
      /\ todo \in [Threads -> Cancelling \cup {<<>>}]
      /\ arg[t] \in Op /\ todo[t] \in Cancelling
  BY DEF CallerPart, CallerTypes, ArgsKnown
<1>2. PICK d : d = IF NextKind(t) THEN Tail(todo[t]) ELSE <<>>
  OBVIOUS
<1>3. d \in Cancelling \cup {<<>>} /\ (Len(todo[t]) > 1 /\ NextKind(t) => d \in Cancelling)
  BY <1>1, <1>2, KindsToDo
<1>4. todo' = [todo EXCEPT ![t] = d] /\ detached' = detached \ {t}
  <2>1. CASE NextKind(t)
    BY <1>2, <2>1 DEF NextKind
  <2>2. CASE ~NextKind(t)
    BY <1>2, <2>2 DEF Raise
  <2> QED
    BY <2>1, <2>2
<1>5. seen' = [seen EXCEPT ![t] = seen'[t]] /\ seen'[t] \in Nat
  <2>1. UNCHANGED seen \/ seen' = [seen EXCEPT ![t] = 0]
    BY DEF Raise
  <2> QED
    BY <1>1, <2>1
<1>6. \/ /\ pc' = [pc EXCEPT ![t] = "insert"] /\ arg' = arg /\ d \in Cancelling
      \/ pc' = [pc EXCEPT ![t] = "idle"] /\ arg' = [arg EXCEPT ![t] = NoOp]
  <2>1. CASE NextKind(t)
    BY <1>3, <2>1 DEF NextKind, Goto, End
  <2>2. CASE Raise(t)
    BY <2>2 DEF Raise, Goto, End
  <2> QED
    BY <2>1, <2>2
<1>7. todo' = [todo EXCEPT ![t] = todo'[t]] /\ todo'[t] = d
  BY <1>1, <1>4
<1>8. /\ {"insert", "idle"} \subseteq Points /\ NoOp \in Args
      /\ {"insert", "idle"} \cap ({"lock", "polling"} \cup Kinds \cup Trimming) = {}
  BY OpTypes DEF Points, Trimming, Kinds
<1>9. CASE pc' = [pc EXCEPT ![t] = "insert"] /\ arg' = arg /\ d \in Cancelling
  <2>1. arg' = [arg EXCEPT ![t] = arg'[t]] /\ arg'[t] = arg[t]
    BY <1>1, <1>9
  <2>2. pc' = [pc EXCEPT ![t] = pc'[t]] /\ pc'[t] = "insert"
    BY <1>1, <1>9
  <2>3. Moves(t)
    BY <1>4, <1>5, <1>7, <2>1, <2>2 DEF Moves
  <2> QED
    BY <1>1, <1>3, <1>5, <1>7, <1>8, <1>9, <2>1, <2>2, <2>3 DEF Knows
<1>10. CASE pc' = [pc EXCEPT ![t] = "idle"] /\ arg' = [arg EXCEPT ![t] = NoOp]
  <2>1. arg' = [arg EXCEPT ![t] = arg'[t]] /\ arg'[t] = NoOp
    BY <1>1, <1>10
  <2>2. pc' = [pc EXCEPT ![t] = pc'[t]] /\ pc'[t] = "idle"
    BY <1>1, <1>10
  <2>3. Moves(t)
    BY <1>4, <1>5, <1>7, <2>1, <2>2 DEF Moves
  <2>4. "idle" # "insert"
    OBVIOUS
  <2> QED
    BY <1>1, <1>3, <1>5, <1>7, <1>8, <2>1, <2>2, <2>3, <2>4 DEF Knows
<1> QED
  BY <1>6, <1>9, <1>10

(* The set a thread works on is a list of values. *)
LEMMA OwnSet ==
  ASSUME CancelPart, CallerPart, NEW t \in Threads, pc[t] \in Trimming
  PROVE  /\ arg[t].session \in Sessions /\ Head(todo[t]) \in Kinds
         /\ SetOf(t) \in Seq(Nat) /\ Len(SetOf(t)) \in Nat
         /\ SetOf(t) # <<>> => Head(SetOf(t)) = SetOf(t)[1] /\ SetOf(t)[1] \in Nat /\ SetOf(t)[1] \in Elems(SetOf(t))
<1>1. arg[t] \in Op /\ todo[t] \in Cancelling
  BY DEF CallerPart, ArgsKnown
<1>2. arg[t].session \in Sessions /\ Head(todo[t]) \in Kinds
  BY <1>1, KindsToDo DEF Op
<1>3. PICK x : x = SetOf(t)
  OBVIOUS
<1>4. x \in Seq(Nat)
  BY <1>2, <1>3, RememberedLog DEF SetOf, CancelPart
<1>5. Len(x) \in Nat /\ DOMAIN x = 1 .. Len(x)
  BY <1>4, LenProperties
<1>6. ASSUME x # <<>> PROVE Head(x) = x[1] /\ x[1] \in Nat /\ x[1] \in Elems(x)
  <2>1. 1 \in DOMAIN x
    <3>1. Len(x) # 0
      BY <1>4, <1>6, EmptySeq
    <3> QED
      BY <1>5, <3>1
  <2>2. Head(x) = x[1]
    BY <1>4, <1>6, HeadTailProperties
  <2> QED
    BY <1>4, <1>5, <2>1, <2>2 DEF Elems
<1> QED
  BY <1>2, <1>3, <1>4, <1>5, <1>6

(* The size of the set is looked at. *)
LEMMA TrimStep ==
  ASSUME CancelPart, CallerPart, NEW t \in Threads, RememberTrim(t)
  PROVE  SetsKept' /\ Moves(t) /\ Knows(t)'
<1>1. pc[t] = "trim" /\ t \notin detached /\ UNCHANGED <<frames, operations, log, cleared, seen>>
  BY DEF RememberTrim, LoopUnchanged
<1>2. pc[t] \in Trimming /\ Reached(t) = [at |-> "trim", seen |-> seen[t]]
  BY <1>1 DEF Trimming, Reached
<1>3. PICK x : x = SetOf(t)
  OBVIOUS
<1>4. PICK r : r = Reached(t)'
  OBVIOUS
<1>5. Len(x) \in Nat /\ seen[t] \in Nat /\ seen = [seen EXCEPT ![t] = seen[t]]
  BY <1>2, <1>3, OwnSet DEF CallerPart, CallerTypes
<1>6. CASE Len(SetOf(t)) > Limit /\ Goto(t, "iterate") /\ UNCHANGED <<arg, todo, detached>>
  <2>1. "iterate" \in Trimming
    BY DEF Trimming
  <2>2. Moves(t) /\ Knows(t)' /\ pc'[t] = "iterate"
    BY <1>1, <1>2, <1>5, <1>6, <2>1, StayInLoop
  <2>3. r.at = "iterate"
    BY <1>4, <2>1, <2>2 DEF Reached
  <2>4. Fresh(x, r) /\ Len(x) > Limit /\ r.at # "pop"
    BY <1>3, <1>6, <2>3 DEF Fresh
  <2> QED
    BY <1>1, <1>2, <1>3, <1>4, <1>6, <2>2, <2>4, LoopStep
<1>7. CASE Len(SetOf(t)) <= Limit /\ NextKind(t)
  <2>1. Moves(t) /\ Knows(t)' /\ pc'[t] \notin Trimming
    BY <1>1, <1>2, <1>7, LeaveLoop
  <2>2. r.at = "away"
    BY <1>4, <2>1 DEF Reached
  <2>3. ~(Len(x) > Limit)
    BY <1>3, <1>5, <1>7, Numbers
  <2>4. r.at \notin {"iterate", "oldest", "pop"}
    BY <2>2
  <2> QED
    BY <1>1, <1>2, <1>3, <1>4, <2>1, <2>3, <2>4, LoopStep
<1> QED
  BY <1>6, <1>7 DEF RememberTrim

(* An iterator is made for the set. *)
LEMMA IterateStep ==
  ASSUME CancelPart, CallerPart, NEW t \in Threads, RememberIterate(t)
  PROVE  SetsKept' /\ Moves(t) /\ Knows(t)'
<1>1. pc[t] = "iterate" /\ t \notin detached /\ UNCHANGED <<frames, operations, log, cleared, arg, todo, detached>>
  BY DEF RememberIterate, LoopUnchanged
<1>2. pc[t] \in Trimming /\ "oldest" \in Trimming
  BY <1>1 DEF Trimming
<1>3. PICK x : x = SetOf(t)
  OBVIOUS
<1>4. PICK r : r = Reached(t)'
  OBVIOUS
<1>5. Len(x) \in Nat /\ seen' = [seen EXCEPT ![t] = Len(x)] /\ Goto(t, "oldest")
  BY <1>2, <1>3, OwnSet DEF RememberIterate
<1>6. Moves(t) /\ Knows(t)' /\ pc'[t] = "oldest" /\ seen'[t] = Len(x)
  BY <1>1, <1>2, <1>5, StayInLoop
<1>7. r.at = "oldest" /\ r.seen = Len(x)
  BY <1>2, <1>4, <1>6 DEF Reached
<1>8. Fresh(x, r) /\ r.at # "pop"
  BY <1>7 DEF Fresh
<1>9. pc[t] \in {"iterate", "oldest", "pop"}
  BY <1>1
<1> QED
  BY <1>1, <1>2, <1>3, <1>4, <1>6, <1>8, <1>9, LoopStep

(* The oldest value is read, if the set has kept its size. *)
LEMMA OldestStep ==
  ASSUME CancelPart, CallerPart, NEW t \in Threads, RememberOldest(t)
  PROVE  SetsKept' /\ Moves(t) /\ Knows(t)'
<1>1. pc[t] = "oldest" /\ t \notin detached /\ UNCHANGED <<frames, operations, log, cleared>>
  BY DEF RememberOldest, LoopUnchanged
<1>2. pc[t] \in Trimming /\ "pop" \in Trimming /\ pc[t] \in {"iterate", "oldest", "pop"}
  BY <1>1 DEF Trimming
<1>3. PICK x : x = SetOf(t)
  OBVIOUS
<1>4. PICK r : r = Reached(t)'
  OBVIOUS
<1>5. /\ x \in Seq(Nat) /\ Len(x) \in Nat
      /\ x # <<>> => Head(x) = x[1] /\ x[1] \in Nat /\ x[1] \in Elems(x)
  BY <1>2, <1>3, OwnSet
<1>6. Reached(t) = [at |-> "oldest", seen |-> seen[t]]
  BY <1>1, <1>2 DEF Reached
<1>7. CASE x # <<>> /\ Len(x) = seen[t]
  <2>1. seen' = [seen EXCEPT ![t] = x[1]] /\ Goto(t, "pop") /\ UNCHANGED <<arg, todo, detached>>
    BY <1>3, <1>5, <1>7 DEF RememberOldest
  <2>2. Moves(t) /\ Knows(t)' /\ pc'[t] = "pop" /\ seen'[t] = x[1]
    BY <1>1, <1>2, <1>5, <1>7, <2>1, StayInLoop
  <2>3. r.at = "pop" /\ r.seen = x[1]
    BY <1>2, <1>4, <2>2 DEF Reached
  <2>4. Fresh(x, r)
    BY <1>5, <1>7, <2>3 DEF Fresh
  <2> QED
    BY <1>1, <1>2, <1>3, <1>4, <1>7, <2>1, <2>2, <2>3, <2>4, LoopStep
<1>8. CASE ~(x # <<>> /\ Len(x) = seen[t])
  <2>1. Raise(t)
    BY <1>3, <1>8 DEF RememberOldest
  <2>2. Moves(t) /\ Knows(t)' /\ pc'[t] \notin Trimming
    BY <1>2, <2>1, LeaveLoop
  <2>3. r.at = "away" /\ r.at # "pop" /\ r.at \notin {"iterate", "oldest", "pop"}
    BY <1>4, <2>2 DEF Reached
  <2>4. ~(Len(x) > Limit /\ Fresh(x, Reached(t)))
    <3>1. CASE x = <<>>
      <4>1. Len(x) = 0
        BY <3>1
      <4> QED
        BY <4>1, Numbers
    <3>2. CASE Len(x) # seen[t]
      BY <1>6, <3>2 DEF Fresh
    <3> QED
      BY <1>8, <3>1, <3>2
  <2> QED
    BY <1>1, <1>2, <1>3, <1>4, <2>2, <2>3, <2>4, LoopStep
<1> QED
  BY <1>7, <1>8

(* The value that was read is popped, unless another thread has popped it. *)
LEMMA PopStep ==
  ASSUME CancelPart, CallerPart, NEW t \in Threads, RememberPop(t)
  PROVE  CancelPart' /\ Moves(t) /\ Knows(t)'
<1>1. pc[t] = "pop" /\ t \notin detached /\ UNCHANGED <<log, cleared>>
  BY DEF RememberPop, LoopUnchanged
<1>2. pc[t] \in Trimming /\ "trim" \in Trimming
  BY <1>1 DEF Trimming
<1>3. PICK k \in Kinds : k = Head(todo[t])
  BY <1>2, OwnSet
<1>4. PICK a \in Sessions : a = arg[t].session
  BY <1>2, OwnSet
<1>5. PICK x \in Seq(Nat) : x = SetOf(t)
  BY <1>2, OwnSet
<1>6. x = Values(k, a) /\ SetHolds(k, a) /\ CancelTypes
  BY <1>3, <1>4, <1>5 DEF SetOf, CancelPart, SetsKept
<1>7. PICK v : v = seen[t]
  OBVIOUS
<1>8. seen[t] \in Elements(SetOf(t)) <=> v \in Elems(x)
  BY <1>5, <1>7 DEF Elements, Elems
<1>9. CASE v \in Elems(x)
  <2>1. PICK y : y = Popped(x, v)
    OBVIOUS
  <2>2. /\ SetBecomes(t, y) /\ seen' = [seen EXCEPT ![t] = 0] /\ Goto(t, "trim")
        /\ UNCHANGED <<arg, todo, detached>>
    BY <1>5, <1>7, <1>8, <1>9, <2>1 DEF RememberPop
  <2>3. Moves(t) /\ Knows(t)' /\ pc'[t] = "trim"
    BY <1>1, <1>2, <2>2, StayInLoop
  <2>4. y \in Seq(Nat)
    <3>1. \A p, q \in DOMAIN x : x[p] = x[q] => p = q
      BY <1>6 DEF SetHolds, SetKept, EachOnce
    <3> QED
      BY <1>9, <2>1, <3>1, PoppedShape
  <2>5. /\ frames' \in [Sessions -> Seq(Nat)] /\ operations' \in [Sessions -> Seq(Nat)]
        /\ \A kind \in Kinds, s \in Sessions :
             Values(kind, s)' = IF kind = k /\ s = a THEN y ELSE Values(kind, s)
    BY <1>3, <1>4, <1>6, <2>2, <2>4, SetBecomesThat
  <2>6. CancelTypes'
    BY <1>1, <1>6, <2>5 DEF CancelTypes
  <2>7. SetHolds(k, a)'
    <3>1. Trims(t, k, a) /\ Trims(t, k, a)'
      BY <1>1, <1>2, <1>3, <1>4, <2>2, <2>3 DEF Trims
    <3>2. \A u \in Threads \ {t} : Same(u)
      BY <2>3, OthersSame
    <3>3. Values(k, a)' = Popped(Values(k, a), v) /\ v \in Elems(Values(k, a))
      BY <1>6, <1>9, <2>1, <2>5
    <3> QED
      BY <1>1, <1>6, <1>7, <2>3, <3>1, <3>2, <3>3, SetPopped
  <2>8. ASSUME NEW kind \in Kinds, NEW s \in Sessions, ~(kind = k /\ s = a) PROVE SetHolds(kind, s)'
    <3>1. SetHolds(kind, s) /\ Values(kind, s)' = Values(kind, s)
      BY <2>5, <2>8 DEF CancelPart, SetsKept
    <3>2. todo'[t] = todo[t] /\ arg'[t] = arg[t]
      BY <2>2
    <3> QED
      BY <1>1, <1>3, <1>4, <2>3, <2>8, <3>1, <3>2, OtherSet
  <2> QED
    BY <2>3, <2>6, <2>7, <2>8 DEF CancelPart, SetsKept
<1>10. CASE v \notin Elems(x)
  <2>1. Raise(t) /\ UNCHANGED <<frames, operations>>
    BY <1>8, <1>10 DEF RememberPop
  <2>2. Moves(t) /\ Knows(t)' /\ pc'[t] \notin Trimming
    BY <1>2, <2>1, LeaveLoop
  <2>3. PICK r : r = Reached(t)'
    OBVIOUS
  <2>4. r.at = "away" /\ r.at # "pop" /\ r.at \notin {"iterate", "oldest", "pop"}
    BY <2>2, <2>3 DEF Reached
  <2>5. ~Fresh(x, Reached(t))
    BY <1>1, <1>2, <1>7, <1>10 DEF Fresh, Reached
  <2>6. SetsKept'
    BY <1>1, <1>2, <1>5, <2>1, <2>2, <2>3, <2>4, <2>5, LoopStep
  <2>7. CancelTypes'
    BY <1>1, <1>6, <2>1 DEF CancelTypes
  <2> QED
    BY <2>2, <2>6, <2>7 DEF CancelPart
<1> QED
  BY <1>9, <1>10

(* A cancellation is sent, or the loop over a set that close has taken away ends. *)
LEMMA AsideStep ==
  ASSUME CancelPart, CallerPart, NEW t \in Threads,
         RememberDetached(t) \/ \E c \in Cancels : CancelSend(t, c)
  PROVE  /\ SetsKept' /\ UNCHANGED <<frames, operations, log, cleared>> /\ Moves(t) /\ Knows(t)'
<1>1. ASSUME Moves(t), UNCHANGED <<frames, operations, log, cleared>>, pc[t] \in Trimming => t \in detached,
             pc'[t] \notin Trimming
      PROVE  SetsKept'
  <2>1. \A u \in Threads \ {t} : Same(u)
    BY <1>1, OthersSame
  <2>2. SetsKept
    BY DEF CancelPart
  <2> QED
    BY <1>1, <2>1, <2>2, SetsStay
<1>2. CASE RememberDetached(t)
  <2>1. pc[t] \in Trimming /\ t \in detached /\ UNCHANGED <<frames, operations, log, cleared>>
    BY <1>2 DEF RememberDetached, LoopUnchanged
  <2>2. Moves(t) /\ Knows(t)' /\ pc'[t] \notin Trimming
    <3>1. (NextKind(t) /\ seen' = [seen EXCEPT ![t] = 0]) \/ Raise(t)
      BY <1>2 DEF RememberDetached
    <3> QED
      BY <2>1, <3>1, LeaveLoop
  <2> QED
    BY <1>1, <2>1, <2>2
<1>3. ASSUME NEW c \in Cancels, CancelSend(t, c)
      PROVE  SetsKept' /\ UNCHANGED <<frames, operations, log, cleared>> /\ Moves(t) /\ Knows(t)'
  <2>1. /\ pc[t] = "idle" /\ pc' = [pc EXCEPT ![t] = "insert"] /\ arg' = [arg EXCEPT ![t] = c.op]
        /\ todo' = [todo EXCEPT ![t] = c.how] /\ UNCHANGED <<frames, operations, log, cleared, seen, detached>>
    BY <1>3 DEF CancelSend, Begin, Goto
  <2>2. /\ pc \in [Threads -> Points] /\ arg \in [Threads -> Args] /\ seen \in [Threads -> Nat]
        /\ todo \in [Threads -> Cancelling \cup {<<>>}]
        /\ detached \subseteq {u \in Threads : pc[u] \in Trimming}
    BY DEF CallerPart, CallerTypes
  <2>3. c.how \in Cancelling /\ c.op \in Op /\ c.op \in Args
    BY OpTypes
  <2>4. "insert" \notin Trimming \cup Kinds \cup {"lock", "polling"} /\ "idle" \notin Trimming /\ "insert" \in Points
    BY DEF Trimming, Kinds, Points
  <2>5. pc'[t] = "insert" /\ arg'[t] = c.op /\ todo'[t] = c.how /\ t \notin detached
    BY <2>1, <2>2, <2>4
  <2>6. seen = [seen EXCEPT ![t] = seen[t]]
    BY <2>2
  <2>7. Moves(t)
    BY <2>1, <2>5, <2>6 DEF Moves
  <2>8. Knows(t)'
    BY <2>1, <2>2, <2>3, <2>4, <2>5 DEF Knows
  <2> QED
    BY <1>1, <2>1, <2>4, <2>5, <2>7, <2>8
<1> QED
  BY <1>2, <1>3

\* The steps of a cancellation.
Cancel(t) == (\E c \in Cancels : CancelSend(t, c)) \/ Remember(t)

(* Every step of a cancellation keeps the sets and the callers. *)
LEMMA CancelSteps ==
  ASSUME CancelPart, CallerPart, NEW t \in Threads, Cancel(t)
  PROVE  CancelPart' /\ CallerPart' /\ UNCHANGED <<roleState, resultVars>> /\ Moves(t)
<1>1. UNCHANGED <<roleState, resultVars>>
  BY DEF Cancel, CancelSend, Remember, RememberInsert, RememberTrim, RememberIterate, RememberOldest, RememberPop,
         RememberDetached, LoopUnchanged, roleState
<1>2. CancelPart' /\ Moves(t) /\ Knows(t)'
  <2>1. CASE (\E c \in Cancels : CancelSend(t, c)) \/ RememberDetached(t)
    <3>1. SetsKept' /\ UNCHANGED <<frames, operations, log>> /\ Moves(t) /\ Knows(t)'
      BY <2>1, AsideStep
    <3> QED
      BY <3>1 DEF CancelPart, CancelTypes
  <2>2. CASE RememberInsert(t)
    BY <2>2, InsertStep
  <2>3. CASE RememberTrim(t) \/ RememberIterate(t) \/ RememberOldest(t)
    <3>1. SetsKept' /\ Moves(t) /\ Knows(t)'
      BY <2>3, TrimStep, IterateStep, OldestStep
    <3>2. UNCHANGED <<frames, operations, log>>
      BY <2>3 DEF RememberTrim, RememberIterate, RememberOldest, LoopUnchanged
    <3> QED
      BY <3>1, <3>2 DEF CancelPart, CancelTypes
  <2>4. CASE RememberPop(t)
    BY <2>4, PopStep
  <2> QED
    BY <2>1, <2>2, <2>3, <2>4 DEF Cancel, Remember
<1>3. UNCHANGED <<result, got, dropped>>
  BY <1>1 DEF resultVars
<1>4. result' \in [Ops -> {"none", "submitted", "taken"}] /\ got' \subseteq Ops /\ dropped' \subseteq Ops
  BY <1>3 DEF CallerPart, CallerTypes
<1>5. CallerPart'
  BY <1>2, <1>4, CallerMoves
<1> QED
  BY <1>1, <1>2, <1>5

-----------------------------------------------------------------------------
(* The steps that are no cancellation. *)

(* The sets are empty at first, and after close. *)
LEMMA EmptySetHolds ==
  ASSUME NEW L, NEW n, NEW w, \A t \in Threads : w[t].at = "away"
  PROVE  SetKept(<<>>, L, n, w) /\ HeldAreOld(<<>>, L, n, w)
<1>1. DOMAIN <<>> = {} /\ Len(<<>>) = 0 /\ Elems(<<>>) = {}
  BY EmptyList
<1>2. Committed(w) = {}
  BY DEF Committed
<1>3. EachOnce(<<>>, L, n)
  BY <1>1 DEF EachOnce
<1>4. Trimmed(<<>>, w)
  BY <1>1, Numbers DEF Trimmed
<1> QED
  BY <1>2, <1>3, <1>4 DEF SetKept, EnoughLeft, HeldAreOld

(* They are empty at first, and close empties them. *)
LEMMA EmptySetsKept ==
  /\ Init => CancelPart
  /\ CancelPart /\ CallerPart /\ RoleClear => CancelPart'
<1>1. Len(<<>>) = 0 /\ <<>> \in Seq(Nat) /\ <<>> \in Seq(Entry)
  BY EmptyList
<1>2. ASSUME Init PROVE CancelPart
  <2>1. /\ frames = [s \in Sessions |-> <<>>] /\ operations = [s \in Sessions |-> <<>>] /\ log = <<>>
        /\ pc = [t \in Threads |-> "idle"]
    BY <1>2 DEF Init
  <2>2. CancelTypes
    BY <1>1, <2>1 DEF CancelTypes
  <2>3. ASSUME NEW kind \in Kinds, NEW s \in Sessions PROVE SetHolds(kind, s)
    <3>1. Values(kind, s) = <<>> /\ Len(log) = 0
      BY <1>1, <2>1 DEF Values
    <3>2. PICK w : w = Looping(kind, s)
      OBVIOUS
    <3>3. \A t \in Threads : w[t].at = "away"
      <4>1. \A t \in Threads : ~Trims(t, kind, s)
        BY <2>1 DEF Trims, Trimming
      <4> QED
        BY <3>2, <4>1 DEF Looping, Place
    <3>4. PICK L : L = Remembered(kind, s)
      OBVIOUS
    <3>5. KeepsRecent(<<>>, L, 0)
      BY DEF KeepsRecent
    <3>6. SetKept(<<>>, L, 0, w) /\ HeldAreOld(<<>>, L, 0, w)
      BY <3>3, EmptySetHolds
    <3> QED
      BY <3>1, <3>2, <3>4, <3>5, <3>6 DEF SetHolds, RecentKept
  <2> QED
    BY <2>2, <2>3 DEF CancelPart, SetsKept
<1>3. ASSUME CancelPart, CallerPart, RoleClear PROVE CancelPart'
  <2>1. /\ frames' = [s \in Sessions |-> <<>>] /\ operations' = [s \in Sessions |-> <<>>]
        /\ log' = log /\ cleared' = TRUE /\ pc' = pc /\ detached' = {t \in Threads : pc[t] \in Trimming}
    BY <1>3 DEF RoleClear, threadVars
  <2>2. CancelTypes'
    BY <1>1, <1>3, <2>1 DEF CancelPart, CancelTypes
  <2>3. ASSUME NEW kind \in Kinds, NEW s \in Sessions PROVE SetHolds(kind, s)'
    <3>1. Values(kind, s)' = <<>>
      BY <2>1 DEF Values
    <3>2. PICK w : w = Looping(kind, s)'
      OBVIOUS
    <3>3. \A t \in Threads : w[t].at = "away"
      <4>1. \A t \in Threads : ~Trims(t, kind, s)'
        BY <2>1 DEF Trims
      <4> QED
        BY <3>2, <4>1 DEF Looping, Place
    <3>4. PICK L : L = Remembered(kind, s)'
      OBVIOUS
    <3>5. PICK n : n = Len(log')
      OBVIOUS
    <3>6. SetKept(<<>>, L, n, w)
      BY <3>3, EmptySetHolds
    <3> QED
      BY <2>1, <3>1, <3>2, <3>4, <3>5, <3>6 DEF SetHolds
  <2> QED
    BY <2>2, <2>3 DEF CancelPart, SetsKept
<1> QED
  BY <1>2, <1>3

(* Steps that touch no set, and move nobody in a loop. *)
LEMMA OtherStepsKeepCancels ==
  ASSUME CancelPart, UNCHANGED cancelVars,
         \A t \in Threads : (pc'[t] = pc[t] /\ arg'[t] = arg[t]) \/ (pc[t] \notin Trimming /\ pc'[t] \notin Trimming)
  PROVE  CancelPart'
<1>1. UNCHANGED <<frames, operations, log, cleared, todo, seen, detached>>
  BY DEF cancelVars
<1>2. CancelTypes'
  BY <1>1 DEF CancelPart, CancelTypes
<1>3. \A t \in Threads : Same(t) \/ (pc[t] \notin Trimming /\ pc'[t] \notin Trimming)
  BY <1>1 DEF Same
<1>4. SetsKept'
  BY <1>1, <1>3, SetsStay DEF CancelPart
<1> QED
  BY <1>2, <1>4 DEF CancelPart

-----------------------------------------------------------------------------
(* The steps, by the part of the state they touch. *)

(* A caller's step is one of a cancellation, or of another call. *)
LEMMA CallerSteps ==
  ASSUME NEW t \in Threads, Begins(t) \/ CallerStep(t)
  PROVE  Cancel(t) \/ Plain(t)
BY DEF Begins, CallerStep, Cancel, Plain

(* Polling does not concern the role thread. *)
LEMMA PollTouches ==
  ASSUME NEW t \in Threads, \/ \E o \in Ops : PollResult(t, o) \/ SubmitAndPoll(t, o)
                            \/ PollLock(t) \/ PollReturn(t) \/ PollCheck(t)
  PROVE  UNCHANGED roleState
BY DEF PollResult, SubmitAndPoll, PollLock, PollReturn, PollCheck, roleState, roleVars, sessionVars, cancelVars

(* The steps of the role thread and of the application leave the callers and,
   but for RoleClear, the cancellations alone. *)
LEMMA RoleTouches ==
  /\ RoleTake \/ RoleCloseSession \/ RoleCloseConnection \/ RoleClosed \/ (\E s \in Sessions : CloseSession(s)) =>
       UNCHANGED <<cancelVars, resultVars, threadVars>>
  /\ RoleClear => UNCHANGED <<log, resultVars, threadVars>>
  /\ RoleOpen => UNCHANGED <<cancelVars, resultVars, arg>>
  /\ (\E o \in Ops : Submit(o)) => UNCHANGED <<roleState, cancelVars, got, dropped, threadVars>>
<1>1. RoleTake \/ RoleCloseSession \/ RoleCloseConnection \/ RoleClosed => UNCHANGED <<cancelVars, resultVars, threadVars>>
  BY DEF RoleTake, RoleCloseSession, RoleCloseConnection, RoleClosed
<1>2. (\E s \in Sessions : CloseSession(s)) => UNCHANGED <<cancelVars, resultVars, threadVars>>
  BY DEF CloseSession
<1>3. RoleClear => UNCHANGED <<log, resultVars, threadVars>>
  BY DEF RoleClear
<1>4. RoleOpen => UNCHANGED <<cancelVars, resultVars, arg>>
  BY DEF RoleOpen
<1>5. (\E o \in Ops : Submit(o)) => UNCHANGED <<roleState, cancelVars, got, dropped, threadVars>>
  BY DEF Submit, roleState, roleVars, sessionVars, cancelVars
<1> QED
  BY <1>1, <1>2, <1>3, <1>4, <1>5

(* Every step keeps the role thread's part. *)
LEMMA NextKeepsRole == RolePart /\ CancelPart /\ CallerPart /\ [Next]_vars => RolePart'
<1> SUFFICES ASSUME RolePart, CancelPart, CallerPart, [Next]_vars PROVE RolePart'
  OBVIOUS
<1>1. CASE RoleStep
  BY <1>1, RoleTakeKeepsRole, RoleOpenKeepsRole, RoleCloseSessionKeepsRole, RoleCloseConnectionKeepsRole,
     RoleClearKeepsRole, ClosedKeepsRole DEF RoleStep
<1>2. ASSUME NEW t \in Threads, Cancel(t) \/ Plain(t) PROVE RolePart'
  <2>1. CASE OpenSession(t) \/ CancelOpen(t) \/ Close(t)
    BY <2>1, OpenSessionKeepsRole, CancelOpenKeepsRole, CloseKeepsRole
  <2>2. CASE CloseReturn(t)
    BY <2>2, ClosedKeepsRole
  <2>3. CASE Cancel(t)
    BY <2>3, CancelSteps, RoleUntouched
  <2>4. CASE \/ \E o \in Ops : PollResult(t, o) \/ SubmitAndPoll(t, o)
             \/ PollLock(t) \/ PollReturn(t) \/ PollCheck(t)
    BY <2>4, PollTouches, RoleUntouched
  <2> QED
    BY <1>2, <2>1, <2>2, <2>3, <2>4 DEF Plain
<1>3. CASE \E o \in Ops : Submit(o)
  BY <1>3, RoleTouches, RoleUntouched
<1>4. CASE \E s \in Sessions : CloseSession(s)
  BY <1>4, CloseSessionKeepsRole
<1>5. CASE UNCHANGED vars
  BY <1>5, RoleUntouched DEF vars, roleState, roleVars, sessionVars
<1> QED
  BY <1>1, <1>2, <1>3, <1>4, <1>5, CallerSteps DEF Next

(* Every step keeps the callers and what is remembered. *)
LEMMA NextKeepsSets == CancelPart /\ CallerPart /\ [Next]_vars => CancelPart' /\ CallerPart'
<1> SUFFICES ASSUME CancelPart, CallerPart, [Next]_vars PROVE CancelPart' /\ CallerPart'
  OBVIOUS
<1>1. CASE UNCHANGED <<cancelVars, resultVars, threadVars>>
  BY <1>1, OtherStepsKeepCancels, OtherStepsKeepCallers DEF threadVars
<1>2. CASE RoleOpen
  <2>1. /\ UNCHANGED <<cancelVars, arg>>
        /\ pc' = [t \in Threads |-> IF t = job.by /\ pc[t] = "opening" THEN "idle" ELSE pc[t]]
    BY <1>2 DEF RoleOpen
  <2>2. "idle" \notin Trimming /\ "opening" \notin Trimming
    BY DEF Trimming
  <2>3. \A t \in Threads : (pc'[t] = pc[t] /\ arg'[t] = arg[t]) \/ (pc[t] \notin Trimming /\ pc'[t] \notin Trimming)
    BY <2>1, <2>2
  <2> QED
    BY <1>2, <2>1, <2>3, OtherStepsKeepCancels, OtherStepsKeepCallers
<1>3. CASE RoleClear
  BY <1>3, EmptySetsKept, OtherStepsKeepCallers
<1>4. CASE RoleTake \/ RoleCloseSession \/ RoleCloseConnection \/ RoleClosed \/ \E s \in Sessions : CloseSession(s)
  BY <1>1, <1>4, RoleTouches
<1>5. ASSUME NEW t \in Threads, Plain(t) PROVE CancelPart' /\ CallerPart'
  <2>1. UNCHANGED cancelVars /\ Moves(t) /\ CallerPart' /\ pc[t] \notin Trimming /\ pc'[t] \notin Trimming
    BY <1>5, PlainSteps
  <2>2. \A u \in Threads \ {t} : pc'[u] = pc[u] /\ arg'[u] = arg[u]
    BY <2>1, OthersSame DEF Same
  <2>3. \A u \in Threads : (pc'[u] = pc[u] /\ arg'[u] = arg[u]) \/ (pc[u] \notin Trimming /\ pc'[u] \notin Trimming)
    BY <2>1, <2>2
  <2> QED
    BY <2>1, <2>3, OtherStepsKeepCancels
<1>6. ASSUME NEW t \in Threads, Cancel(t) PROVE CancelPart' /\ CallerPart'
  BY <1>6, CancelSteps
<1>7. CASE \E o \in Ops : Submit(o)
  BY <1>7, RoleTouches, OtherStepsKeepCancels, OtherStepsKeepCallers DEF threadVars
<1>8. CASE UNCHANGED vars
  BY <1>1, <1>8 DEF vars, cancelVars, resultVars, threadVars
<1> QED
  BY <1>2, <1>3, <1>4, <1>5, <1>6, <1>7, <1>8, CallerSteps DEF Next, RoleStep

-----------------------------------------------------------------------------
(* Only RememberInsert adds to the log, and only the check after a poll decides
   about a result. *)
LEMMA WhoDecides ==
  ASSUME [Next]_vars
  PROVE  /\ log' = log \/ \E t \in Threads : RememberInsert(t)
         /\ UNCHANGED dropped \/ \E t \in Threads : PollCheck(t)
<1>1. CASE RoleStep
  BY <1>1, RoleTouches DEF RoleStep, cancelVars, resultVars
<1>2. ASSUME NEW t \in Threads, Cancel(t)
      PROVE  (log' = log \/ RememberInsert(t)) /\ UNCHANGED dropped
  BY <1>2 DEF Cancel, CancelSend, Remember, RememberInsert, RememberTrim, RememberIterate, RememberOldest,
              RememberPop, RememberDetached, LoopUnchanged, resultVars
<1>3. ASSUME NEW t \in Threads, Plain(t) PROVE log' = log /\ (UNCHANGED dropped \/ PollCheck(t))
  BY <1>3 DEF Plain, OpenSession, CancelOpen, PollResult, SubmitAndPoll, PollLock, PollReturn, PollCheck,
              Close, CloseReturn, cancelVars, resultVars
<1>4. CASE (\E o \in Ops : Submit(o)) \/ (\E s \in Sessions : CloseSession(s))
  BY <1>4, RoleTouches DEF cancelVars, resultVars
<1>5. CASE UNCHANGED vars
  BY <1>5 DEF vars
<1> QED
  BY <1>1, <1>2, <1>3, <1>4, <1>5, CallerSteps DEF Next

\* What was remembered of an operation.
Was(o) ==
  \E i \in DOMAIN log : \/ o.frame \in Logged(i, "frame", o.session)
                        \/ o.id \in Logged(i, "operation", o.session)

(* An operation is suppressed because of what was remembered of it. *)
LEMMA SuppressedWasCancelled ==
  ASSUME CancelPart, NEW o \in Op, NEW kind \in Kinds, Suppressed(kind, o)
  PROVE  Was(o)
<1>1. o.session \in Sessions
  BY DEF Op
<1>2. DOMAIN log = 1 .. Len(log)
  BY LenProperties DEF CancelPart, CancelTypes
<1>3. IdOf(kind, o) \in Elems(Values(kind, o.session))
  BY DEF Suppressed, Elements, Elems
<1>4. EachOnce(Values(kind, o.session), Remembered(kind, o.session), Len(log))
  BY <1>1 DEF CancelPart, SetsKept, SetHolds, SetKept
<1>5. PICK i \in 1 .. Len(log) : IdOf(kind, o) \in Remembered(kind, o.session)[i]
  BY <1>3, <1>4 DEF EachOnce
<1>6. IdOf(kind, o) \in Logged(i, kind, o.session) /\ i \in DOMAIN log
  BY <1>2, <1>5 DEF Remembered
<1> QED
  BY <1>6 DEF Kinds, IdOf, Was

(* A result that is dropped was cancelled, and stays so. *)
LEMMA NextKeepsDropped ==
  ASSUME CancelPart, CallerPart, OnlyCancelledDropped, [Next]_vars
  PROVE  OnlyCancelledDropped'
<1>1. ASSUME NEW o \in Ops, Was(o) PROVE Was(o)'
  <2>1. CASE log' = log
    BY <1>1, <2>1 DEF Logged, Was
  <2>2. ASSUME NEW t \in Threads, RememberInsert(t) PROVE Was(o)'
    <3>1. \E e : log' = Append(log, e)
      BY <2>2 DEF RememberInsert
    <3>2. PICK n \in Nat : n = Len(log) /\ DOMAIN log = 1 .. n
      BY LenProperties DEF CancelPart, CancelTypes
    <3>3. CancelPart'
      BY <2>2, InsertStep
    <3>4. log \in Seq(Entry) /\ log' \in Seq(Entry)
      BY <3>3 DEF CancelPart, CancelTypes
    <3>5. PICK e : log' = Append(log, e)
      BY <3>1
    <3>6. (\A i \in 1 .. n : log'[i] = log[i]) /\ DOMAIN log' = 1 .. (n + 1)
      <4>1. Len(log') = n + 1 /\ \A i \in 1 .. n : log'[i] = log[i]
        BY <3>2, <3>4, <3>5
      <4> QED
        BY <3>4, <4>1, LenProperties
    <3>7. PICK i \in DOMAIN log : \/ o.frame \in Logged(i, "frame", o.session)
                                  \/ o.id \in Logged(i, "operation", o.session)
      BY <1>1 DEF Was
    <3>8. log'[i] = log[i] /\ i \in DOMAIN log'
      BY <3>2, <3>6, <3>7
    <3> QED
      BY <3>7, <3>8 DEF Was, Logged
  <2> QED
    BY <2>1, <2>2, WhoDecides
<1>2. \A o \in dropped : Was(o)
  BY DEF OnlyCancelledDropped, Was
<1>3. dropped \subseteq Ops /\ Ops \subseteq Op
  BY OpTypes DEF CallerPart, CallerTypes
<1>4. CASE dropped' = dropped
  <2>1. \A o \in dropped' : Was(o)'
    BY <1>1, <1>2, <1>3, <1>4
  <2> QED
    BY <2>1 DEF OnlyCancelledDropped, Was
<1>5. ASSUME NEW t \in Threads, PollCheck(t) PROVE OnlyCancelledDropped'
  <2>1. pc[t] \in Kinds /\ arg[t] \in Ops
    BY <1>5 DEF PollCheck, CallerPart, ArgsKnown
  <2>2. dropped' = dropped \/ (dropped' = dropped \cup {arg[t]} /\ Suppressed(pc[t], arg[t]))
    BY <1>5 DEF PollCheck
  <2>3. Suppressed(pc[t], arg[t]) => Was(arg[t])
    BY <1>3, <2>1, SuppressedWasCancelled
  <2>4. \A o \in dropped' : o \in Ops /\ Was(o)
    BY <1>2, <1>3, <2>1, <2>2, <2>3
  <2>5. \A o \in dropped' : Was(o)'
    BY <1>1, <2>4
  <2> QED
    BY <2>5 DEF OnlyCancelledDropped, Was
<1> QED
  BY <1>4, <1>5, WhoDecides

-----------------------------------------------------------------------------
\* The inductive invariant: the sessions and close, the sets, the callers, and what
\* was dropped.
IInv == RolePart /\ CancelPart /\ CallerPart /\ OnlyCancelledDropped

(* IInv is an inductive invariant of the connection. *)
LEMMA Inductive ==
  /\ Init => IInv
  /\ IInv /\ [Next]_vars => IInv'
<1>1. Init => OnlyCancelledDropped
  BY DEF Init, OnlyCancelledDropped
<1> QED
  BY <1>1, RoleInit, EmptySetsKept, OtherStepsKeepCallers, NextKeepsRole, NextKeepsSets, NextKeepsDropped DEF IInv

(* IInv holds in every state the connection reaches. *)
THEOREM Invariant == Spec => []IInv
BY Inductive, PTL DEF Spec

(* close leaves nothing behind: when _closed is set, the native connection and
   every session the role thread ever opened, awaited or not, is closed or named
   among what could not be closed, a failure leaving only older sessions.  Until
   then a set of identities is over its limit only while somebody trims it. *)
THEOREM CloseReleasesHolds == Spec => []CloseReleases
<1>1. IInv => CloseReleases
  <2> SUFFICES ASSUME IInv PROVE CloseReleases
    OBVIOUS
  <2>1. SetsTrimmed
    BY KeptAreTrimmed DEF IInv, CancelPart
  <2>2. TypeOK
    BY <2>1 DEF IInv, RolePart, RoleTypes, CancelPart, CancelTypes, CallerPart, CallerTypes, TypeOK, Points, Args,
                Entry
  <2> QED
    BY <2>2 DEF IInv, RolePart, CloseProgress, AllReleased, LeftBehind, CloseReleases
<1> QED
  BY <1>1, Invariant, PTL

(* _is_cancelled_result drops a result only for an operation or a frame that was
   cancelled on the same session, whatever the sets have been through. *)
THEOREM OnlyCancelledDroppedHolds == Spec => []OnlyCancelledDropped
<1>1. IInv => OnlyCancelledDropped
  BY DEF IInv
<1> QED
  BY <1>1, Invariant, PTL

(* A value that was remembered recently is in its set. *)
LEMMA RecentIsKept ==
  ASSUME CancelPart, ~cleared, NEW kind \in Kinds, NEW s \in Sessions, NEW v,
         RememberedRecently(kind, s, v)
  PROVE  v \in Elems(Values(kind, s))
<1> DEFINE n == Len(log)
           L == Remembered(kind, s)
<1>1. n \in Nat /\ DOMAIN log = 1 .. n
  BY LenProperties DEF CancelPart, CancelTypes
<1>2. PICK i \in DOMAIN log :
        /\ v \in Logged(i, kind, s)
        /\ \A j \in 1 .. i - 1 : v \notin Logged(j, kind, s)
        /\ Cardinality((UNION {Logged(j, kind, s) : j \in i + 1 .. Len(log)}) \ {v}) < Room
  BY DEF RememberedRecently
<1>3. \A j \in 1 .. n : L[j] = Logged(j, kind, s)
  BY DEF Remembered
<1>4. UNION {Logged(j, kind, s) : j \in i + 1 .. n} = After(L, n, i)
  <2>1. \A j \in i + 1 .. n : j \in 1 .. n
    BY <1>1
  <2>2. \A u : u \in UNION {Logged(j, kind, s) : j \in i + 1 .. n} <=> u \in After(L, n, i)
    BY <1>3, <2>1 DEF After
  <2> QED
    BY <2>2
<1>5. \A j \in 1 .. (i - 1) : j \in 1 .. n
  BY <1>1
<1>6. v \in L[i] /\ i \in 1 .. n /\ IsRecent(L, n, i, v)
  <2>1. i \in 1 .. n /\ v \in L[i]
    BY <1>1, <1>2, <1>3
  <2>2. \A j \in 1 .. (i - 1) : v \notin L[j]
    BY <1>2, <1>3, <1>5
  <2>3. Cardinality(After(L, n, i) \ {v}) < Room
    BY <1>2, <1>4
  <2> QED
    BY <2>1, <2>2, <2>3 DEF IsRecent
<1>7. KeepsRecent(Values(kind, s), L, n)
  BY DEF CancelPart, SetsKept, SetHolds, RecentKept
<1>8. HasOnlyLater(Values(kind, s), L, n, i, v)
  BY <1>6, <1>7 DEF KeepsRecent
<1> QED
  BY <1>8 DEF HasOnlyLater, Elems

(* A late result does not pass a set that remembers what it is of: also in a thread
   that was polling before the cancellation, with any number of threads remembering
   and trimming there without a lock, until Room later identities have pushed it out. *)
THEOREM LateResultSuppressedHolds == Spec => LateResultSuppressed
<1>1. IInv /\ [Next]_vars =>
        [\A t \in Threads : Passes(t) =>
           cleared \/ ~RememberedRecently(pc[t], arg[t].session, IdOf(pc[t], arg[t]))]_vars
  <2> SUFFICES ASSUME IInv, [Next]_vars, ~UNCHANGED vars, NEW t \in Threads, Passes(t), ~cleared
               PROVE  ~RememberedRecently(pc[t], arg[t].session, IdOf(pc[t], arg[t]))
    OBVIOUS
  <2>1. CancelPart /\ CallerPart
    BY DEF IInv
  <2>2. pc[t] \in Kinds /\ pc'[t] # pc[t] /\ arg[t] \notin dropped'
    BY DEF Passes
  <2>3. arg[t] \in Ops /\ arg[t].session \in Sessions
    BY <2>1, <2>2, OpTypes DEF CallerPart, ArgsKnown, Op
  <2>4. PollCheck(t)
    <3>1. CASE \E u \in Threads : Begins(u) \/ CallerStep(u)
      <4>1. PICK u \in Threads : Cancel(u) \/ Plain(u)
        BY <3>1, CallerSteps
      <4>2. Moves(u)
        BY <2>1, <4>1, CancelSteps, PlainSteps
      <4>3. u = t
        BY <2>1, <2>2, <4>2, OthersSame DEF Same
      <4>4. pc[t] \notin {"idle", "opening", "closing", "lock", "polling", "insert"} \cup Trimming
        BY <2>2 DEF Kinds, Trimming
      <4> QED
        BY <4>1, <4>3, <4>4 DEF Cancel, CancelSend, Remember, RememberInsert, RememberTrim, RememberIterate,
          RememberOldest, RememberPop, RememberDetached, Plain, OpenSession, Close, CancelOpen, CloseReturn,
          PollResult, SubmitAndPoll, PollLock, PollReturn, Trimming
    <3>2. CASE RoleOpen
      <4>1. pc' = [u \in Threads |-> IF u = job.by /\ pc[u] = "opening" THEN "idle" ELSE pc[u]]
        BY <3>2 DEF RoleOpen
      <4> QED
        BY <2>2, <4>1 DEF Kinds
    <3>3. CASE UNCHANGED pc
      BY <2>2, <3>3
    <3> QED
      BY <3>1, <3>2, <3>3, RoleTouches DEF Next, RoleStep, threadVars
  <2>5. ~Suppressed(pc[t], arg[t])
    BY <2>2, <2>4 DEF PollCheck
  <2>6. IdOf(pc[t], arg[t]) \notin Elems(Values(pc[t], arg[t].session))
    BY <2>5 DEF Suppressed, Elements, Elems
  <2> QED
    BY <2>1, <2>2, <2>3, <2>6, RecentIsKept
<1> QED
  BY <1>1, Invariant, PTL DEF Spec, LateResultSuppressed
=============================================================================
